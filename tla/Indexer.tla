------------------------------ MODULE Indexer ------------------------------
(***************************************************************************)
(* The search indexer (gofn-indexer/main.go): a run rebuilds one index     *)
(* after another.  It pages through a table on the first replica that      *)
(* answers, throwing away what a replica gave before it failed, and then   *)
(* deletes, creates and loads the index in three requests to OpenSearch.   *)
(* Joomla's articles come the same way from the one mesh endpoint.         *)
(***************************************************************************)
EXTENDS Integers, Sequences, SequencesExt, FiniteSets

CONSTANTS
  Indices,        \* the indices, in order
  Joomla,         \* the index of Joomla's articles, the last
  Bases,          \* for each index, the bases its rows are read from, in order
  Docs,           \* row ids, ordered: rows are paged in the order of their ids
  PageSize,       \* rows of a page
  MaxDocEdits,    \* bound: rows inserted and deleted
  MaxIndexFaults  \* bound: requests to a replica or to OpenSearch that fail

ASSUME IndexAssumption ==
  /\ Indices \in Seq(ToSet(Indices)) /\ Indices # <<>> /\ DOMAIN Bases = DOMAIN Indices
  /\ \A i \in DOMAIN Indices : Bases[i] \in Seq(ToSet(Bases[i])) /\ Bases[i] # <<>>
  /\ IsFiniteSet(Docs) /\ Docs \subseteq Nat /\ PageSize \in Nat \ {0}
  /\ MaxDocEdits \in Nat /\ MaxIndexFaults \in Nat

VARIABLES
  source,    \* the rows of each index's table; replicas are in step with it
  docEdits,
  index,     \* documents of each index; NoIndex when it is not there
  run,       \* the run: index and base it is at, rows read so far
  stable,    \* rows present since the read of this base began
  shifted,   \* a row was deleted since, so later pages may miss one
  stale,     \* indices whose delete OpenSearch refused
  loaded,    \* what each index was last loaded with; NoIndex before
  broken,    \* indices whose last rebuild failed
  indexFaults

indexVars == <<source, docEdits, index, run, stable, shifted, stale, loaded, broken, indexFaults>>

NoIndex == {-1}
Waiting == [pc |-> "idle", at |-> 1, base |-> 1, rows |-> {}, offset |-> 0]

Running(pc) == run.pc = pc
Current == Indices[run.at]
IndexFault == indexFaults < MaxIndexFaults /\ indexFaults' = indexFaults + 1

IndexInit ==
  /\ source \in [ToSet(Indices) -> SUBSET Docs] /\ docEdits = 0
  /\ index = [i \in ToSet(Indices) |-> NoIndex]
  /\ run = Waiting
  /\ stable = {} /\ shifted = FALSE
  /\ stale = {} /\ broken = {}
  /\ loaded = index
  /\ indexFaults = 0

EditDoc(i, d) ==
  /\ docEdits < MaxDocEdits
  /\ docEdits' = docEdits + 1
  /\ source' = [source EXCEPT ![i] = IF d \in @ THEN @ \ {d} ELSE @ \cup {d}]
  /\ IF Running("read") /\ i = Current
     THEN stable' = stable \ {d} /\ shifted' = (shifted \/ d \in source[i])
     ELSE UNCHANGED <<stable, shifted>>
  /\ UNCHANGED <<index, run, stale, loaded, broken, indexFaults>>

----------------------------------------------------------------------------
(* replicaRead *)

ReadFrom(at, base) ==
  /\ run' = [Waiting EXCEPT !.pc = "read", !.at = at, !.base = base]
  /\ stable' = source[Indices[at]]
  /\ shifted' = FALSE

\* A tick of the watch mode, or the process started again; a run that is still
\* going lets ticks pass.
StartFull ==
  /\ Running("idle")
  /\ ReadFrom(1, 1)
  /\ UNCHANGED <<source, docEdits, index, stale, loaded, broken, indexFaults>>

\* The rows from the offset on; a row's rank is the number of rows before it.
Rank(d) == Cardinality({e \in source[Current] : e < d})
Page == {d \in source[Current] : Rank(d) \in run.offset..(run.offset + PageSize - 1)}

\* A short page is the last; so is one that reaches the total of Content-Range,
\* which the mesh does not send for Joomla's articles.
ReadPage ==
  /\ Running("read")
  /\ LET offset == run.offset + Cardinality(Page)
         last == Cardinality(Page) < PageSize
                 \/ (Current # Joomla /\ offset >= Cardinality(source[Current]))
     IN  run' = [run EXCEPT !.rows = @ \cup Page, !.offset = offset,
                            !.pc = IF last THEN "delete" ELSE "read"]
  /\ UNCHANGED <<source, docEdits, index, stable, shifted, stale, loaded, broken, indexFaults>>

GiveUp == run' = Waiting /\ UNCHANGED <<stable, shifted>>

\* Mutant: the next replica goes on where the last one stopped.
ReadFailsKeepsOffset ==
  /\ Running("read")
  /\ IndexFault
  /\ IF run.base < Len(Bases[run.at])
     THEN run' = [run EXCEPT !.base = @ + 1, !.rows = {}] /\ UNCHANGED <<stable, shifted>>
     ELSE GiveUp
  /\ UNCHANGED <<source, docEdits, index, stale, loaded, broken>>

\* The next replica starts from the first row; after the last the run is over.
ReadFails ==
  /\ Running("read")
  /\ IndexFault
  /\ IF run.base < Len(Bases[run.at]) THEN ReadFrom(run.at, run.base + 1) ELSE GiveUp
  /\ UNCHANGED <<source, docEdits, index, stale, loaded, broken>>

----------------------------------------------------------------------------
(* rebuildIndex *)

Goto(pc) == run' = [run EXCEPT !.pc = pc] /\ UNCHANGED <<stable, shifted>>

DeleteIndex ==
  /\ Running("delete")
  /\ index' = [index EXCEPT ![Current] = NoIndex]
  /\ stale' = stale \ {Current}
  /\ Goto("create")
  /\ UNCHANGED <<source, docEdits, loaded, broken, indexFaults>>

\* OpenSearch answers with an error status, which is not looked at: the old
\* documents stay, and creating the index is refused with 400, which is fine.
DeleteRefused ==
  /\ Running("delete")
  /\ IndexFault
  /\ stale' = stale \cup {Current}
  /\ Goto("create")
  /\ UNCHANGED <<source, docEdits, index, loaded, broken>>

CreateIndex ==
  /\ Running("create")
  /\ index' = [index EXCEPT ![Current] = IF @ = NoIndex THEN {} ELSE @]
  /\ Goto("load")
  /\ UNCHANGED <<source, docEdits, stale, loaded, broken, indexFaults>>

NextIndex ==
  IF run.at < Len(Indices) THEN ReadFrom(run.at + 1, 1) ELSE GiveUp

\* Mutant: an empty table ends the run.
LoadIndexOrStop ==
  /\ Running("load")
  /\ index' = [index EXCEPT ![Current] = @ \cup run.rows]
  /\ loaded' = [loaded EXCEPT ![Current] = run.rows]
  /\ broken' = broken \ {Current}
  /\ IF run.rows = {} THEN GiveUp ELSE NextIndex
  /\ UNCHANGED <<source, docEdits, stale, indexFaults>>

\* Documents go in under their row's id; without rows nothing is sent.
LoadIndex ==
  /\ Running("load")
  /\ index' = [index EXCEPT ![Current] = @ \cup run.rows]
  /\ loaded' = [loaded EXCEPT ![Current] = run.rows]
  /\ broken' = broken \ {Current}
  /\ NextIndex
  /\ UNCHANGED <<source, docEdits, stale, indexFaults>>

\* No answer, or an error: the run is over, and what is indexed stays as far as
\* it got, also part of the documents.
RebuildFails ==
  /\ run.pc \in {"delete", "create", "load"}
  /\ IndexFault
  /\ \/ UNCHANGED index
     \/ Running("delete") /\ index' = [index EXCEPT ![Current] = NoIndex]
     \/ Running("create") /\ index' = [index EXCEPT ![Current] = IF @ = NoIndex THEN {} ELSE @]
     \/ \E some \in SUBSET run.rows :
          Running("load") /\ index' = [index EXCEPT ![Current] = @ \cup some]
  /\ broken' = broken \cup {Current}
  /\ GiveUp
  /\ UNCHANGED <<source, docEdits, stale, loaded>>

IndexStep ==
  \/ ReadPage \/ ReadFails \/ DeleteIndex \/ DeleteRefused
  \/ CreateIndex \/ LoadIndex \/ RebuildFails

IndexNext ==
  \/ \E i \in ToSet(Indices), d \in Docs : EditDoc(i, d)
  \/ StartFull \/ IndexStep

IndexSpec == IndexInit /\ [][IndexNext]_indexVars

----------------------------------------------------------------------------
(* Properties *)

IndexTypeOK ==
  /\ source \in [ToSet(Indices) -> SUBSET Docs] /\ docEdits \in 0..MaxDocEdits
  /\ \A i \in ToSet(Indices) : index[i] = NoIndex \/ index[i] \subseteq Docs
  /\ run.pc \in {"idle", "read", "delete", "create", "load"}
  /\ run.at \in DOMAIN Indices /\ run.base \in DOMAIN Bases[run.at]
  /\ run.rows \subseteq Docs /\ run.offset \in Nat
  /\ stable \subseteq Docs
  /\ stale \cup broken \subseteq ToSet(Indices)
  /\ indexFaults \in 0..MaxIndexFaults

\* A read that is complete has every row that was there all the while, however
\* many replicas failed on the way, unless a row was deleted under it: then the
\* pages shift, and one row may be between two of them (replicaRead).
PagedReadComplete ==
  run.pc \in {"delete", "create", "load"} => shifted \/ stable \subseteq run.rows

\* An index that no run is rebuilding holds what it was last loaded with: only a
\* failed rebuild leaves it short, and only a delete that OpenSearch refused
\* leaves documents of older rows in it (rebuildIndex goes on all the same).
IndexTrue ==
  \A i \in ToSet(Indices) :
    \/ index[i] = loaded[i] \/ i \in broken \cup stale
    \/ i = Current /\ run.pc \in {"create", "load"}

\* Between runs every index has the rows of its table: what a run of the watch
\* mode brings about once edits and failures stop.
IndexSettled == Running("idle") => index = source
=============================================================================
