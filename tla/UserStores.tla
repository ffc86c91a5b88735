----------------------------- MODULE UserStores -----------------------------
(***************************************************************************)
(* User management (users_mgmt.go).  A user lives in three stores: the     *)
(* account in Firebase Auth with a role claim, the row in the users table, *)
(* and the document in Firestore.  Creating, changing the role and         *)
(* deleting write one after the other, and most errors are dropped.        *)
(***************************************************************************)
EXTENDS Naturals, FiniteSets

CONSTANTS
  Uids, EmailOf,   \* the ids that Auth will issue, and the email of each
  UserRequests,
  MaxOps,          \* bound: requests made
  MaxUserFaults    \* bound

ASSUME UserAssumption ==
  /\ EmailOf \in [Uids -> {EmailOf[u] : u \in Uids}]
  /\ MaxOps \in Nat /\ MaxUserFaults \in Nat

VARIABLES
  auth, users, docs,  \* the role in each store; "unset" is an account without claims
  issued,             \* ids that Auth has issued: none is issued twice
  request,            \* what each request does, and to which ids it is still to do it
  mishandled,         \* ids with a failed step, or with two requests at a time
  orphaned,           \* ids whose row a delete took by email without purging the id
  ops, userFaults

userVars == <<auth, users, docs, issued, request, mishandled, orphaned, ops, userFaults>>

Roles == {"admin", "viewer"}
Absent == "absent"
NoRequest == [pc |-> "idle", creates |-> FALSE, role |-> Absent, uid |-> "none",
              todo |-> {}, about |-> {}]

UserInit ==
  /\ auth = [u \in Uids |-> Absent]
  /\ users = [u \in Uids |-> Absent]
  /\ docs = [u \in Uids |-> Absent]
  /\ issued = {}
  /\ request = [r \in UserRequests |-> NoRequest]
  /\ mishandled = {} /\ orphaned = {}
  /\ ops = 0 /\ userFaults = 0

SameEmail(u) == {v \in Uids : EmailOf[v] = EmailOf[u]}

\* A request's step is done, or fails and counts as a mishap of id u.
Works == UNCHANGED <<mishandled, userFaults>>
Fails(u) ==
  /\ userFaults < MaxUserFaults
  /\ userFaults' = userFaults + 1
  /\ mishandled' = mishandled \cup {u}

Step(r, pc) == request' = [request EXCEPT ![r].pc = pc]
Answered(r) == request' = [request EXCEPT ![r] = NoRequest]
At(r, pc) == request[r].pc = pc

\* A new request about some ids, of which others may be about too.
Begin(r, new) ==
  /\ At(r, "idle")
  /\ ops < MaxOps
  /\ ops' = ops + 1
  /\ request' = [request EXCEPT ![r] = new]
  /\ mishandled' = mishandled \cup
       {u \in new.about : \E q \in UserRequests \ {r} : u \in request[q].about}
  /\ UNCHANGED <<orphaned, userFaults>>

----------------------------------------------------------------------------
\* An email has one account; that of another request or none is refused.
Create(r, u, role) ==
  /\ u \notin issued
  /\ \A v \in SameEmail(u) : auth[v] = Absent
  /\ Begin(r, [pc |-> "claims", creates |-> TRUE, role |-> role, uid |-> u, todo |-> {},
               about |-> {u}])
  /\ issued' = issued \cup {u}
  /\ auth' = [auth EXCEPT ![u] = "unset"]
  /\ UNCHANGED <<users, docs>>

\* The account is made but the answer is lost: the request ends there.
CreateLost(r, u) ==
  /\ At(r, "idle")
  /\ ops < MaxOps
  /\ ops' = ops + 1
  /\ u \notin issued
  /\ \A v \in SameEmail(u) : auth[v] = Absent
  /\ issued' = issued \cup {u}
  /\ auth' = [auth EXCEPT ![u] = "unset"]
  /\ Fails(u)
  /\ UNCHANGED <<users, docs, request, orphaned>>

ChangeRole(r, u, role) ==
  /\ u \in issued
  /\ Begin(r, [pc |-> "claims", creates |-> FALSE, role |-> role, uid |-> u, todo |-> {},
               about |-> {u}])
  /\ UNCHANGED <<auth, users, docs, issued>>

\* Auth refuses claims of an account that is not there.  A role change ends with
\* an error then, a creation goes on.
SetClaims(r) ==
  LET u == request[r].uid IN
  /\ At(r, "claims")
  /\ IF auth[u] = Absent
     THEN auth' = auth /\ IF request[r].creates THEN Step(r, "check") ELSE Answered(r)
     ELSE /\ auth' = [auth EXCEPT ![u] = request[r].role]
          /\ Step(r, IF request[r].creates THEN "check" ELSE "patch")
  /\ Works
  /\ UNCHANGED <<users, docs, issued, orphaned, ops>>

SetClaimsFails(r) ==
  /\ At(r, "claims")
  /\ Fails(request[r].uid)
  /\ IF request[r].creates THEN Step(r, "check") ELSE Answered(r)
  /\ UNCHANGED <<auth, users, docs, issued, orphaned, ops>>

\* upsertSupabaseUserRow looks for the row first, and gives up if it cannot.
CheckRow(r) ==
  /\ At(r, "check")
  /\ \/ Step(r, IF users[request[r].uid] = Absent THEN "post" ELSE "patch") /\ Works
     \/ Step(r, "doc") /\ Fails(request[r].uid)
  /\ UNCHANGED <<auth, users, docs, issued, orphaned, ops>>

\* Mutant: a role change leaves the row to the app.
WriteRowNew(r) ==
  LET u == request[r].uid IN
  /\ request[r].pc \in {"post", "patch"}
  /\ users' = IF At(r, "post") THEN [users EXCEPT ![u] = request[r].role] ELSE users
  /\ Works
  /\ Step(r, "doc")
  /\ UNCHANGED <<auth, docs, issued, orphaned, ops>>

\* A patch changes no row when there is none, a post is refused when there is.
WriteRow(r) ==
  LET u == request[r].uid IN
  /\ request[r].pc \in {"post", "patch"}
  /\ \/ /\ users' = IF (users[u] = Absent) = At(r, "post")
                    THEN [users EXCEPT ![u] = request[r].role] ELSE users
        /\ Works
     \/ users' = users /\ Fails(u)
  /\ Step(r, "doc")
  /\ UNCHANGED <<auth, docs, issued, orphaned, ops>>

\* Firestore's PATCH writes the document whether there is one or not.
WriteDoc(r) ==
  /\ At(r, "doc")
  /\ \/ docs' = [docs EXCEPT ![request[r].uid] = request[r].role] /\ Works
     \/ docs' = docs /\ Fails(request[r].uid)
  /\ Answered(r)
  /\ UNCHANGED <<auth, users, issued, orphaned, ops>>

----------------------------------------------------------------------------
\* By id, by email, or by both.
Delete(r, u, how) ==
  /\ u \in issued
  /\ Begin(r, [pc |-> IF how = "id" THEN "email" ELSE "ids", creates |-> FALSE, role |-> Absent,
               uid |-> u, todo |-> IF how = "email" THEN {} ELSE {u}, about |-> SameEmail(u)])
  /\ UNCHANGED <<auth, users, docs, issued>>

\* The email comes from the row; without one only the id is purged.
FindEmail(r) ==
  LET u == request[r].uid IN
  /\ At(r, "email")
  /\ \/ Step(r, IF users[u] = Absent THEN "purge" ELSE "ids") /\ Works
     \/ Step(r, "purge") /\ Fails(u)
  /\ UNCHANGED <<auth, users, docs, issued, orphaned, ops>>

\* The look-up by email fails, or finds no id: the email is escaped before url.Values
\* escapes it, and always has an "@" for that to change.
FindIds(r) ==
  /\ At(r, "ids")
  /\ Step(r, "rows")
  /\ Works
  /\ UNCHANGED <<auth, users, docs, issued, orphaned, ops>>

\* The rows of the email go, those of ids that are not to be purged too; when this
\* fails the others are deleted by id.
DeleteRows(r) ==
  LET same == SameEmail(request[r].uid) IN
  /\ At(r, "rows")
  /\ \/ /\ users' = [v \in Uids |-> IF v \in same THEN Absent ELSE users[v]]
        /\ orphaned' = orphaned \cup {v \in same \ request[r].todo : users[v] # Absent}
        /\ Works
     \/ UNCHANGED <<users, orphaned>> /\ Fails(request[r].uid)
  /\ Step(r, "purge")
  /\ UNCHANGED <<auth, docs, issued, ops>>

\* The ids in any order; of each the account, the row and the document.
PurgeAccount(r, u) ==
  /\ At(r, "purge")
  /\ u \in request[r].todo
  /\ request' = [request EXCEPT ![r].pc = "purgeRow", ![r].uid = u, ![r].todo = @ \ {u}]
  /\ \/ auth' = [auth EXCEPT ![u] = Absent] /\ Works
     \/ auth' = auth /\ Fails(u)
  /\ UNCHANGED <<users, docs, issued, orphaned, ops>>

PurgeRow(r) ==
  LET u == request[r].uid IN
  /\ At(r, "purgeRow")
  /\ Step(r, "purgeDoc")
  /\ \/ users' = [users EXCEPT ![u] = Absent] /\ Works
     \/ users' = users /\ Fails(u)
  /\ UNCHANGED <<auth, docs, issued, orphaned, ops>>

PurgeDoc(r) ==
  LET u == request[r].uid IN
  /\ At(r, "purgeDoc")
  /\ Step(r, "purge")
  /\ \/ docs' = [docs EXCEPT ![u] = Absent] /\ Works
     \/ docs' = docs /\ Fails(u)
  /\ UNCHANGED <<auth, users, issued, orphaned, ops>>

Purged(r) ==
  /\ At(r, "purge")
  /\ request[r].todo = {}
  /\ Answered(r)
  /\ Works
  /\ UNCHANGED <<auth, users, docs, issued, orphaned, ops>>

UserNext ==
  \E r \in UserRequests :
    \/ \E u \in Uids :
         \/ \E role \in Roles : Create(r, u, role) \/ ChangeRole(r, u, role)
         \/ CreateLost(r, u)
         \/ \E how \in {"id", "email", "both"} : Delete(r, u, how)
         \/ PurgeAccount(r, u)
    \/ SetClaims(r) \/ SetClaimsFails(r) \/ CheckRow(r) \/ WriteRow(r) \/ WriteDoc(r)
    \/ FindEmail(r) \/ FindIds(r) \/ DeleteRows(r) \/ PurgeRow(r) \/ PurgeDoc(r) \/ Purged(r)

UserSpec == UserInit /\ [][UserNext]_userVars

----------------------------------------------------------------------------
(* Properties *)

Held == Roles \cup {Absent}

\* Every variable has its type.
UserTypeOK ==
  /\ auth \in [Uids -> Held \cup {"unset"}]
  /\ users \in [Uids -> Held] /\ docs \in [Uids -> Held]
  /\ issued \subseteq Uids /\ mishandled \subseteq Uids /\ orphaned \subseteq Uids
  /\ \A r \in UserRequests :
       /\ request[r].pc \in {"idle", "claims", "check", "post", "patch", "doc", "email", "ids",
                             "rows", "purge", "purgeRow", "purgeDoc"}
       /\ request[r].creates \in BOOLEAN /\ request[r].role \in Held
       /\ request[r].uid \in Uids \cup {"none"}
       /\ request[r].todo \subseteq request[r].about /\ request[r].about \subseteq Uids
  /\ ops \in 0..MaxOps /\ userFaults \in 0..MaxUserFaults

\* A user that no request is about has the same role in all three stores, or is
\* in none, unless a step for it failed or two requests for it overlapped: the
\* handlers drop such errors and nothing repairs them (handleCreateUser,
\* handleUpdateUserRole, handleDeleteUser).  But a delete that finds a row by its
\* email and was not given its id leaves the account and the document, which have
\* one role still, without a row, although no step fails.
UsersAgree ==
  \A u \in Uids :
    \/ u \in mishandled
    \/ \E r \in UserRequests : u \in request[r].about
    \/ auth[u] = users[u] /\ users[u] = docs[u]
    \/ u \in orphaned /\ users[u] = Absent /\ auth[u] = docs[u]
=============================================================================
