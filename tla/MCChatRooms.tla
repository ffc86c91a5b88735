---------------------------- MODULE MCChatRooms ----------------------------
(***************************************************************************)
(* ChatRooms with a radio program, a TV event whose title is the program's *)
(* name, so that both managers open its room, and a TV program that keeps  *)
(* its history.                                                            *)
(***************************************************************************)
EXTENDS ChatRooms, TLC

CONSTANTS drive, news, rally, tv1, hall, desk

MCRoomOf == drive :> hall @@ rally :> hall @@ news :> desk
MCStationOf == news :> tv1
MCPlatform == rally :> {"tv"}
=============================================================================
