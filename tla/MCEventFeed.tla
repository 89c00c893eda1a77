---------------------------- MODULE MCEventFeed ----------------------------
(***************************************************************************)
(* EventFeed with one browser whose connections follow one another: the    *)
(* handlers share nothing but the bus, which treats each on its own.       *)
(***************************************************************************)
EXTENDS EventFeed
=============================================================================
