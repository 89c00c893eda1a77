---------------------------- MODULE SerialVault ----------------------------
(***************************************************************************)
(* What the writer of internal/engine/vault promises, without its threads: *)
(* each path is a file that the daemon replaces in two indivisible steps,  *)
(* Put (the new bytes become visible) and Tag (their hash becomes the      *)
(* path's echo tag).  A second Put of a path waits for the Tag of the      *)
(* first, so a tag never names bytes older than the daemon's latest Put.   *)
(* Anybody else may replace or delete the file at any moment, and a reader *)
(* of the tags may take one away.                                          *)
(***************************************************************************)
CONSTANTS Paths,      \* vault files
          Contents,   \* what a file can hold
          None        \* no file, no tag

VARIABLES file,   \* the bytes at each path
          tag,    \* the echo tag of each path
          own,    \* the bytes the daemon put last at each path
          busy    \* paths whose Put still waits for its Tag

vars == <<file, tag, own, busy>>

Init ==
  /\ file \in [Paths -> Contents \union {None}]
  /\ tag  = [p \in Paths |-> None]
  /\ own  = [p \in Paths |-> None]
  /\ busy = {}

Put(p, c) ==
  /\ p \notin busy
  /\ file' = [file EXCEPT ![p] = c]
  /\ own'  = [own EXCEPT ![p] = c]
  /\ busy' = busy \union {p}
  /\ UNCHANGED tag

Tag(p) ==
  /\ p \in busy
  /\ tag'  = [tag EXCEPT ![p] = own[p]]
  /\ busy' = busy \ {p}
  /\ UNCHANGED <<file, own>>

TakeTag(p) ==
  /\ tag[p] # None
  /\ tag' = [tag EXCEPT ![p] = None]
  /\ UNCHANGED <<file, own, busy>>

Foreign(p, c) ==
  /\ file' = [file EXCEPT ![p] = c]
  /\ UNCHANGED <<tag, own, busy>>

Next ==
  \E p \in Paths :
    \/ \E c \in Contents : Put(p, c)
    \/ Tag(p)
    \/ TakeTag(p)
    \/ \E c \in Contents \union {None} : Foreign(p, c)

Spec == Init /\ [][Next]_vars

=============================================================================
