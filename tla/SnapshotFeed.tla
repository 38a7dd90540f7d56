---------------------------- MODULE SnapshotFeed ----------------------------
(***************************************************************************)
(* What the system event stream promises its viewer: within a connection   *)
(* the viewer shows the snapshots that were served, whole, one after the   *)
(* other and none skipped; between connections it keeps the last one.      *)
(* The wire format is not part of the promise.                             *)
(***************************************************************************)
EXTENDS Naturals, Sequences

CONSTANT Snapshot   \* the snapshots there are

VARIABLES
  log,    \* snapshots served on the current connection
  at,     \* how many of them the viewer has shown
  shown   \* what the viewer shows

feedVars == <<log, at, shown>>

FeedInit == log = <<>> /\ at = 0 /\ shown \in Snapshot

Serve(x) ==
  /\ log' = Append(log, x)
  /\ UNCHANGED <<at, shown>>

Show ==
  /\ at < Len(log)
  /\ at' = at + 1
  /\ shown' = log[at + 1]
  /\ UNCHANGED log

\* The connection is given up; the next one starts with nothing served.
Restart ==
  /\ log' = <<>> /\ at' = 0
  /\ UNCHANGED shown

FeedNext == (\E x \in Snapshot : Serve(x)) \/ Show \/ Restart

FeedSpec == FeedInit /\ [][FeedNext]_feedVars

=============================================================================
