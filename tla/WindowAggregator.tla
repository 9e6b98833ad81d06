-------------------------- MODULE WindowAggregator --------------------------
(***************************************************************************)
(* internal/aggregator/window_aggregator.go: WorkloadWindowAggregator.     *)
(*                                                                         *)
(* One open window per flow key.  Add counts a connection in the window of *)
(* its timestamp, PopExpired removes and returns the windows whose end has *)
(* been reached, Reset forgets everything.  Each runs under the mutex, so  *)
(* each is one action; the actions constrain windowFlows only and are      *)
(* conjoined by the module that composes the components.                   *)
(*                                                                         *)
(* A key absent from the Go map is bound to Absent here: an entry is       *)
(* created and incremented under one lock hold, so no stored entry ever    *)
(* has the count 0.  The window's end is its start plus the window size.   *)
(* SuccessCount, FailCount, FirstSeen, LastSeen and TotalDuration are left *)
(* out: they are copied along and no decision of the program reads them.   *)
(***************************************************************************)
EXTENDS Flows

CONSTANT WindowSize   \* length of a window, in ticks

ASSUME WindowAssumption == WindowSize \in Nat \ {0}

VARIABLE windowFlows

Window == [start: Nat, count: Nat]

Absent == [start |-> 0, count |-> 0]

NoWindows == [k \in Key |-> Absent]

\* time.Truncate: the latest multiple of WindowSize that is not after ts.
Truncate(ts) == ts - (ts % WindowSize)

Aligned(t) == t % WindowSize = 0

WindowEnd(w) == w.start + WindowSize

IsOpen(k) == windowFlows[k].count > 0

-----------------------------------------------------------------------------
\* Mutants of Expired: a window that ends at now is kept; the window's start
\* is compared instead of its end.
Expired_KeepsEnd(k, now) == IsOpen(k) /\ WindowEnd(windowFlows[k]) < now
Expired_ByStart(k, now)  == IsOpen(k) /\ windowFlows[k].start <= now

\* The windows PopExpired(now) takes out: those whose end is not after now.
Expired(k, now) == IsOpen(k) /\ ~(WindowEnd(windowFlows[k]) > now)

\* What PopExpired(now) returns, one window per key at most.
ClosedWindows(now) == [k \in Key |-> IF Expired(k, now) THEN windowFlows[k]
                                                        ELSE Absent]

\* Mutant of PopExpired: the closed windows are not deleted.
PopExpired_NoDelete(now) == now \in Nat /\ UNCHANGED windowFlows

PopExpired(now) ==
    windowFlows' = [k \in Key |-> IF Expired(k, now) THEN Absent
                                                     ELSE windowFlows[k]]

\* A key that has no window, or has one with another start, gets a new one:
\* what a window with another start had counted is forgotten.
Counted(w, ts) == IF w.count > 0 /\ w.start = Truncate(ts)
                  THEN [w EXCEPT !.count = @ + 1]
                  ELSE [start |-> Truncate(ts), count |-> 1]

WindowAdd(ev) ==
    \/ /\ ev.key = Noise
       /\ UNCHANGED windowFlows
    \/ /\ ev.key \in Key
       /\ windowFlows' = [windowFlows EXCEPT ![ev.key] = Counted(@, ev.ts)]

WindowReset == windowFlows' = NoWindows

=============================================================================
