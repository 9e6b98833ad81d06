---------------------------- MODULE AgentLifecycle ----------------------------
(***************************************************************************)
(* cmd/agent/app.go and main.go: how the agent starts, and how it stops    *)
(* when its context is cancelled, with Start and Close of both collectors, *)
(* the TCP collector's read loop, the detector worker and the exporter.    *)
(*                                                                         *)
(* Main runs App.Run and then the deferred App.Close.  Each collector's    *)
(* Start leaves a goroutine that waits for the context and calls Close     *)
(* too.  The DNS collector's Close runs under a sync.Once; the TCP         *)
(* collector's is without any lock, so its steps here are single loads and *)
(* stores of c.ring and c.links.  What they race to is taken as the build  *)
(* may give it: a pointer tested and loaded again may be nil by then, a    *)
(* slice header that is being cleared may be read torn.                    *)
(*                                                                         *)
(* A panic in any goroutine ends the process.                              *)
(***************************************************************************)
EXTENDS Integers, FiniteSets

CONSTANTS
    Probe,      \* the kprobes and kretprobes that are attached
    ChanCap     \* capacity of detectCh

ASSUME LifecycleAssumption ==
    /\ ChanCap \in Nat
    /\ {"objects", "ring", "link"} \cap Probe = {}

VARIABLES
    ctxDone,        \* SIGINT or SIGTERM was received
    status,         \* "running", or how the process ended
    main,           \* where main is
    due,            \* buildUntil, fixed when Run starts, has passed
    dnsOpen,        \* DNS collector: what it holds open,
    closeOnce,      \*   and its sync.Once: "new", who is in it, or "done"
    tcpOpen,        \* TCP collector: what it holds open,
    ring, links,    \*   c.ring # nil, c.links,
    cpc, todo,      \*   Close: where each caller is, links it has yet to close
    rpc,            \* TCP read loop
    chOpen, queued, \* detectCh
    wpc,            \* detector worker
    epc, exported   \* exporter; the snapshot was published

mainVars == <<ctxDone, main, due>>
dnsVars  == <<dnsOpen, closeOnce>>
tcpVars  == <<tcpOpen, ring, links, cpc, todo>>
loopVars == <<rpc, chOpen, queued, wpc, epc, exported>>
vars     == <<status, mainVars, dnsVars, tcpVars, loopVars>>

Closer == {"main", "watch"}

\* Before StartOnInterface has succeeded, or after it has failed.
DnsStarting == {"src", "dst", "dns", "dnsRing", "dnsAttach", "dnsUndo",
                "dnsFailed"}

TypeOK ==
    /\ ctxDone \in BOOLEAN /\ due \in BOOLEAN
    /\ status \in {"running", "ok", "fatal", "panic"}
    /\ main \in DnsStarting \cup
                {"load", "attach", "failed", "spawn", "wait", "closeDns",
                 "closeTcp", "closeCh", "exit"}
    /\ dnsOpen \subseteq {"objects", "ring", "link"}
    /\ closeOnce \in {"new", "done"} \cup Closer
    /\ tcpOpen \subseteq {"objects", "ring"} \cup Probe
    /\ ring \in BOOLEAN
    /\ links \subseteq Probe
    /\ cpc \in [Closer -> {"off", "ring", "close", "nil", "links", "each",
                           "clear", "objects", "returned"}]
    /\ todo \in [Closer -> SUBSET Probe]
    /\ rpc \in {"off", "next", "read", "handle", "ended"}
    /\ chOpen \in BOOLEAN /\ queued \in 0..ChanCap
    /\ wpc \in {"off", "select", "ended"}
    /\ epc \in {"off", "wait", "ended"}
    /\ exported \in BOOLEAN

Init ==
    /\ ctxDone = FALSE /\ due = FALSE
    /\ status = "running" /\ main = "src"
    /\ dnsOpen = {} /\ closeOnce = "new"
    /\ tcpOpen = {} /\ ring = FALSE /\ links = {}
    /\ cpc = [p \in Closer |-> "off"] /\ todo = [p \in Closer |-> {}]
    /\ rpc = "off" /\ chOpen = TRUE /\ queued = 0
    /\ wpc = "off" /\ epc = "off" /\ exported = FALSE

\* main returns, calls log.Fatalf, or a goroutine panics.
End(how) ==
    /\ status' = how
    /\ UNCHANGED <<mainVars, dnsVars, tcpVars, loopVars>>

Panic == End("panic")

-----------------------------------------------------------------------------
(* The environment.                                                        *)

Cancel ==
    /\ ~ctxDone
    /\ ctxDone' = TRUE
    /\ UNCHANGED <<status, main, due, dnsVars, tcpVars, loopVars>>

LearningEnds ==
    /\ ~due
    /\ due' = TRUE
    /\ UNCHANGED <<status, ctxDone, main, dnsVars, tcpVars, loopVars>>

-----------------------------------------------------------------------------
(* Run, up to <-ctx.Done().                                                *)

\* WaitForCacheSync returns when both caches have synced,
SrcSynced ==
    /\ main = "src"
    /\ main' = "dst"
    /\ UNCHANGED <<status, ctxDone, due, dnsVars, tcpVars, loopVars>>

\* Mutant of SyncGivesUp: the wait is not given the context.
SyncGivesUp_Never == FALSE

SyncGivesUp == ctxDone

\* or when the context is done.
SrcCancelled == main = "src" /\ SyncGivesUp /\ End("fatal")

\* The first refresh of the destination resolver has its lists,
DstListed ==
    /\ main = "dst"
    /\ main' = "dns"
    /\ UNCHANGED <<status, ctxDone, due, dnsVars, tcpVars, loopVars>>

\* or a list call fails, as it does when the context is done.
DstFails == main = "dst" /\ End("fatal")

\* StartOnInterface loads the objects, opens the ring and attaches the link.
DnsLoad ==
    /\ main = "dns"
    /\ main' = "dnsRing"
    /\ dnsOpen' = {"objects"}
    /\ UNCHANGED <<status, ctxDone, due, closeOnce, tcpVars, loopVars>>

DnsOpenRing ==
    /\ main = "dnsRing"
    /\ main' = "dnsAttach"
    /\ dnsOpen' = dnsOpen \cup {"ring"}
    /\ UNCHANGED <<status, ctxDone, due, closeOnce, tcpVars, loopVars>>

\* The goroutine that waits for the context starts here.
DnsAttach ==
    /\ main = "dnsAttach"
    /\ main' = "load"
    /\ dnsOpen' = dnsOpen \cup {"link"}
    /\ UNCHANGED <<status, ctxDone, due, closeOnce, tcpVars, loopVars>>

\* A step that fails closes, without Close, what those before it opened.
DnsRingFails ==
    /\ main = "dnsRing"
    /\ main' = "dnsUndo"
    /\ UNCHANGED <<status, ctxDone, due, dnsVars, tcpVars, loopVars>>

DnsAttachFails ==
    /\ main = "dnsAttach"
    /\ main' = "dnsUndo"
    /\ dnsOpen' = dnsOpen \ {"ring"}
    /\ UNCHANGED <<status, ctxDone, due, closeOnce, tcpVars, loopVars>>

DnsUndo ==
    /\ main = "dnsUndo"
    /\ main' = "dnsFailed"
    /\ dnsOpen' = dnsOpen \ {"objects"}
    /\ UNCHANGED <<status, ctxDone, due, closeOnce, tcpVars, loopVars>>

DnsStartFailed == main = "dnsFailed" /\ End("fatal")

DnsStart ==
    \/ DnsLoad \/ DnsOpenRing \/ DnsAttach
    \/ DnsRingFails \/ DnsAttachFails \/ DnsUndo \/ DnsStartFailed

TcpLoad ==
    /\ main = "load"
    /\ main' = "attach"
    /\ tcpOpen' = {"objects"}
    /\ UNCHANGED <<status, ctxDone, due, dnsVars, ring, links, cpc, todo,
                   loopVars>>

\* What fails before any of a collector's objects is loaded: the clock
\* converter, the bridge interface, the limit on locked memory, the load.
StartFails == main \in {"dns", "load"} /\ End("fatal")

TcpAttach ==
    /\ main = "attach"
    /\ \E p \in Probe \ links :
        /\ tcpOpen' = tcpOpen \cup {p}
        /\ links' = links \cup {p}
    /\ UNCHANGED <<status, mainVars, dnsVars, ring, cpc, todo, loopVars>>

\* The goroutine that waits for the context starts here.
TcpOpenRing ==
    /\ main = "attach" /\ links = Probe
    /\ tcpOpen' = tcpOpen \cup {"ring"}
    /\ ring' = TRUE
    /\ rpc' = "next"
    /\ main' = "spawn"
    /\ UNCHANGED <<status, ctxDone, due, dnsVars, links, cpc, todo, chOpen,
                   queued, wpc, epc, exported>>

\* A probe cannot be attached, or the ring not opened: Start calls Close.
TcpStartFails ==
    /\ main = "attach"
    /\ main' = "failed"
    /\ cpc' = [cpc EXCEPT !["main"] = "ring"]
    /\ UNCHANGED <<status, ctxDone, due, dnsVars, tcpOpen, ring, links, todo,
                   loopVars>>

TcpStartFailed ==
    /\ main = "failed" /\ cpc["main"] = "returned"
    /\ End("fatal")

Spawn ==
    /\ main = "spawn"
    /\ main' = "wait"
    /\ wpc' = "select" /\ epc' = "wait"
    /\ UNCHANGED <<status, ctxDone, due, dnsVars, tcpVars, rpc, chOpen, queued,
                   exported>>

\* Mutant of Stopped: Run returns when all is started.
Stopped_AtOnce == TRUE

Stopped == ctxDone

Wait ==
    /\ main = "wait" /\ Stopped
    /\ main' = "closeDns"
    /\ UNCHANGED <<status, ctxDone, due, dnsVars, tcpVars, loopVars>>

-----------------------------------------------------------------------------
(* The DNS collector's Close.                                              *)

\* A caller enters closeOnce.Do before any other.
DnsCloseEnter(p) ==
    /\ closeOnce = "new"
    /\ closeOnce' = p
    /\ UNCHANGED <<status, mainVars, dnsOpen, tcpVars, loopVars>>

\* The ring is closed first, then the link, then the objects.
DnsCloseNext(p) ==
    /\ closeOnce = p
    /\ \E r \in dnsOpen :
        /\ r = "link" => "ring" \notin dnsOpen
        /\ r = "objects" => dnsOpen = {r}
        /\ dnsOpen' = dnsOpen \ {r}
    /\ UNCHANGED <<status, mainVars, closeOnce, tcpVars, loopVars>>

DnsCloseLeave(p) ==
    /\ closeOnce = p /\ dnsOpen = {}
    /\ closeOnce' = "done"
    /\ UNCHANGED <<status, mainVars, dnsOpen, tcpVars, loopVars>>

DnsClose(p) == DnsCloseEnter(p) \/ DnsCloseNext(p) \/ DnsCloseLeave(p)

\* closeOnce.Do returns, for the caller that found another one in it, too.
DnsClosed == closeOnce = "done"

-----------------------------------------------------------------------------
(* The TCP collector's Close.                                              *)

Goto(p, step) == cpc' = [cpc EXCEPT ![p] = step]

TcpTestRing(p) ==
    /\ cpc[p] = "ring"
    /\ Goto(p, IF ring THEN "close" ELSE "links")
    /\ UNCHANGED <<status, mainVars, dnsVars, tcpOpen, ring, links, todo,
                   loopVars>>

\* c.ring.Close(), by the pointer that was tested or one loaded again.
TcpCloseRing(p) ==
    /\ cpc[p] = "close"
    /\ tcpOpen' = tcpOpen \ {"ring"}
    /\ Goto(p, "nil")
    /\ UNCHANGED <<status, mainVars, dnsVars, ring, links, todo, loopVars>>

TcpCloseNil(p) == cpc[p] = "close" /\ ~ring /\ Panic

TcpClearRing(p) ==
    /\ cpc[p] = "nil"
    /\ ring' = FALSE
    /\ Goto(p, "links")
    /\ UNCHANGED <<status, mainVars, dnsVars, tcpOpen, links, todo, loopVars>>

\* range c.links reads the slice once; torn, it has a length and no links.
TcpReadLinks(p) ==
    /\ cpc[p] = "links"
    /\ todo' = [todo EXCEPT ![p] = links]
    /\ Goto(p, "each")
    /\ UNCHANGED <<status, mainVars, dnsVars, tcpOpen, ring, links, loopVars>>

TcpReadTorn(p) ==
    /\ cpc[p] = "links"
    /\ \E q \in Closer \ {p} : cpc[q] = "clear"
    /\ Panic

TcpCloseLink(p) ==
    /\ cpc[p] = "each"
    /\ \E l \in todo[p] :
        /\ tcpOpen' = tcpOpen \ {l}
        /\ todo' = [todo EXCEPT ![p] = @ \ {l}]
    /\ UNCHANGED <<status, mainVars, dnsVars, ring, links, cpc, loopVars>>

\* Mutant of AllLinksClosed: the loop ends at the first link.
AllLinksClosed_Never(p) == TRUE

AllLinksClosed(p) == todo[p] = {}

TcpLinksClosed(p) ==
    /\ cpc[p] = "each" /\ AllLinksClosed(p)
    /\ Goto(p, "clear")
    /\ UNCHANGED <<status, mainVars, dnsVars, tcpOpen, ring, links, todo,
                   loopVars>>

TcpClearLinks(p) ==
    /\ cpc[p] = "clear"
    /\ links' = {}
    /\ Goto(p, "objects")
    /\ UNCHANGED <<status, mainVars, dnsVars, tcpOpen, ring, todo, loopVars>>

TcpCloseObjects(p) ==
    /\ cpc[p] = "objects"
    /\ tcpOpen' = tcpOpen \ {"objects"}
    /\ Goto(p, "returned")
    /\ UNCHANGED <<status, mainVars, dnsVars, ring, links, todo, loopVars>>

TcpClose(p) ==
    \/ TcpTestRing(p) \/ TcpCloseRing(p) \/ TcpCloseNil(p) \/ TcpClearRing(p)
    \/ TcpReadLinks(p) \/ TcpReadTorn(p) \/ TcpCloseLink(p) \/ TcpLinksClosed(p)
    \/ TcpClearLinks(p) \/ TcpCloseObjects(p)

-----------------------------------------------------------------------------
(* The goroutines that wait for the context, and the deferred App.Close.   *)

WatchDns ==
    /\ ctxDone /\ main \notin DnsStarting
    /\ DnsClose("watch")

WatchTcpDone ==
    /\ ctxDone /\ rpc # "off" /\ cpc["watch"] = "off"
    /\ Goto("watch", "ring")
    /\ UNCHANGED <<status, mainVars, dnsVars, tcpOpen, ring, links, todo,
                   loopVars>>

WatchTcp == WatchTcpDone \/ TcpClose("watch")

CloseDns == main = "closeDns" /\ DnsClose("main")

DnsCloseReturns ==
    /\ main = "closeDns" /\ DnsClosed
    /\ main' = "closeTcp"
    /\ Goto("main", "ring")
    /\ UNCHANGED <<status, ctxDone, due, dnsVars, tcpOpen, ring, links, todo,
                   loopVars>>

TcpCloseReturns ==
    /\ main = "closeTcp" /\ cpc["main"] = "returned"
    /\ main' = "closeCh"
    /\ UNCHANGED <<status, ctxDone, due, dnsVars, tcpVars, loopVars>>

CloseCh ==
    /\ main = "closeCh"
    /\ chOpen' = FALSE
    /\ main' = "exit"
    /\ UNCHANGED <<status, ctxDone, due, dnsVars, tcpVars, rpc, queued, wpc,
                   epc, exported>>

Exit == main = "exit" /\ End("ok")

\* What the API server decides.
ApiAnswers == SrcSynced \/ DstListed

Main == \/ SrcCancelled \/ DstFails \/ StartFails
        \/ DnsStart \/ TcpLoad \/ TcpAttach \/ TcpOpenRing \/ TcpStartFails \/ TcpStartFailed
        \/ Spawn \/ Wait
        \/ CloseDns \/ DnsCloseReturns
        \/ TcpClose("main") \/ TcpCloseReturns
        \/ CloseCh \/ Exit

-----------------------------------------------------------------------------
(* The TCP read loop, the worker and the exporter.                         *)

LoopGoto(step) ==
    /\ rpc' = step
    /\ UNCHANGED <<status, mainVars, dnsVars, tcpVars, chOpen, queued, wpc, epc,
                   exported>>

\* c.ring is loaded for each Read.
ReadNext == rpc = "next" /\ ring /\ LoopGoto("read")
ReadNil  == rpc = "next" /\ ~ring /\ Panic

ReadRecord == rpc = "read" /\ "ring" \in tcpOpen /\ LoopGoto("handle")

\* An error, or a record that does not decode.
ReadError == rpc = "read" /\ "ring" \in tcpOpen /\ LoopGoto("next")

ReadClosed ==
    /\ rpc = "read" /\ "ring" \notin tcpOpen
    /\ LoopGoto("ended")

HasRoom == queued < ChanCap

\* Handle has a closed window for the detector, or drops it.
HandleSend ==
    /\ rpc = "handle" /\ due /\ chOpen
    /\ queued' = IF HasRoom THEN queued + 1 ELSE queued
    /\ UNCHANGED <<status, mainVars, dnsVars, tcpVars, rpc, chOpen, wpc, epc,
                   exported>>

SendOnClosed == rpc = "handle" /\ due /\ ~chOpen /\ Panic

HandleReturns == rpc = "handle" /\ LoopGoto("next")

ReadLoop ==
    \/ ReadNext \/ ReadNil \/ ReadRecord \/ ReadError \/ ReadClosed
    \/ HandleSend \/ SendOnClosed \/ HandleReturns

WorkerReceive ==
    /\ wpc = "select" /\ queued > 0
    /\ queued' = queued - 1
    /\ UNCHANGED <<status, mainVars, dnsVars, tcpVars, rpc, chOpen, wpc, epc,
                   exported>>

WorkerStops ==
    /\ wpc = "select"
    /\ ctxDone \/ (~chOpen /\ queued = 0)
    /\ wpc' = "ended"
    /\ UNCHANGED <<status, mainVars, dnsVars, tcpVars, rpc, chOpen, queued, epc,
                   exported>>

\* Mutant of TimerFires: a timer set for a time that has passed.
TimerFires_Late == due /\ rpc = "handle"

\* time.NewTimer fires at once when buildUntil has already passed.
TimerFires == due

ExporterExports ==
    /\ epc = "wait" /\ TimerFires
    /\ epc' = "ended" /\ exported' = TRUE
    /\ UNCHANGED <<status, mainVars, dnsVars, tcpVars, rpc, chOpen, queued, wpc>>

ExporterStops ==
    /\ epc = "wait" /\ ctxDone
    /\ epc' = "ended"
    /\ UNCHANGED <<status, mainVars, dnsVars, tcpVars, rpc, chOpen, queued, wpc,
                   exported>>

Worker   == WorkerReceive \/ WorkerStops
Exporter == ExporterExports \/ ExporterStops

Running == \/ Cancel \/ LearningEnds \/ ApiAnswers
           \/ Main \/ WatchDns \/ WatchTcp
           \/ ReadLoop \/ Worker \/ Exporter

Next == status = "running" /\ Running

Spec == Init /\ [][Next]_vars

(* The Go scheduler runs every goroutine that can go on; the API server    *)
(* need not answer, and nobody need cancel.                                *)
FairSpec ==
    /\ Spec
    /\ WF_vars(status = "running" /\ ctxDone /\ Main)
    /\ WF_vars(status = "running" /\ WatchDns)
    /\ WF_vars(status = "running" /\ WatchTcp)
    /\ WF_vars(status = "running" /\ Exporter)

-----------------------------------------------------------------------------
(***************************************************************************)
(* Until the agent is told to stop it does not panic: the unlocked Close   *)
(* of the TCP collector, the nil ring its read loop may find and the       *)
(* closed channel its handler may send on are dangers of the shutdown      *)
(* only, also when a start fails half way.                                 *)
(***************************************************************************)
PanicOnlyAfterCancel == status = "panic" => ctxDone

(***************************************************************************)
(* When the agent exits in order, both collectors have closed all they     *)
(* held, whichever of two concurrent Closes did it; and when the start of  *)
(* a collector has failed, wherever it did, that collector holds nothing.  *)
(* Two Closes at once do not make each other skip a link.                  *)
(***************************************************************************)
CleanExit ==
    /\ status = "ok" \/ (status = "fatal" /\ main \in DnsStarting)
            => dnsOpen = {}
    /\ status \in {"ok", "fatal"} => tcpOpen = {}

(***************************************************************************)
(* A cancelled agent ends, from wherever it is in starting, and if the API *)
(* server never answers: no wait of main outlasts the context, and no      *)
(* Close waits for one that waits for it.                                  *)
(***************************************************************************)
CancelEnds == ctxDone ~> status # "running"

(***************************************************************************)
(* The snapshot is published when the learning time is over, also when the *)
(* start took longer than that, unless the agent stops first.              *)
(***************************************************************************)
ExportsUnlessStopped ==
    (main = "wait" /\ due) ~> (exported \/ ctxDone \/ status # "running")

=============================================================================
