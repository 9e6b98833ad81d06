---------------------------- MODULE LifecycleProofs ----------------------------
(***************************************************************************)
(* Proofs about AgentLifecycle: its types, that only a stopping agent may  *)
(* panic, and that an orderly exit or a failed start leaves nothing open.  *)
(***************************************************************************)
EXTENDS AgentLifecycle, TLAPS

Started  == {"spawn", "wait", "closeDns", "closeTcp", "closeCh", "exit"}
Stopping == {"closeDns", "closeTcp", "closeCh", "exit"}
Closing  == {"failed", "closeTcp", "closeCh", "exit"}

\* Where main is says what the others may be doing.
Control ==
    /\ rpc # "off" <=> main \in Started
    /\ main \in Stopping => ctxDone
    /\ cpc["watch"] # "off" => ctxDone /\ main \in Started
    /\ cpc["main"] # "off" <=> main \in Closing
    /\ ~chOpen => main = "exit"
    /\ main \in Started /\ ~ring => ctxDone
    /\ main \notin Started => ~ring
    /\ main = "failed" => cpc["main"] \notin {"close", "nil"}

SafeInv == TypeOK /\ Control /\ PanicOnlyAfterCancel

\* What a collector still holds open, by where its closers are.
DnsHeld ==
    /\ main \in DnsStarting => closeOnce = "new"
    /\ main \in {"src", "dst", "dns", "dnsFailed"} => dnsOpen = {}
    /\ main \in {"dnsRing", "dnsUndo"} => dnsOpen = {"objects"}
    /\ main = "dnsAttach" => dnsOpen = {"objects", "ring"}
    /\ main \in {"closeTcp", "closeCh", "exit"} => closeOnce = "done"
    /\ closeOnce = "done" => dnsOpen = {}

TcpHeld ==
    /\ main \in DnsStarting \cup {"load"} => tcpOpen = {} /\ links = {}
    /\ tcpOpen \cap Probe \subseteq links
    /\ "ring" \in tcpOpen => ring
    /\ \A p \in Closer :
        /\ cpc[p] = "nil" => "ring" \notin tcpOpen
        /\ cpc[p] \in {"links", "each", "clear", "objects", "returned"} => ~ring
        /\ cpc[p] = "each" => tcpOpen \cap Probe \subseteq todo[p]
        /\ cpc[p] \in {"clear", "objects", "returned"} => tcpOpen \cap Probe = {}
        /\ cpc[p] = "returned" => "objects" \notin tcpOpen
    /\ main \in {"closeCh", "exit"} => cpc["main"] = "returned"

HeldInv == DnsHeld /\ TcpHeld /\ CleanExit

-----------------------------------------------------------------------------
\* Every step keeps the types.
LEMMA TypeStep ==
    ASSUME TypeOK, status = "running", Running
    PROVE  TypeOK'
<1> USE LifecycleAssumption DEF TypeOK, Closer, DnsStarting, vars, mainVars, dnsVars, tcpVars, loopVars
<1>1. CASE Cancel
    BY <1>1 DEF Cancel
<1>2. CASE LearningEnds
    BY <1>2 DEF LearningEnds
<1>3. CASE SrcSynced
    BY <1>3 DEF SrcSynced
<1>4. CASE DstListed
    BY <1>4 DEF DstListed
<1>5. CASE SrcCancelled
    BY <1>5 DEF SrcCancelled, SyncGivesUp, End
<1>6. CASE DstFails
    BY <1>6 DEF DstFails, End
<1>7. CASE DnsStart
    <2>1. CASE DnsLoad
        BY <2>1 DEF DnsLoad
    <2>2. CASE DnsOpenRing
        BY <2>2 DEF DnsOpenRing
    <2>3. CASE DnsAttach
        BY <2>3 DEF DnsAttach
    <2>4. CASE DnsRingFails
        BY <2>4 DEF DnsRingFails
    <2>5. CASE DnsAttachFails
        BY <2>5 DEF DnsAttachFails
    <2>6. CASE DnsUndo
        BY <2>6 DEF DnsUndo
    <2>7. CASE DnsStartFailed
        BY <2>7 DEF DnsStartFailed, End
    <2> QED BY <1>7, <2>1, <2>2, <2>3, <2>4, <2>5, <2>6, <2>7 DEF DnsStart
<1>8. CASE TcpLoad
    BY <1>8 DEF TcpLoad
<1>9. CASE StartFails
    BY <1>9 DEF StartFails, End
<1>10. CASE TcpAttach
    <2>1. PICK p \in Probe \ links : /\ tcpOpen' = tcpOpen \cup {p}
                                       /\ links' = links \cup {p}
        BY <1>10 DEF TcpAttach
    <2>2. tcpOpen' \subseteq {"objects", "ring"} \cup Probe /\ links' \subseteq Probe
        BY <2>1
    <2> QED BY <1>10, <2>2 DEF TcpAttach
<1>11. CASE TcpOpenRing
    BY <1>11 DEF TcpOpenRing
<1>12. CASE TcpStartFails
    BY <1>12 DEF TcpStartFails
<1>13. CASE TcpStartFailed
    BY <1>13 DEF TcpStartFailed, End
<1>14. CASE Spawn
    BY <1>14 DEF Spawn
<1>15. CASE Wait
    BY <1>15 DEF Wait, Stopped
<1>16. CASE DnsCloseReturns
    BY <1>16 DEF DnsCloseReturns, DnsClosed, Goto
<1>17. CASE TcpCloseReturns
    BY <1>17 DEF TcpCloseReturns
<1>18. CASE CloseCh
    BY <1>18 DEF CloseCh
<1>19. CASE Exit
    BY <1>19 DEF Exit, End
<1>20. CASE WatchTcpDone
    BY <1>20 DEF WatchTcpDone, Goto
<1>21. CASE ReadNext
    BY <1>21 DEF ReadNext, LoopGoto
<1>22. CASE ReadNil
    BY <1>22 DEF ReadNil, Panic, End
<1>23. CASE ReadError
    BY <1>23 DEF ReadError, LoopGoto
<1>24. CASE ReadRecord
    BY <1>24 DEF ReadRecord, LoopGoto
<1>25. CASE ReadClosed
    BY <1>25 DEF ReadClosed, LoopGoto
<1>26. CASE HandleSend
    BY <1>26 DEF HandleSend, HasRoom
<1>27. CASE SendOnClosed
    BY <1>27 DEF SendOnClosed, Panic, End
<1>28. CASE HandleReturns
    BY <1>28 DEF HandleReturns, LoopGoto
<1>29. CASE WorkerReceive
    BY <1>29 DEF WorkerReceive
<1>30. CASE WorkerStops
    BY <1>30 DEF WorkerStops
<1>31. CASE ExporterExports
    BY <1>31 DEF ExporterExports
<1>32. CASE ExporterStops
    BY <1>32 DEF ExporterStops
<1>33. CASE WatchDns
    <2>1. CASE DnsCloseEnter("watch")
        BY <1>33, <2>1 DEF WatchDns, DnsCloseEnter
    <2>2. CASE DnsCloseNext("watch")
        BY <1>33, <2>2 DEF WatchDns, DnsCloseNext
    <2>3. CASE DnsCloseLeave("watch")
        BY <1>33, <2>3 DEF WatchDns, DnsCloseLeave
    <2> QED BY <1>33, <2>1, <2>2, <2>3 DEF WatchDns, DnsClose
<1>34. CASE CloseDns
    <2>1. CASE DnsCloseEnter("main")
        BY <1>34, <2>1 DEF CloseDns, DnsCloseEnter
    <2>2. CASE DnsCloseNext("main")
        BY <1>34, <2>2 DEF CloseDns, DnsCloseNext
    <2>3. CASE DnsCloseLeave("main")
        BY <1>34, <2>3 DEF CloseDns, DnsCloseLeave
    <2> QED BY <1>34, <2>1, <2>2, <2>3 DEF CloseDns, DnsClose
<1>35. ASSUME NEW p \in Closer, TcpClose(p) PROVE TypeOK'
    <2>1. CASE TcpTestRing(p)
        BY <1>35, <2>1 DEF TcpTestRing, Goto
    <2>2. CASE TcpCloseRing(p)
        BY <1>35, <2>2 DEF TcpCloseRing, Goto
    <2>3. CASE TcpCloseNil(p)
        BY <1>35, <2>3 DEF TcpCloseNil, Panic, End
    <2>4. CASE TcpClearRing(p)
        <3>1. cpc' \in [Closer -> {"off", "ring", "close", "nil", "links", "each",
                                   "clear", "objects", "returned"}]
            BY <2>4 DEF TcpClearRing, Goto
        <3>2. ring' \in BOOLEAN
            BY <2>4 DEF TcpClearRing
        <3>3. UNCHANGED <<status, mainVars, dnsVars, tcpOpen, links, todo, loopVars>>
            BY <2>4 DEF TcpClearRing
        <3> QED BY <3>1, <3>2, <3>3
    <2>5. CASE TcpReadLinks(p)
        BY <1>35, <2>5 DEF TcpReadLinks, Goto
    <2>6. CASE TcpReadTorn(p)
        BY <1>35, <2>6 DEF TcpReadTorn, Panic, End
    <2>7. CASE TcpCloseLink(p)
        <3>1. PICK l \in todo[p] : /\ tcpOpen' = tcpOpen \ {l}
                                  /\ todo' = [todo EXCEPT ![p] = @ \ {l}]
            BY <2>7 DEF TcpCloseLink
        <3>2. tcpOpen' \subseteq {"objects", "ring"} \cup Probe
            BY <3>1
        <3>3. todo' \in [Closer -> SUBSET Probe]
            BY <3>1
        <3> QED BY <2>7, <3>2, <3>3 DEF TcpCloseLink
    <2>8. CASE TcpLinksClosed(p)
        BY <1>35, <2>8 DEF TcpLinksClosed, AllLinksClosed, Goto
    <2>9. CASE TcpClearLinks(p)
        BY <1>35, <2>9 DEF TcpClearLinks, Goto
    <2>10. CASE TcpCloseObjects(p)
        BY <1>35, <2>10 DEF TcpCloseObjects, Goto
    <2> QED BY <1>35, <2>1, <2>2, <2>3, <2>4, <2>5, <2>6, <2>7, <2>8, <2>9, <2>10 DEF TcpClose
<1> QED BY <1>1, <1>2, <1>3, <1>4, <1>5, <1>6, <1>7, <1>8, <1>9, <1>10, <1>11, <1>12, <1>13, <1>14, <1>15, <1>16, <1>17, <1>18, <1>19, <1>20, <1>21, <1>22, <1>23, <1>24, <1>25, <1>26, <1>27, <1>28, <1>29, <1>30, <1>31, <1>32, <1>33, <1>34, <1>35
        DEF Running, ApiAnswers, Main, WatchTcp, ReadLoop, Worker, Exporter, Closer

\* Every step keeps them.
LEMMA ControlStep ==
    ASSUME TypeOK, Control, PanicOnlyAfterCancel, status = "running", Running
    PROVE  (Control /\ PanicOnlyAfterCancel)'
<1> USE LifecycleAssumption DEF TypeOK, Control, PanicOnlyAfterCancel, Closer, DnsStarting, Started, Stopping, Closing, vars, mainVars, dnsVars, tcpVars, loopVars
<1>1. CASE Cancel
    BY <1>1 DEF Cancel
<1>2. CASE LearningEnds
    BY <1>2 DEF LearningEnds
<1>3. CASE SrcSynced
    BY <1>3 DEF SrcSynced
<1>4. CASE DstListed
    BY <1>4 DEF DstListed
<1>5. CASE SrcCancelled
    BY <1>5 DEF SrcCancelled, SyncGivesUp, End
<1>6. CASE DstFails
    BY <1>6 DEF DstFails, End
<1>7. CASE DnsStart
    <2>1. CASE DnsLoad
        BY <2>1 DEF DnsLoad
    <2>2. CASE DnsOpenRing
        BY <2>2 DEF DnsOpenRing
    <2>3. CASE DnsAttach
        BY <2>3 DEF DnsAttach
    <2>4. CASE DnsRingFails
        BY <2>4 DEF DnsRingFails
    <2>5. CASE DnsAttachFails
        BY <2>5 DEF DnsAttachFails
    <2>6. CASE DnsUndo
        BY <2>6 DEF DnsUndo
    <2>7. CASE DnsStartFailed
        BY <2>7 DEF DnsStartFailed, End
    <2> QED BY <1>7, <2>1, <2>2, <2>3, <2>4, <2>5, <2>6, <2>7 DEF DnsStart
<1>8. CASE TcpLoad
    BY <1>8 DEF TcpLoad
<1>9. CASE StartFails
    BY <1>9 DEF StartFails, End
<1>10. CASE TcpAttach
    BY <1>10 DEF TcpAttach
<1>11. CASE TcpOpenRing
    BY <1>11 DEF TcpOpenRing
<1>12. CASE TcpStartFails
    <2>1. cpc'["main"] = "ring" /\ cpc'["watch"] = cpc["watch"]
        BY <1>12 DEF TcpStartFails
    <2>2. rpc = "off" /\ ~ring /\ cpc["watch"] = "off"
        BY <1>12 DEF TcpStartFails
    <2>3. main' = "failed" /\ rpc' = rpc /\ ring' = ring
        BY <1>12 DEF TcpStartFails
    <2>4. UNCHANGED <<status, ctxDone, chOpen>>
        BY <1>12 DEF TcpStartFails
    <2> QED BY <2>1, <2>2, <2>3, <2>4
<1>13. CASE TcpStartFailed
    BY <1>13 DEF TcpStartFailed, End
<1>14. CASE Spawn
    BY <1>14 DEF Spawn
<1>15. CASE Wait
    BY <1>15 DEF Wait, Stopped
<1>16. CASE DnsCloseReturns
    BY <1>16 DEF DnsCloseReturns, DnsClosed, Goto
<1>17. CASE TcpCloseReturns
    BY <1>17 DEF TcpCloseReturns
<1>18. CASE CloseCh
    BY <1>18 DEF CloseCh
<1>19. CASE Exit
    BY <1>19 DEF Exit, End
<1>20. CASE WatchTcpDone
    BY <1>20 DEF WatchTcpDone, Goto
<1>21. CASE ReadNext
    BY <1>21 DEF ReadNext, LoopGoto
<1>22. CASE ReadNil
    BY <1>22 DEF ReadNil, Panic, End
<1>23. CASE ReadError
    BY <1>23 DEF ReadError, LoopGoto
<1>24. CASE ReadRecord
    BY <1>24 DEF ReadRecord, LoopGoto
<1>25. CASE ReadClosed
    BY <1>25 DEF ReadClosed, LoopGoto
<1>26. CASE HandleSend
    BY <1>26 DEF HandleSend, HasRoom
<1>27. CASE SendOnClosed
    BY <1>27 DEF SendOnClosed, Panic, End
<1>28. CASE HandleReturns
    BY <1>28 DEF HandleReturns, LoopGoto
<1>29. CASE WorkerReceive
    BY <1>29 DEF WorkerReceive
<1>30. CASE WorkerStops
    BY <1>30 DEF WorkerStops
<1>31. CASE ExporterExports
    BY <1>31 DEF ExporterExports
<1>32. CASE ExporterStops
    BY <1>32 DEF ExporterStops
<1>33. CASE WatchDns
    <2>1. CASE DnsCloseEnter("watch")
        BY <1>33, <2>1 DEF WatchDns, DnsCloseEnter
    <2>2. CASE DnsCloseNext("watch")
        BY <1>33, <2>2 DEF WatchDns, DnsCloseNext
    <2>3. CASE DnsCloseLeave("watch")
        BY <1>33, <2>3 DEF WatchDns, DnsCloseLeave
    <2> QED BY <1>33, <2>1, <2>2, <2>3 DEF WatchDns, DnsClose
<1>34. CASE CloseDns
    <2>1. CASE DnsCloseEnter("main")
        BY <1>34, <2>1 DEF CloseDns, DnsCloseEnter
    <2>2. CASE DnsCloseNext("main")
        BY <1>34, <2>2 DEF CloseDns, DnsCloseNext
    <2>3. CASE DnsCloseLeave("main")
        BY <1>34, <2>3 DEF CloseDns, DnsCloseLeave
    <2> QED BY <1>34, <2>1, <2>2, <2>3 DEF CloseDns, DnsClose
<1>35. ASSUME NEW p \in Closer, TcpClose(p) PROVE (Control /\ PanicOnlyAfterCancel)'
    <2>1. CASE TcpTestRing(p)
        BY <1>35, <2>1 DEF TcpTestRing, Goto
    <2>2. CASE TcpCloseRing(p)
        BY <1>35, <2>2 DEF TcpCloseRing, Goto
    <2>3. CASE TcpCloseNil(p)
        BY <1>35, <2>3 DEF TcpCloseNil, Panic, End
    <2>4. CASE TcpClearRing(p)
        BY <1>35, <2>4 DEF TcpClearRing, Goto
    <2>5. CASE TcpReadLinks(p)
        BY <1>35, <2>5 DEF TcpReadLinks, Goto
    <2>6. CASE TcpReadTorn(p)
        BY <1>35, <2>6 DEF TcpReadTorn, Panic, End
    <2>7. CASE TcpCloseLink(p)
        BY <1>35, <2>7 DEF TcpCloseLink
    <2>8. CASE TcpLinksClosed(p)
        BY <1>35, <2>8 DEF TcpLinksClosed, AllLinksClosed, Goto
    <2>9. CASE TcpClearLinks(p)
        BY <1>35, <2>9 DEF TcpClearLinks, Goto
    <2>10. CASE TcpCloseObjects(p)
        BY <1>35, <2>10 DEF TcpCloseObjects, Goto
    <2> QED BY <1>35, <2>1, <2>2, <2>3, <2>4, <2>5, <2>6, <2>7, <2>8, <2>9, <2>10 DEF TcpClose
<1> QED BY <1>1, <1>2, <1>3, <1>4, <1>5, <1>6, <1>7, <1>8, <1>9, <1>10, <1>11, <1>12, <1>13, <1>14, <1>15, <1>16, <1>17, <1>18, <1>19, <1>20, <1>21, <1>22, <1>23, <1>24, <1>25, <1>26, <1>27, <1>28, <1>29, <1>30, <1>31, <1>32, <1>33, <1>34, <1>35
        DEF Running, ApiAnswers, Main, WatchTcp, ReadLoop, Worker, Exporter, Closer

\* Every step keeps what is held.
LEMMA HeldStep ==
    ASSUME TypeOK, Control, HeldInv, status = "running", Running
    PROVE  HeldInv'
<1> USE LifecycleAssumption DEF TypeOK, Control, HeldInv, DnsHeld, TcpHeld, CleanExit, Closer, DnsStarting, Started, Stopping, Closing, vars, mainVars, dnsVars, tcpVars, loopVars
<1>1. CASE Cancel
    BY <1>1 DEF Cancel
<1>2. CASE LearningEnds
    BY <1>2 DEF LearningEnds
<1>3. CASE SrcSynced
    BY <1>3 DEF SrcSynced
<1>4. CASE DstListed
    BY <1>4 DEF DstListed
<1>5. CASE SrcCancelled
    BY <1>5 DEF SrcCancelled, SyncGivesUp, End
<1>6. CASE DstFails
    BY <1>6 DEF DstFails, End
<1>7. CASE DnsStart
    <2>1. CASE DnsLoad
        BY <2>1 DEF DnsLoad
    <2>2. CASE DnsOpenRing
        BY <2>2 DEF DnsOpenRing
    <2>3. CASE DnsAttach
        BY <2>3 DEF DnsAttach
    <2>4. CASE DnsRingFails
        BY <2>4 DEF DnsRingFails
    <2>5. CASE DnsAttachFails
        BY <2>5 DEF DnsAttachFails
    <2>6. CASE DnsUndo
        BY <2>6 DEF DnsUndo
    <2>7. CASE DnsStartFailed
        BY <2>7 DEF DnsStartFailed, End
    <2> QED BY <1>7, <2>1, <2>2, <2>3, <2>4, <2>5, <2>6, <2>7 DEF DnsStart
<1>8. CASE TcpLoad
    BY <1>8 DEF TcpLoad
<1>9. CASE StartFails
    BY <1>9 DEF StartFails, End
<1>10. CASE TcpAttach
    BY <1>10 DEF TcpAttach
<1>11. CASE TcpOpenRing
    BY <1>11 DEF TcpOpenRing
<1>12. CASE TcpStartFails
    BY <1>12 DEF TcpStartFails
<1>13. CASE TcpStartFailed
    BY <1>13 DEF TcpStartFailed, End
<1>14. CASE Spawn
    BY <1>14 DEF Spawn
<1>15. CASE Wait
    BY <1>15 DEF Wait, Stopped
<1>16. CASE DnsCloseReturns
    BY <1>16 DEF DnsCloseReturns, DnsClosed, Goto
<1>17. CASE TcpCloseReturns
    BY <1>17 DEF TcpCloseReturns
<1>18. CASE CloseCh
    BY <1>18 DEF CloseCh
<1>19. CASE Exit
    BY <1>19 DEF Exit, End
<1>20. CASE WatchTcpDone
    BY <1>20 DEF WatchTcpDone, Goto
<1>21. CASE ReadNext
    BY <1>21 DEF ReadNext, LoopGoto
<1>22. CASE ReadNil
    BY <1>22 DEF ReadNil, Panic, End
<1>23. CASE ReadError
    BY <1>23 DEF ReadError, LoopGoto
<1>24. CASE ReadRecord
    BY <1>24 DEF ReadRecord, LoopGoto
<1>25. CASE ReadClosed
    BY <1>25 DEF ReadClosed, LoopGoto
<1>26. CASE HandleSend
    BY <1>26 DEF HandleSend, HasRoom
<1>27. CASE SendOnClosed
    BY <1>27 DEF SendOnClosed, Panic, End
<1>28. CASE HandleReturns
    BY <1>28 DEF HandleReturns, LoopGoto
<1>29. CASE WorkerReceive
    BY <1>29 DEF WorkerReceive
<1>30. CASE WorkerStops
    BY <1>30 DEF WorkerStops
<1>31. CASE ExporterExports
    BY <1>31 DEF ExporterExports
<1>32. CASE ExporterStops
    BY <1>32 DEF ExporterStops
<1>33. CASE WatchDns
    <2>1. CASE DnsCloseEnter("watch")
        BY <1>33, <2>1 DEF WatchDns, DnsCloseEnter
    <2>2. CASE DnsCloseNext("watch")
        BY <1>33, <2>2 DEF WatchDns, DnsCloseNext
    <2>3. CASE DnsCloseLeave("watch")
        BY <1>33, <2>3 DEF WatchDns, DnsCloseLeave
    <2> QED BY <1>33, <2>1, <2>2, <2>3 DEF WatchDns, DnsClose
<1>34. CASE CloseDns
    <2>1. CASE DnsCloseEnter("main")
        BY <1>34, <2>1 DEF CloseDns, DnsCloseEnter
    <2>2. CASE DnsCloseNext("main")
        BY <1>34, <2>2 DEF CloseDns, DnsCloseNext
    <2>3. CASE DnsCloseLeave("main")
        BY <1>34, <2>3 DEF CloseDns, DnsCloseLeave
    <2> QED BY <1>34, <2>1, <2>2, <2>3 DEF CloseDns, DnsClose
<1>35. ASSUME NEW p \in Closer, TcpClose(p) PROVE HeldInv'
    <2>1. CASE TcpTestRing(p)
        BY <1>35, <2>1 DEF TcpTestRing, Goto
    <2>2. CASE TcpCloseRing(p)
        BY <1>35, <2>2 DEF TcpCloseRing, Goto
    <2>3. CASE TcpCloseNil(p)
        BY <1>35, <2>3 DEF TcpCloseNil, Panic, End
    <2>4. CASE TcpClearRing(p)
        BY <1>35, <2>4 DEF TcpClearRing, Goto
    <2>5. CASE TcpReadLinks(p)
        BY <1>35, <2>5 DEF TcpReadLinks, Goto
    <2>6. CASE TcpReadTorn(p)
        BY <1>35, <2>6 DEF TcpReadTorn, Panic, End
    <2>7. CASE TcpCloseLink(p)
        BY <1>35, <2>7 DEF TcpCloseLink
    <2>8. CASE TcpLinksClosed(p)
        BY <1>35, <2>8 DEF TcpLinksClosed, AllLinksClosed, Goto
    <2>9. CASE TcpClearLinks(p)
        BY <1>35, <2>9 DEF TcpClearLinks, Goto
    <2>10. CASE TcpCloseObjects(p)
        BY <1>35, <2>10 DEF TcpCloseObjects, Goto
    <2> QED BY <1>35, <2>1, <2>2, <2>3, <2>4, <2>5, <2>6, <2>7, <2>8, <2>9, <2>10 DEF TcpClose
<1> QED BY <1>1, <1>2, <1>3, <1>4, <1>5, <1>6, <1>7, <1>8, <1>9, <1>10, <1>11, <1>12, <1>13, <1>14, <1>15, <1>16, <1>17, <1>18, <1>19, <1>20, <1>21, <1>22, <1>23, <1>24, <1>25, <1>26, <1>27, <1>28, <1>29, <1>30, <1>31, <1>32, <1>33, <1>34, <1>35
        DEF Running, ApiAnswers, Main, WatchTcp, ReadLoop, Worker, Exporter, Closer

-----------------------------------------------------------------------------
\* The invariant of the theorems below.
LInv == TypeOK /\ Control /\ PanicOnlyAfterCancel /\ HeldInv

(***************************************************************************)
(* Types, where every goroutine of the agent can be given what the others  *)
(* have done, and what each collector holds.                               *)
(***************************************************************************)
THEOREM LInvAlways == Spec => []LInv
<1>1. Init => LInv
    <2> SUFFICES ASSUME Init PROVE LInv
        OBVIOUS
    <2>1. TypeOK
        <3>1. /\ ctxDone \in BOOLEAN /\ due \in BOOLEAN /\ ring \in BOOLEAN
              /\ chOpen \in BOOLEAN /\ exported \in BOOLEAN
            BY DEF Init
        <3>2. queued \in 0..ChanCap
            BY LifecycleAssumption DEF Init
        <3>3. /\ status = "running" /\ main = "src" /\ closeOnce = "new"
              /\ rpc = "off" /\ wpc = "off" /\ epc = "off"
              /\ dnsOpen = {} /\ tcpOpen = {} /\ links = {}
            BY DEF Init
        <3>4. /\ cpc \in [Closer -> {"off"}]
              /\ todo \in [Closer -> SUBSET Probe]
            BY DEF Init
        <3> QED BY <3>1, <3>2, <3>3, <3>4 DEF TypeOK, DnsStarting
    <2>2. Control /\ PanicOnlyAfterCancel
        BY DEF Init, Control, PanicOnlyAfterCancel, Closer, Started, Stopping,
            Closing
    <2>3. HeldInv
        BY DEF Init, HeldInv, DnsHeld, TcpHeld, CleanExit, Closer, DnsStarting,
            Started
    <2> QED BY <2>1, <2>2, <2>3 DEF LInv
<1>2. LInv /\ [Next]_vars => LInv'
    <2> SUFFICES ASSUME LInv, [Next]_vars PROVE LInv'
        OBVIOUS
    <2>1. CASE Next
        BY <2>1, TypeStep, ControlStep, HeldStep DEF Next, LInv
    <2>2. CASE UNCHANGED vars
        BY <2>2 DEF LInv, TypeOK, Control, PanicOnlyAfterCancel, HeldInv,
            DnsHeld, TcpHeld, CleanExit, vars, mainVars, dnsVars, tcpVars, loopVars
    <2> QED BY <2>1, <2>2
<1> QED BY <1>1, <1>2, PTL DEF Spec

\* The types of the agent's state, for any probes and channel.
THEOREM LifecycleTypes == Spec => []TypeOK
<1>1. LInv => TypeOK
    BY DEF LInv
<1> QED BY <1>1, LInvAlways, PTL

\* Before it is told to stop, no goroutine of the agent panics.
THEOREM OnlyStoppingPanics == Spec => []PanicOnlyAfterCancel
<1>1. LInv => PanicOnlyAfterCancel
    BY DEF LInv
<1> QED BY <1>1, LInvAlways, PTL

\* An orderly exit and a failed start leave no probe attached and nothing of
\* what they opened, however two Closes interleave.
THEOREM ExitsClean == Spec => []CleanExit
<1>1. LInv => CleanExit
    BY DEF LInv, HeldInv
<1> QED BY <1>1, LInvAlways, PTL

=============================================================================
