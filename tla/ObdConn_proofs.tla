--------------------------- MODULE ObdConn_proofs ---------------------------
(* What holds of the OBD connection for any set of transports, any mode and *)
(* any bounds.                                                               *)
EXTENDS ObdConn, TLAPS

LEMMA Bounds ==
    /\ None \notin Transport /\ Pids \in Nat \ {0} /\ ChannelSize \in Nat
    /\ MaxChunk \in Nat /\ MaxDrops \in Nat /\ MaxFaults \in Nat
  BY ObdAssumption

LEMMA HandlesKept ==
    ASSUME HandleTypes, StepTypes, [Next]_vars
    PROVE  HandleTypes'
<1> USE DEF HandleTypes, StepTypes, world, shared, work, Goto, Proc, ConnectSteps, CallerSteps, StreamSteps, LoopSteps
<1>1. CASE LinkDown
  BY <1>1 DEF LinkDown
<1>2. CASE LinkUp
  BY <1>2 DEF LinkUp
<1>3. CASE Consume
  BY <1>3 DEF Consume
<1>4. CASE Cancel
  BY <1>4 DEF Cancel
<1>5. CASE Open
  BY <1>5 DEF Open
<1>6. CASE Receive
  BY <1>6 DEF Receive
<1>7. CASE Discontinue
  BY <1>7 DEF Discontinue
<1>8. CASE TakeDriver
  BY <1>8 DEF TakeDriver
<1>9. CASE CloseDriver
  BY <1>9 DEF CloseDriver
<1>10. CASE RunOnce
  BY <1>10 DEF RunOnce, FirstStep, Quiet
<1>11. CASE StartPeriodic
  BY <1>11 DEF StartPeriodic, CommandWorks, CommandFails, Fault, Quiet
<1>12. CASE StartMonitor
  BY <1>12 DEF StartMonitor, CommandWorks, CommandFails, Fault, MonitorReturns, Quiet
<1>13. CASE StopMonitor
  BY <1>13 DEF StopMonitor, MonitorReturns, Quiet
<1>14. CASE GoOn
  BY <1>14 DEF GoOn, Quiet
<1>15. CASE Read
  BY <1>15 DEF Read, MonitorReturns, Quiet
<1>16. CASE Emit
  BY <1>16 DEF Emit, Quiet
<1>17. CASE ClearPeriodic
  BY <1>17 DEF ClearPeriodic, Quiet
<1>18. CASE Poll
  BY <1>18 DEF Poll, Quiet
<1>19. CASE Request
  BY <1>19 DEF Request, CommandWorks, CommandFails, Fault, Quiet
<1>20. CASE Tick
  BY <1>20 DEF Tick, Quiet
<1>21. CASE StopPoll
  BY <1>21 DEF StopPoll, Quiet
<1>22. CASE Returned
  BY <1>22 DEF Returned, Quiet
<1>23. CASE DropDriver
  BY <1>23 DEF DropDriver, Quiet
<1>24. CASE Retry
  BY <1>24 DEF Retry, Quiet
<1>25. CASE Backoff
  BY <1>25 DEF Backoff, Longer, Quiet
<1>26. ASSUME NEW p \in Proc, OpenTransport(p) PROVE HandleTypes'
  BY <1>26 DEF OpenTransport, ConnectFailed, Fault
<1>27. ASSUME NEW p \in Proc, Configure(p) PROVE HandleTypes'
  BY <1>27 DEF Configure, ConnectFailed, CommandWorks, CommandFails, Fault
<1>28. ASSUME NEW p \in Proc, Install(p) PROVE HandleTypes'
  BY <1>28 DEF Install
<1>29. CASE UNCHANGED vars
  BY <1>29 DEF vars
<1>30. QED
  BY <1>1, <1>2, <1>3, <1>4, <1>5, <1>6, <1>7, <1>8, <1>9, <1>10, <1>11, 
     <1>12, <1>13, <1>14, <1>15, <1>16, <1>17, <1>18, <1>19, <1>20, 
     <1>21, <1>22, <1>23, <1>24, <1>25, <1>26, <1>27, <1>28, <1>29
     DEF Next, Caller, Loop, Connect, Proc

LEMMA StepsKept ==
    ASSUME StepTypes, [Next]_vars
    PROVE  StepTypes'
<1> USE DEF StepTypes, world, shared, work, Goto, Proc, ConnectSteps, CallerSteps, StreamSteps, LoopSteps
<1>1. CASE LinkDown
  BY <1>1 DEF LinkDown
<1>2. CASE LinkUp
  BY <1>2 DEF LinkUp
<1>3. CASE Consume
  BY <1>3 DEF Consume
<1>4. CASE Cancel
  BY <1>4 DEF Cancel
<1>5. CASE Open
  BY <1>5 DEF Open
<1>6. CASE Receive
  BY <1>6 DEF Receive
<1>7. CASE Discontinue
  BY <1>7 DEF Discontinue
<1>8. CASE TakeDriver
  BY <1>8 DEF TakeDriver
<1>9. CASE CloseDriver
  BY <1>9 DEF CloseDriver
<1>10. CASE RunOnce
  BY <1>10 DEF RunOnce, FirstStep, Quiet
<1>11. CASE StartPeriodic
  BY <1>11 DEF StartPeriodic, CommandWorks, CommandFails, Fault, Quiet
<1>12. CASE StartMonitor
  BY <1>12 DEF StartMonitor, CommandWorks, CommandFails, Fault, MonitorReturns, Quiet
<1>13. CASE StopMonitor
  BY <1>13 DEF StopMonitor, MonitorReturns, Quiet
<1>14. CASE GoOn
  BY <1>14 DEF GoOn, Quiet
<1>15. CASE Read
  BY <1>15 DEF Read, MonitorReturns, Quiet
<1>16. CASE Emit
  BY <1>16 DEF Emit, Quiet
<1>17. CASE ClearPeriodic
  BY <1>17 DEF ClearPeriodic, Quiet
<1>18. CASE Poll
  BY <1>18 DEF Poll, Quiet
<1>19. CASE Request
  BY <1>19 DEF Request, CommandWorks, CommandFails, Fault, Quiet
<1>20. CASE Tick
  BY <1>20 DEF Tick, Quiet
<1>21. CASE StopPoll
  BY <1>21 DEF StopPoll, Quiet
<1>22. CASE Returned
  BY <1>22 DEF Returned, Quiet
<1>23. CASE DropDriver
  BY <1>23 DEF DropDriver, Quiet
<1>24. CASE Retry
  BY <1>24 DEF Retry, Quiet
<1>25. CASE Backoff
  BY <1>25 DEF Backoff, Longer, Quiet
<1>26. ASSUME NEW p \in Proc, OpenTransport(p) PROVE StepTypes'
  BY <1>26 DEF OpenTransport, ConnectFailed, Fault
<1>27. ASSUME NEW p \in Proc, Configure(p) PROVE StepTypes'
  BY <1>27 DEF Configure, ConnectFailed, CommandWorks, CommandFails, Fault
<1>28. ASSUME NEW p \in Proc, Install(p) PROVE StepTypes'
  BY <1>28 DEF Install
<1>29. CASE UNCHANGED vars
  BY <1>29 DEF vars
<1>30. QED
  BY <1>1, <1>2, <1>3, <1>4, <1>5, <1>6, <1>7, <1>8, <1>9, <1>10, <1>11, 
     <1>12, <1>13, <1>14, <1>15, <1>16, <1>17, <1>18, <1>19, <1>20, 
     <1>21, <1>22, <1>23, <1>24, <1>25, <1>26, <1>27, <1>28, <1>29
     DEF Next, Caller, Loop, Connect, Proc

LEMMA FlagsKept ==
    ASSUME FlagTypes, [Next]_vars
    PROVE  FlagTypes'
<1> USE DEF FlagTypes, world, shared, work, Goto
<1>1. CASE LinkDown
  BY <1>1 DEF LinkDown
<1>2. CASE LinkUp
  BY <1>2 DEF LinkUp
<1>3. CASE Consume
  BY <1>3 DEF Consume
<1>4. CASE Cancel
  BY <1>4 DEF Cancel
<1>5. CASE Open
  BY <1>5 DEF Open
<1>6. CASE Receive
  BY <1>6 DEF Receive
<1>7. CASE Discontinue
  BY <1>7 DEF Discontinue
<1>8. CASE TakeDriver
  BY <1>8 DEF TakeDriver
<1>9. CASE CloseDriver
  BY <1>9 DEF CloseDriver
<1>10. CASE RunOnce
  BY <1>10 DEF RunOnce, FirstStep, Quiet
<1>11. CASE StartPeriodic
  BY <1>11 DEF StartPeriodic, CommandWorks, CommandFails, Fault, Quiet
<1>12. CASE StartMonitor
  BY <1>12 DEF StartMonitor, CommandWorks, CommandFails, Fault, MonitorReturns, Quiet
<1>13. CASE StopMonitor
  BY <1>13 DEF StopMonitor, MonitorReturns, Quiet
<1>14. CASE GoOn
  BY <1>14 DEF GoOn, Quiet
<1>15. CASE Read
  BY <1>15 DEF Read, MonitorReturns, Quiet
<1>16. CASE Emit
  BY <1>16 DEF Emit, Quiet
<1>17. CASE ClearPeriodic
  BY <1>17 DEF ClearPeriodic, Quiet
<1>18. CASE Poll
  BY <1>18 DEF Poll, Quiet
<1>19. CASE Request
  BY <1>19 DEF Request, CommandWorks, CommandFails, Fault, Quiet
<1>20. CASE Tick
  BY <1>20 DEF Tick, Quiet
<1>21. CASE StopPoll
  BY <1>21 DEF StopPoll, Quiet
<1>22. CASE Returned
  BY <1>22 DEF Returned, Quiet
<1>23. CASE DropDriver
  BY <1>23 DEF DropDriver, Quiet
<1>24. CASE Retry
  BY <1>24 DEF Retry, Quiet
<1>25. CASE Backoff
  BY <1>25 DEF Backoff, Longer, Quiet
<1>26. ASSUME NEW p \in Proc, OpenTransport(p) PROVE FlagTypes'
  BY <1>26 DEF OpenTransport, ConnectFailed, Fault
<1>27. ASSUME NEW p \in Proc, Configure(p) PROVE FlagTypes'
  BY <1>27 DEF Configure, ConnectFailed, CommandWorks, CommandFails, Fault
<1>28. ASSUME NEW p \in Proc, Install(p) PROVE FlagTypes'
  BY <1>28 DEF Install
<1>29. CASE UNCHANGED vars
  BY <1>29 DEF vars
<1>30. QED
  BY <1>1, <1>2, <1>3, <1>4, <1>5, <1>6, <1>7, <1>8, <1>9, <1>10, <1>11, 
     <1>12, <1>13, <1>14, <1>15, <1>16, <1>17, <1>18, <1>19, <1>20, 
     <1>21, <1>22, <1>23, <1>24, <1>25, <1>26, <1>27, <1>28, <1>29
     DEF Next, Caller, Loop, Connect, Proc

(* What the counters rely on: there is a frame to emit, a PID to ask for. *)
Supply ==
    /\ pc["loop"] = "emit" => chunk > 0
    /\ pc["loop"] = "request" => pid <= Pids

LEMMA CountsKept ==
    ASSUME CountTypes, Supply, StepTypes, [Next]_vars
    PROVE  CountTypes' /\ Supply'
<1> USE Bounds
<1> USE DEF CountTypes, Supply, StepTypes, world, shared, work, Goto, Proc, ConnectSteps, CallerSteps, StreamSteps, LoopSteps
<1>1. CASE LinkDown
  BY <1>1 DEF LinkDown
<1>2. CASE LinkUp
  BY <1>2 DEF LinkUp
<1>3. CASE Consume
  BY <1>3 DEF Consume
<1>4. CASE Cancel
  BY <1>4 DEF Cancel
<1>5. CASE Open
  BY <1>5 DEF Open
<1>6. CASE Receive
  BY <1>6 DEF Receive
<1>7. CASE Discontinue
  BY <1>7 DEF Discontinue
<1>8. CASE TakeDriver
  BY <1>8 DEF TakeDriver
<1>9. CASE CloseDriver
  BY <1>9 DEF CloseDriver
<1>10. CASE RunOnce
  BY <1>10 DEF RunOnce, FirstStep, Quiet
<1>11. CASE StartPeriodic
  BY <1>11 DEF StartPeriodic, CommandWorks, CommandFails, Fault, Quiet
<1>12. CASE StartMonitor
  BY <1>12 DEF StartMonitor, CommandWorks, CommandFails, Fault, MonitorReturns, Quiet
<1>13. CASE StopMonitor
  BY <1>13 DEF StopMonitor, MonitorReturns, Quiet
<1>14. CASE GoOn
  BY <1>14 DEF GoOn, Quiet
<1>15. CASE Read
  BY <1>15 DEF Read, MonitorReturns, Quiet
<1>16. CASE Emit
  BY <1>16 DEF Emit, Quiet
<1>17. CASE ClearPeriodic
  BY <1>17 DEF ClearPeriodic, Quiet
<1>18. CASE Poll
  BY <1>18 DEF Poll, Quiet
<1>19. CASE Request
  BY <1>19 DEF Request, CommandWorks, CommandFails, Fault, Quiet
<1>20. CASE Tick
  BY <1>20 DEF Tick, Quiet
<1>21. CASE StopPoll
  BY <1>21 DEF StopPoll, Quiet
<1>22. CASE Returned
  BY <1>22 DEF Returned, Quiet
<1>23. CASE DropDriver
  BY <1>23 DEF DropDriver, Quiet
<1>24. CASE Retry
  BY <1>24 DEF Retry, Quiet
<1>25. CASE Backoff
  BY <1>25 DEF Backoff, Longer, Quiet
<1>26. ASSUME NEW p \in Proc, OpenTransport(p) PROVE CountTypes' /\ Supply'
  BY <1>26 DEF OpenTransport, ConnectFailed, Fault
<1>27. ASSUME NEW p \in Proc, Configure(p) PROVE CountTypes' /\ Supply'
  BY <1>27 DEF Configure, ConnectFailed, CommandWorks, CommandFails, Fault
<1>28. ASSUME NEW p \in Proc, Install(p) PROVE CountTypes' /\ Supply'
  BY <1>28 DEF Install
<1>29. CASE UNCHANGED vars
  BY <1>29 DEF vars
<1>30. QED
  BY <1>1, <1>2, <1>3, <1>4, <1>5, <1>6, <1>7, <1>8, <1>9, <1>10, <1>11, 
     <1>12, <1>13, <1>14, <1>15, <1>16, <1>17, <1>18, <1>19, <1>20, 
     <1>21, <1>22, <1>23, <1>24, <1>25, <1>26, <1>27, <1>28, <1>29
     DEF Next, Caller, Loop, Connect, Proc

(***************************************************************************)
(* The argument for the port: the transport a goroutine sets up, the one   *)
(* behind driver and the one Close holds are never there two at a time,    *)
(* and no other is open.                                                   *)
(***************************************************************************)
Owned ==
    \A t \in Transport : transport[t] # "closed" =>
        t \in {driver, taken, building["caller"], building["loop"]}

BuildingWhile ==
    \A p \in Proc : building[p] # None <=> pc[p] \in {"init", "filters", "install"}

Reconnecting == pc["loop"] \in ConnectSteps \cup {"retry", "backoff"}

NothingYet == pc["caller"] \in ConnectSteps \cup {"new"}

Exclusive ==
    /\ Reconnecting => driver = None
    /\ pc["loop"] \in ConnectSteps => taken = None
    /\ driver # None => taken = None
    /\ taken # None => pc["caller"] = "close"
    /\ NothingYet => driver = None
    /\ NothingYet \/ pc["caller"] = "opened" => pc["loop"] = "off" /\ quit = "none"
    /\ pc["caller"] = "receiving" => streaming /\ quit = "open"
    /\ pc["caller"] \in {"take", "close", "closed"} /\ pc["loop"] # "off" => quit = "closed"

LEMMA OwnedKept ==
    ASSUME HandleTypes, StepTypes, Owned, BuildingWhile, Exclusive, [Next]_vars
    PROVE  Owned'
<1> USE Bounds
<1> USE DEF HandleTypes, StepTypes, Owned, BuildingWhile, Exclusive, Reconnecting, NothingYet, world, shared, work, Goto, Proc, ConnectSteps, CallerSteps, StreamSteps, LoopSteps
<1>1. CASE LinkDown
  BY <1>1 DEF LinkDown
<1>2. CASE LinkUp
  BY <1>2 DEF LinkUp
<1>3. CASE Consume
  BY <1>3 DEF Consume
<1>4. CASE Cancel
  BY <1>4 DEF Cancel
<1>5. CASE Open
  BY <1>5 DEF Open
<1>6. CASE Receive
  BY <1>6 DEF Receive
<1>7. CASE Discontinue
  BY <1>7 DEF Discontinue
<1>8. CASE TakeDriver
  BY <1>8 DEF TakeDriver
<1>9. CASE CloseDriver
  BY <1>9 DEF CloseDriver
<1>10. CASE RunOnce
  BY <1>10 DEF RunOnce, FirstStep, Quiet
<1>11. CASE StartPeriodic
  BY <1>11 DEF StartPeriodic, CommandWorks, CommandFails, Fault, Quiet
<1>12. CASE StartMonitor
  BY <1>12 DEF StartMonitor, CommandWorks, CommandFails, Fault, MonitorReturns, Quiet
<1>13. CASE StopMonitor
  BY <1>13 DEF StopMonitor, MonitorReturns, Quiet
<1>14. CASE GoOn
  BY <1>14 DEF GoOn, Quiet
<1>15. CASE Read
  BY <1>15 DEF Read, MonitorReturns, Quiet
<1>16. CASE Emit
  BY <1>16 DEF Emit, Quiet
<1>17. CASE ClearPeriodic
  BY <1>17 DEF ClearPeriodic, Quiet
<1>18. CASE Poll
  BY <1>18 DEF Poll, Quiet
<1>19. CASE Request
  BY <1>19 DEF Request, CommandWorks, CommandFails, Fault, Quiet
<1>20. CASE Tick
  BY <1>20 DEF Tick, Quiet
<1>21. CASE StopPoll
  BY <1>21 DEF StopPoll, Quiet
<1>22. CASE Returned
  BY <1>22 DEF Returned, Quiet
<1>23. CASE DropDriver
  BY <1>23 DEF DropDriver, Quiet
<1>24. CASE Retry
  BY <1>24 DEF Retry, Quiet
<1>25. CASE Backoff
  BY <1>25 DEF Backoff, Longer, Quiet
<1>26. ASSUME NEW p \in Proc, OpenTransport(p) PROVE Owned'
  BY <1>26 DEF OpenTransport, ConnectFailed, Fault
<1>27. ASSUME NEW p \in Proc, Configure(p) PROVE Owned'
  BY <1>27 DEF Configure, ConnectFailed, CommandWorks, CommandFails, Fault
<1>28. ASSUME NEW p \in Proc, Install(p) PROVE Owned'
  BY <1>28 DEF Install
<1>29. CASE UNCHANGED vars
  BY <1>29 DEF vars
<1>30. QED
  BY <1>1, <1>2, <1>3, <1>4, <1>5, <1>6, <1>7, <1>8, <1>9, <1>10, <1>11, 
     <1>12, <1>13, <1>14, <1>15, <1>16, <1>17, <1>18, <1>19, <1>20, 
     <1>21, <1>22, <1>23, <1>24, <1>25, <1>26, <1>27, <1>28, <1>29
     DEF Next, Caller, Loop, Connect, Proc

LEMMA BuildingKept ==
    ASSUME HandleTypes, StepTypes, BuildingWhile, Exclusive, [Next]_vars
    PROVE  BuildingWhile'
<1> USE Bounds
<1> USE DEF HandleTypes, StepTypes, BuildingWhile, Exclusive, NothingYet, world, shared, work, Goto, Proc, ConnectSteps, CallerSteps, StreamSteps, LoopSteps
<1>1. CASE LinkDown
  BY <1>1 DEF LinkDown
<1>2. CASE LinkUp
  BY <1>2 DEF LinkUp
<1>3. CASE Consume
  BY <1>3 DEF Consume
<1>4. CASE Cancel
  BY <1>4 DEF Cancel
<1>5. CASE Open
  BY <1>5 DEF Open
<1>6. CASE Receive
  BY <1>6 DEF Receive
<1>7. CASE Discontinue
  BY <1>7 DEF Discontinue
<1>8. CASE TakeDriver
  BY <1>8 DEF TakeDriver
<1>9. CASE CloseDriver
  BY <1>9 DEF CloseDriver
<1>10. CASE RunOnce
  BY <1>10 DEF RunOnce, FirstStep, Quiet
<1>11. CASE StartPeriodic
  BY <1>11 DEF StartPeriodic, CommandWorks, CommandFails, Fault, Quiet
<1>12. CASE StartMonitor
  BY <1>12 DEF StartMonitor, CommandWorks, CommandFails, Fault, MonitorReturns, Quiet
<1>13. CASE StopMonitor
  BY <1>13 DEF StopMonitor, MonitorReturns, Quiet
<1>14. CASE GoOn
  BY <1>14 DEF GoOn, Quiet
<1>15. CASE Read
  BY <1>15 DEF Read, MonitorReturns, Quiet
<1>16. CASE Emit
  BY <1>16 DEF Emit, Quiet
<1>17. CASE ClearPeriodic
  BY <1>17 DEF ClearPeriodic, Quiet
<1>18. CASE Poll
  BY <1>18 DEF Poll, Quiet
<1>19. CASE Request
  BY <1>19 DEF Request, CommandWorks, CommandFails, Fault, Quiet
<1>20. CASE Tick
  BY <1>20 DEF Tick, Quiet
<1>21. CASE StopPoll
  BY <1>21 DEF StopPoll, Quiet
<1>22. CASE Returned
  BY <1>22 DEF Returned, Quiet
<1>23. CASE DropDriver
  BY <1>23 DEF DropDriver, Quiet
<1>24. CASE Retry
  BY <1>24 DEF Retry, Quiet
<1>25. CASE Backoff
  BY <1>25 DEF Backoff, Longer, Quiet
<1>26. ASSUME NEW p \in Proc, OpenTransport(p) PROVE BuildingWhile'
  BY <1>26 DEF OpenTransport, ConnectFailed, Fault
<1>27. ASSUME NEW p \in Proc, Configure(p) PROVE BuildingWhile'
  BY <1>27 DEF Configure, ConnectFailed, CommandWorks, CommandFails, Fault
<1>28. ASSUME NEW p \in Proc, Install(p) PROVE BuildingWhile'
  BY <1>28 DEF Install
<1>29. CASE UNCHANGED vars
  BY <1>29 DEF vars
<1>30. QED
  BY <1>1, <1>2, <1>3, <1>4, <1>5, <1>6, <1>7, <1>8, <1>9, <1>10, <1>11, 
     <1>12, <1>13, <1>14, <1>15, <1>16, <1>17, <1>18, <1>19, <1>20, 
     <1>21, <1>22, <1>23, <1>24, <1>25, <1>26, <1>27, <1>28, <1>29
     DEF Next, Caller, Loop, Connect, Proc

LEMMA ExclusiveKept ==
    ASSUME HandleTypes, StepTypes, FlagTypes, BuildingWhile, Exclusive, [Next]_vars
    PROVE  Exclusive'
<1> USE DEF HandleTypes, StepTypes, BuildingWhile, Exclusive, Reconnecting, NothingYet, Stopping, world, shared, work, Goto, Proc, ConnectSteps, CallerSteps, StreamSteps, LoopSteps
<1>1. CASE LinkDown
  BY <1>1 DEF LinkDown
<1>2. CASE LinkUp
  BY <1>2 DEF LinkUp
<1>3. CASE Consume
  BY <1>3 DEF Consume
<1>4. CASE Cancel
  BY <1>4 DEF Cancel
<1>5. CASE Open
  BY <1>5 DEF Open
<1>6. CASE Receive
  <2>1. pc'["caller"] = "receiving" /\ pc'["loop"] = "run"
    BY <1>6 DEF Receive
  <2>2. streaming' /\ quit' = "open" /\ driver' = driver /\ taken' = taken
    BY <1>6 DEF Receive
  <2>3. taken = None
    BY <1>6 DEF Receive
  <2>4. QED
    BY <2>1, <2>2, <2>3
<1>7. CASE Discontinue
  BY <1>7 DEF Discontinue
<1>8. CASE TakeDriver
  BY <1>8 DEF TakeDriver
<1>9. CASE CloseDriver
  BY <1>9 DEF CloseDriver
<1>10. CASE RunOnce
  BY <1>10 DEF RunOnce, FirstStep, Quiet
<1>11. CASE StartPeriodic
  BY <1>11 DEF StartPeriodic, CommandWorks, CommandFails, Fault, Quiet
<1>12. CASE StartMonitor
  BY <1>12 DEF StartMonitor, CommandWorks, CommandFails, Fault, MonitorReturns, Quiet
<1>13. CASE StopMonitor
  BY <1>13 DEF StopMonitor, MonitorReturns, Quiet
<1>14. CASE GoOn
  BY <1>14 DEF GoOn, Quiet
<1>15. CASE Read
  BY <1>15 DEF Read, MonitorReturns, Quiet
<1>16. CASE Emit
  BY <1>16 DEF Emit, Quiet
<1>17. CASE ClearPeriodic
  BY <1>17 DEF ClearPeriodic, Quiet
<1>18. CASE Poll
  BY <1>18 DEF Poll, Quiet
<1>19. CASE Request
  BY <1>19 DEF Request, CommandWorks, CommandFails, Fault, Quiet
<1>20. CASE Tick
  BY <1>20 DEF Tick, Quiet
<1>21. CASE StopPoll
  BY <1>21 DEF StopPoll, Quiet
<1>22. CASE Returned
  BY <1>22 DEF Returned, Quiet
<1>23. CASE DropDriver
  BY <1>23 DEF DropDriver, Quiet
<1>24. CASE Retry
  BY <1>24 DEF Retry, Quiet
<1>25. CASE Backoff
  BY <1>25 DEF Backoff, Longer, Quiet
<1>26. ASSUME NEW p \in Proc, OpenTransport(p) PROVE Exclusive'
  BY <1>26 DEF OpenTransport, ConnectFailed, Fault
<1>27. ASSUME NEW p \in Proc, Configure(p) PROVE Exclusive'
  BY <1>27 DEF Configure, ConnectFailed, CommandWorks, CommandFails, Fault
<1>28. ASSUME NEW p \in Proc, Install(p) PROVE Exclusive'
  BY <1>28 DEF Install
<1>29. CASE UNCHANGED vars
  BY <1>29 DEF vars
<1>30. QED
  BY <1>1, <1>2, <1>3, <1>4, <1>5, <1>6, <1>7, <1>8, <1>9, <1>10, <1>11, 
     <1>12, <1>13, <1>14, <1>15, <1>16, <1>17, <1>18, <1>19, <1>20, 
     <1>21, <1>22, <1>23, <1>24, <1>25, <1>26, <1>27, <1>28, <1>29
     DEF Next, Caller, Loop, Connect, Proc

(***************************************************************************)
(* Why the loop ended: quit was closed, or the context cancelled, before   *)
(* runOnce came back without an error.  The caller of Receive has opened   *)
(* the connection, so the loop finds no driver only after Close took it.   *)
(***************************************************************************)
Ending ==
    /\ pc["loop"] = "ended" => Stopping
    /\ pc["loop"] \in {"returned", "clear"} /\ ~ err => Stopping
    /\ pc["loop"] = "run" /\ driver = None => quit = "closed"
    /\ pc["caller"] = "opened" => driver # None

LEMMA EndingKept ==
    ASSUME OpensFirst, HandleTypes, StepTypes, BuildingWhile, Exclusive, Ending, [Next]_vars
    PROVE  Ending'
<1> USE Bounds
<1> USE DEF HandleTypes, StepTypes, BuildingWhile, Exclusive, Reconnecting, NothingYet, Stopping, Ending, world, shared, work, Goto, Proc, ConnectSteps, CallerSteps, StreamSteps, LoopSteps
<1>1. CASE LinkDown
  BY <1>1 DEF LinkDown
<1>2. CASE LinkUp
  BY <1>2 DEF LinkUp
<1>3. CASE Consume
  BY <1>3 DEF Consume
<1>4. CASE Cancel
  BY <1>4 DEF Cancel
<1>5. CASE Open
  BY <1>5 DEF Open
<1>6. CASE Receive
  <2>1. pc'["caller"] = "receiving" /\ pc'["loop"] = "run"
    BY <1>6 DEF Receive
  <2>2. driver' = driver /\ pc["caller"] = "opened"
    BY <1>6 DEF Receive
  <2>3. QED
    BY <2>1, <2>2
<1>7. CASE Discontinue
  BY <1>7 DEF Discontinue
<1>8. CASE TakeDriver
  BY <1>8 DEF TakeDriver
<1>9. CASE CloseDriver
  BY <1>9 DEF CloseDriver
<1>10. CASE RunOnce
  BY <1>10 DEF RunOnce, FirstStep, Quiet
<1>11. CASE StartPeriodic
  BY <1>11 DEF StartPeriodic, CommandWorks, CommandFails, Fault, Quiet
<1>12. CASE StartMonitor
  BY <1>12 DEF StartMonitor, CommandWorks, CommandFails, Fault, MonitorReturns, Quiet
<1>13. CASE StopMonitor
  BY <1>13 DEF StopMonitor, MonitorReturns, Quiet
<1>14. CASE GoOn
  BY <1>14 DEF GoOn, Quiet
<1>15. CASE Read
  BY <1>15 DEF Read, MonitorReturns, Quiet
<1>16. CASE Emit
  BY <1>16 DEF Emit, Quiet
<1>17. CASE ClearPeriodic
  BY <1>17 DEF ClearPeriodic, Quiet
<1>18. CASE Poll
  BY <1>18 DEF Poll, Quiet
<1>19. CASE Request
  BY <1>19 DEF Request, CommandWorks, CommandFails, Fault, Quiet
<1>20. CASE Tick
  BY <1>20 DEF Tick, Quiet
<1>21. CASE StopPoll
  BY <1>21 DEF StopPoll, Quiet
<1>22. CASE Returned
  BY <1>22 DEF Returned, Quiet
<1>23. CASE DropDriver
  BY <1>23 DEF DropDriver, Quiet
<1>24. CASE Retry
  BY <1>24 DEF Retry, Quiet
<1>25. CASE Backoff
  BY <1>25 DEF Backoff, Longer, Quiet
<1>26. ASSUME NEW p \in Proc, OpenTransport(p) PROVE Ending'
  BY <1>26 DEF OpenTransport, ConnectFailed, Fault
<1>27. ASSUME NEW p \in Proc, Configure(p) PROVE Ending'
  BY <1>27 DEF Configure, ConnectFailed, CommandWorks, CommandFails, Fault
<1>28. ASSUME NEW p \in Proc, Install(p) PROVE Ending'
  BY <1>28 DEF Install
<1>29. CASE UNCHANGED vars
  BY <1>29 DEF vars
<1>30. QED
  BY <1>1, <1>2, <1>3, <1>4, <1>5, <1>6, <1>7, <1>8, <1>9, <1>10, <1>11, 
     <1>12, <1>13, <1>14, <1>15, <1>16, <1>17, <1>18, <1>19, <1>20, 
     <1>21, <1>22, <1>23, <1>24, <1>25, <1>26, <1>27, <1>28, <1>29
     DEF Next, Caller, Loop, Connect, Proc

(* The one late transport: the loop was at its OpenTransport step when it   *)
(* was told to stop, and never gets there again.                             *)
OneLate == lateOpens > 0 => lateOpens = 1 /\ Stopping /\ pc["loop"] # "open"

LEMMA OneLateKept ==
    ASSUME StepTypes, CountTypes, Exclusive, OneLate, [Next]_vars
    PROVE  OneLate'
<1> USE DEF StepTypes, CountTypes, Exclusive, NothingYet, Stopping, OneLate, world, shared, work, Goto, Proc, ConnectSteps, CallerSteps, StreamSteps, LoopSteps
<1>1. CASE LinkDown
  BY <1>1 DEF LinkDown
<1>2. CASE LinkUp
  BY <1>2 DEF LinkUp
<1>3. CASE Consume
  BY <1>3 DEF Consume
<1>4. CASE Cancel
  BY <1>4 DEF Cancel
<1>5. CASE Open
  BY <1>5 DEF Open
<1>6. CASE Receive
  BY <1>6 DEF Receive
<1>7. CASE Discontinue
  BY <1>7 DEF Discontinue
<1>8. CASE TakeDriver
  BY <1>8 DEF TakeDriver
<1>9. CASE CloseDriver
  BY <1>9 DEF CloseDriver
<1>10. CASE RunOnce
  BY <1>10 DEF RunOnce, FirstStep, Quiet
<1>11. CASE StartPeriodic
  BY <1>11 DEF StartPeriodic, CommandWorks, CommandFails, Fault, Quiet
<1>12. CASE StartMonitor
  BY <1>12 DEF StartMonitor, CommandWorks, CommandFails, Fault, MonitorReturns, Quiet
<1>13. CASE StopMonitor
  BY <1>13 DEF StopMonitor, MonitorReturns, Quiet
<1>14. CASE GoOn
  BY <1>14 DEF GoOn, Quiet
<1>15. CASE Read
  BY <1>15 DEF Read, MonitorReturns, Quiet
<1>16. CASE Emit
  BY <1>16 DEF Emit, Quiet
<1>17. CASE ClearPeriodic
  BY <1>17 DEF ClearPeriodic, Quiet
<1>18. CASE Poll
  BY <1>18 DEF Poll, Quiet
<1>19. CASE Request
  BY <1>19 DEF Request, CommandWorks, CommandFails, Fault, Quiet
<1>20. CASE Tick
  BY <1>20 DEF Tick, Quiet
<1>21. CASE StopPoll
  BY <1>21 DEF StopPoll, Quiet
<1>22. CASE Returned
  BY <1>22 DEF Returned, Quiet
<1>23. CASE DropDriver
  BY <1>23 DEF DropDriver, Quiet
<1>24. CASE Retry
  BY <1>24 DEF Retry, Quiet
<1>25. CASE Backoff
  BY <1>25 DEF Backoff, Longer, Quiet
<1>26. ASSUME NEW p \in Proc, OpenTransport(p) PROVE OneLate'
  BY <1>26 DEF OpenTransport, ConnectFailed, Fault
<1>27. ASSUME NEW p \in Proc, Configure(p) PROVE OneLate'
  BY <1>27 DEF Configure, ConnectFailed, CommandWorks, CommandFails, Fault
<1>28. ASSUME NEW p \in Proc, Install(p) PROVE OneLate'
  BY <1>28 DEF Install
<1>29. CASE UNCHANGED vars
  BY <1>29 DEF vars
<1>30. QED
  BY <1>1, <1>2, <1>3, <1>4, <1>5, <1>6, <1>7, <1>8, <1>9, <1>10, <1>11, 
     <1>12, <1>13, <1>14, <1>15, <1>16, <1>17, <1>18, <1>19, <1>20, 
     <1>21, <1>22, <1>23, <1>24, <1>25, <1>26, <1>27, <1>28, <1>29
     DEF Next, Caller, Loop, Connect, Proc

TypeInv == TypeOK /\ Supply

LEMMA TypeInit == Init => TypeInv
<1>1. Init => HandleTypes
  BY DEF Init, HandleTypes
<1>2. Init => StepTypes
  BY DEF Init, StepTypes, Proc, ConnectSteps, CallerSteps, StreamSteps, LoopSteps
<1>3. Init => FlagTypes
  BY DEF Init, FlagTypes
<1>4. Init => CountTypes /\ Supply
  BY Bounds DEF Init, CountTypes, Supply, Proc
<1>5. QED
  BY <1>1, <1>2, <1>3, <1>4 DEF TypeInv, TypeOK

LEMMA TypeKept ==
    ASSUME TypeInv, [Next]_vars
    PROVE  TypeInv'
  BY HandlesKept, StepsKept, FlagsKept, CountsKept DEF TypeInv, TypeOK

LEMMA TypeInvariant == Spec => []TypeInv
  BY TypeInit, TypeKept, PTL DEF Spec

(***************************************************************************)
(* Every variable keeps its type; the backoff of reconnect, doubled after  *)
(* each failure, never passes its ceiling.                                 *)
(***************************************************************************)
THEOREM ObdTypes == Spec => []TypeOK
<1>1. TypeInv => TypeOK
  BY DEF TypeInv
<1>2. QED
  BY TypeInvariant, <1>1, PTL

PortInv == TypeInv /\ Owned /\ BuildingWhile /\ Exclusive

LEMMA PortInvariant == Spec => []PortInv
<1>1. Init => TypeInv /\ Owned /\ BuildingWhile /\ Exclusive
  <2> SUFFICES ASSUME Init PROVE TypeInv /\ Owned /\ BuildingWhile /\ Exclusive
    OBVIOUS
  <2>1. TypeInv
    BY TypeInit
  <2>2. Owned /\ BuildingWhile
    BY DEF Init, Owned, BuildingWhile, Proc
  <2>3. Exclusive
    BY DEF Init, Exclusive, Reconnecting, NothingYet, ConnectSteps, Proc
  <2>4. QED
    BY <2>1, <2>2, <2>3
<1>2. PortInv /\ [Next]_vars => PortInv'
  BY TypeKept, OwnedKept, BuildingKept, ExclusiveKept DEF PortInv, TypeInv, TypeOK
<1>3. QED
  BY <1>1, <1>2, PTL DEF Spec, PortInv

(***************************************************************************)
(* For any number of transport handles, the adapter's port is never open   *)
(* twice.                                                                  *)
(***************************************************************************)
THEOREM ObdPort == Spec => []OneOpenTransport
<1>1. PortInv => OneOpenTransport
  BY Bounds DEF PortInv, TypeInv, TypeOK, HandleTypes, StepTypes, Owned, BuildingWhile,
         Exclusive, OneOpenTransport, Reconnecting, NothingYet, ConnectSteps, Proc
<1>2. QED
  BY PortInvariant, <1>1, PTL

(***************************************************************************)
(* If the connection was opened first, its loop ends only when shutdown    *)
(* was requested, whatever fails and whenever.                             *)
(***************************************************************************)
THEOREM ObdEnding ==
    ASSUME OpensFirst
    PROVE  Spec => []EndsOnlyWhenAsked
<1>1. Init => Ending
  BY DEF Init, Ending, Proc
<1>2. PortInv /\ Ending /\ [Next]_vars => Ending'
  BY EndingKept DEF PortInv, TypeInv, TypeOK
<1>3. Ending => EndsOnlyWhenAsked
  BY DEF Ending, EndsOnlyWhenAsked
<1>4. QED
  BY PortInvariant, <1>1, <1>2, <1>3, PTL DEF Spec

(***************************************************************************)
(* Once it was asked to stop, the loop opens one more transport at most.   *)
(***************************************************************************)
THEOREM ObdLateOpens == Spec => []StopBoundsReconnects
<1>1. Init => OneLate
  BY DEF Init, OneLate
<1>2. PortInv /\ OneLate /\ [Next]_vars => OneLate'
  BY OneLateKept DEF PortInv, TypeInv, TypeOK
<1>3. PortInv /\ OneLate => StopBoundsReconnects
  BY DEF PortInv, TypeInv, TypeOK, CountTypes, OneLate, StopBoundsReconnects
<1>4. QED
  BY PortInvariant, <1>1, <1>2, <1>3, PTL DEF Spec
=============================================================================
