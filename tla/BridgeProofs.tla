---------------------------- MODULE BridgeProofs ----------------------------
(***************************************************************************)
(* Proofs about the bridges between the guest and Android, for any         *)
(* connections, devices, buffers, packets and bounds.                      *)
(*                                                                         *)
(* BluetoothBridge: the type invariant; that deferred calls are answered   *)
(* from fresh snapshots; that a registration is confirmed by its own       *)
(* callback; that the two sides agree while no answer about an             *)
(* advertisement is lost.                                                  *)
(*                                                                         *)
(* VideoQueue: that encoded buffers, wake-ups and types are accounted for, *)
(* and that pictures reach the player in the order they were decoded.      *)
(***************************************************************************)
EXTENDS BluetoothBridge, VideoQueue, FiniteSetTheorems, WellFoundedInduction, TLAPS

-----------------------------------------------------------------------------
(* The Bluetooth bridge.                                                   *)

\* The command a message of the bus becomes.
Carried(op) == IF op = "register" THEN "start"
               ELSE IF op \in {"unregister", "gone"} THEN "stop" ELSE op

\* Ids grow: the newest is the service's own, it is in the command, and only
\* an Android that has taken it up answers it.
Numbered ==
  /\ command.id \in {0, requestId}
  /\ lastId <= requestId /\ callback <= requestId /\ reply.id <= requestId
  /\ reply.id = requestId => lastId = requestId
  /\ thrown <= lastId

\* What the service waits for is in the command file.
Waiting ==
  /\ pc = "properties" => call.op = "register" /\ ~ active
  /\ pc = "wait" => /\ requestId # 0 /\ command.id = requestId
                    /\ command.op = Carried(call.op)

\* An advertisement that the radio has not called back for is the one stop()
\* would end, and its start did not throw; if it is of the newest command, nobody has answered that yet.
Owned ==
  /\ starting \subseteq {callback} \ {0, thrown}
  /\ closed => callback = 0
  /\ \A id \in starting :
       id = requestId => /\ command.id = requestId /\ command.op = "start"
                         /\ lastId = requestId /\ reply.id # requestId

\* The answer to a device operation follows its snapshot.
Taken ==
  pc = "wait" /\ reply.id = requestId /\ command.op \in DeviceMethods
    => snapshot.upTo = requestId

\* A service that is down has forgotten everything.
Down == pc = "down" => ~ active /\ pending = {}

Fresh == \A p \in pending : p.id <= snapshot.upTo /\ p.id <= lastId

\* A start that was answered with success is on the air or was ended by close().
Called ==
  pc = "wait" /\ command.op = "start" /\ reply.id = requestId /\ reply.success
    => closed \/ (callback = requestId /\ requestId \notin starting)

IInv ==
  TypeOK /\ Numbered /\ Waiting /\ Owned /\ Taken /\ Down /\ Fresh /\ Called

\* What both sides know of the advertisement while every answer arrives; a
\* callback left by a start that threw stands for none.
Noted == callback \notin {0, thrown}
Settled == /\ active <=> Noted
           /\ starting = {}
           /\ command.op \in {"start", "stop"} => command.id \in {0, lastId}
StartAsked ==
  /\ ~ active
  /\ lastId # requestId => ~ Noted
  /\ lastId = requestId /\ reply.id = requestId => (reply.success <=> Noted) /\ starting = {}
  /\ lastId = requestId /\ reply.id # requestId => callback = requestId /\ Noted
StopAsked ==
  /\ starting = {}
  /\ lastId # requestId => active /\ Noted /\ reply.id # requestId
  /\ lastId = requestId => active /\ callback = 0 /\ reply.id = requestId /\ reply.success
InStep ==
  ~ closed /\ ~ unlearned =>
    IF pc = "wait" /\ command.op = "start" THEN StartAsked
    ELSE IF pc = "wait" /\ command.op = "stop" THEN StopAsked
    ELSE IF pc = "wait" THEN (active <=> Noted) /\ starting = {}
    ELSE Settled

-----------------------------------------------------------------------------
(* The type invariant.                                                     *)

LEMMA Heads ==
  ASSUME inbox \in Seq(Messages), inbox # <<>>
  PROVE  Head(inbox) \in Messages /\ Tail(inbox) \in Seq(Messages)
         /\ Len(Tail(inbox)) <= Len(inbox)
  OBVIOUS

LEMMA TakesType ==
  ASSUME TypeOK, NEW ops, Takes(ops)
  PROVE  /\ Head(inbox) \in Messages /\ Head(inbox).op \in ops
         /\ inbox' \in Seq(Messages) /\ Len(inbox') <= MaxInbox
<1>1. /\ Head(inbox) \in Messages /\ Tail(inbox) \in Seq(Messages)
      /\ Len(Tail(inbox)) <= Len(inbox)
  BY Heads DEF Takes, TypeOK
<1>2. Len(inbox) \in Nat /\ Len(Tail(inbox)) \in Nat /\ Len(inbox) <= MaxInbox
  BY <1>1 DEF TypeOK
<1> QED
  BY <1>1, <1>2, BoundsAssumption DEF Takes

LEMMA SynchronizeType ==
  TypeOK /\ Synchronize => /\ known' \subseteq Devices
                           /\ pending' \subseteq pending
BY DEF TypeOK, Synchronize

LEMMA CommandType ==
  ASSUME TypeOK,
         NEW op, NEW target, Command(op, target),
         \/ op \in DeviceMethods /\ target \in Devices
         \/ op \in Discovery \cup {"start", "stop"} /\ target = NoDevice
  PROVE  /\ requestId' \in Ids /\ command' \in Commands
         /\ reply' \in [id : Ids, success : BOOLEAN]
         /\ snapshot' = snapshot
BY BoundsAssumption DEF TypeOK, Command, Commands, Ids, NoReply

LEMMA PublishType ==
  ASSUME TypeOK, NEW devices \in SUBSET Devices, NEW id \in Ids, PublishAs(devices, id)
  PROVE  /\ listed' \subseteq Devices
         /\ snapshot' \in [devices : [Devices -> Stages \cup {"absent"}], upTo : Ids]
         /\ snapshot'.upTo = id
BY DEF TypeOK, PublishAs

LEMMA InitType == Init => TypeOK
<1> SUFFICES ASSUME Init  PROVE TypeOK
  OBVIOUS
<1>1. 0 \in Ids
  BY BoundsAssumption DEF Ids
<1>2. command \in Commands
  BY <1>1 DEF Init, NoCommand, Commands
<1>3. snapshot \in [devices : [Devices -> Stages \cup {"absent"}], upTo : Ids]
  BY <1>1 DEF Init
<1>4. stage \in [Devices -> Stages]
  BY DEF Init, Stages
<1>5. reply \in [id : Ids, success : BOOLEAN]
  BY <1>1 DEF Init, NoReply
<1>6. inbox \in Seq(Messages) /\ Len(inbox) <= MaxInbox
  BY BoundsAssumption DEF Init
<1> QED
  BY <1>1, <1>2, <1>3, <1>4, <1>5, <1>6 DEF Init, TypeOK

LEMMA MessageKinds ==
  /\ \A m \in Messages : m.from \in Callers /\ m # NoCall /\ m.from # Nobody
                         /\ m.op \in DeviceMethods \cup Discovery \cup Advertising \cup {"gone"}
  /\ \A m \in Messages : m.op \in DeviceMethods => m.device \in Devices
  /\ \A m \in Messages : m.op \notin DeviceMethods => m.device = NoDevice
BY NamesAssumption DEF Messages, NoCall, DeviceMethods, Discovery, Advertising

LEMMA SnapshotType ==
  TypeOK => snapshot.upTo \in Ids
BY DEF TypeOK

LEMMA GuestType ==
  ASSUME TypeOK, Guest
  PROVE  TypeOK'
<1> USE DEF service, files, bridge, radio, history
<1>1. CASE IdlePass
  BY <1>1, SynchronizeType DEF IdlePass, Pass, TypeOK
<1>2. CASE Refuse
  <2>1. inbox' \in Seq(Messages) /\ Len(inbox') <= MaxInbox
    BY <1>2, TakesType DEF Refuse
  <2>2. known' \subseteq Devices /\ pending' \subseteq pending
    BY <1>2, SynchronizeType DEF Refuse, Pass
  <2> QED
    BY <1>2, <2>1, <2>2 DEF Refuse, Pass, TypeOK
<1>3. CASE Request
  <2> DEFINE m == Head(inbox)
             op == IF m.op \in {"unregister", "gone"} THEN "stop" ELSE m.op
  <2>1. m \in Messages /\ inbox' \in Seq(Messages) /\ Len(inbox') <= MaxInbox
    BY <1>3, TakesType DEF Request
  <2>2. m.op \in DeviceMethods \cup Discovery \cup {"unregister", "gone"}
    BY <1>3 DEF Request, Takes
  <2>3. \/ op \in DeviceMethods /\ m.device \in Devices
        \/ op \in Discovery \cup {"start", "stop"} /\ m.device = NoDevice
    BY <2>1, <2>2, MessageKinds DEF DeviceMethods, Discovery
  <2>4. Command(op, m.device)
    BY <1>3 DEF Request
  <2>5. /\ requestId' \in Ids /\ command' \in Commands
        /\ reply' \in [id : Ids, success : BOOLEAN]
        /\ snapshot' = snapshot
    BY <2>3, <2>4, CommandType
  <2>6. call' = m /\ m # NoCall
    BY <1>3, <2>1, MessageKinds DEF Request
  <2>7. known' \subseteq Devices /\ pending' \subseteq pending
    BY <1>3, SynchronizeType DEF Request, Pass
  <2> HIDE DEF m, op
  <2> QED
    BY <1>3, <2>1, <2>5, <2>6, <2>7 DEF Request, TypeOK
<1>4. CASE Register
  <2>1. /\ Head(inbox) \in Messages
        /\ inbox' \in Seq(Messages) /\ Len(inbox') <= MaxInbox
    BY <1>4, TakesType DEF Register
  <2>2. known' \subseteq Devices /\ pending' \subseteq pending
    BY <1>4, SynchronizeType DEF Register, Pass
  <2>3. call' \in Messages /\ call' # NoCall
    BY <1>4, <2>1, MessageKinds DEF Register
  <2> QED
    BY <1>4, <2>1, <2>2, <2>3 DEF Register, TypeOK
<1>5. CASE PropertiesFail
  BY <1>5 DEF PropertiesFail, TypeOK
<1>6. CASE PropertiesRead
  <2>1. /\ requestId' \in Ids /\ command' \in Commands
        /\ reply' \in [id : Ids, success : BOOLEAN]
        /\ snapshot' = snapshot
    BY <1>6, CommandType DEF PropertiesRead
  <2> QED
    BY <1>6, <2>1 DEF PropertiesRead, TypeOK
<1>7. CASE Succeed
  <2>1. call \in Messages
    BY <1>7 DEF Succeed, TypeOK
  <2>2. /\ active' \in BOOLEAN /\ owner' \in Callers \cup {Nobody}
        /\ active' <=> owner' # Nobody
    BY <1>7, <2>1, MessageKinds DEF Succeed, Advertised, TypeOK
  <2>3. known' \subseteq Devices
    BY <1>7, SynchronizeType DEF Succeed, TypeOK
  <2>4. pending' \subseteq [from : Callers, op : DeviceMethods, device : Devices, id : Ids]
    <3>1. CASE call.op \in DeviceMethods
      <4>1. call.op \notin Discovery
        BY <3>1 DEF DeviceMethods, Discovery
      <4> QED
        BY <1>7, <2>1, <3>1, <4>1, MessageKinds DEF Succeed, TypeOK
    <3>2. CASE call.op \in Discovery
      BY <1>7, <3>2, SynchronizeType DEF Succeed, TypeOK, DeviceMethods, Discovery
    <3>3. CASE call.op \notin DeviceMethods \cup Discovery
      BY <1>7, <3>3 DEF Succeed, TypeOK
    <3> QED
      BY <3>1, <3>2, <3>3
  <2> QED
    BY <1>7, <2>2, <2>3, <2>4 DEF Succeed, Done, TypeOK
<1>8. CASE Fail
  BY <1>8 DEF Fail, Failed, Done, Advertised, TypeOK
<1>9. CASE GiveUp
  BY <1>9 DEF GiveUp, Failed, Done, Advertised, TypeOK
<1>10. CASE Terminate
  <2>1. /\ requestId' \in Ids /\ command' \in Commands
        /\ reply' \in [id : Ids, success : BOOLEAN]
        /\ snapshot' = snapshot
    BY <1>10, CommandType DEF Terminate, TypeOK
  <2>2. inbox' \in Seq(Messages) /\ Len(inbox') <= MaxInbox
    BY <1>10, BoundsAssumption DEF Terminate
  <2> QED
    BY <1>10, <2>1, <2>2 DEF Terminate, Advertised, TypeOK
<1>11. CASE Kill
  <2>1. inbox' \in Seq(Messages) /\ Len(inbox') <= MaxInbox
    BY <1>11, BoundsAssumption DEF Kill
  <2> QED
    BY <1>11, <2>1 DEF Kill, Advertised, TypeOK
<1>12. CASE Boot
  BY <1>12 DEF Boot, TypeOK
<1> QED
  BY <1>1, <1>2, <1>3, <1>4, <1>5, <1>6, <1>7, <1>8, <1>9, <1>10, <1>11, <1>12 DEF Guest

LEMMA TakenUpType ==
  ASSUME TypeOK, NEW ops, TakeUp(ops)
  PROVE  /\ lastId' \in Ids /\ lastId' = command.id /\ lastId' # lastId
         /\ command.op \in DeviceMethods => command.device \in Devices
         /\ ~ closed
BY DEF TypeOK, TakeUp, Commands, DeviceMethods, Discovery

LEMMA ReplyType ==
  ASSUME NEW id \in Ids, NEW success \in BOOLEAN, Reply(id, success)
  PROVE  /\ reply' \in [id : Ids, success : BOOLEAN]
         /\ reply'.id = id /\ (reply'.success <=> success)
BY DEF Reply

LEMMA AndroidType ==
  ASSUME TypeOK, Android
  PROVE  TypeOK'
<1> USE DEF service, files, bridge, radio, history
<1>1. CASE Publish
  BY <1>1, PublishType DEF Publish, TypeOK
<1>2. CASE ScanEnds
  BY <1>2, PublishType DEF ScanEnds, TypeOK
<1>3. CASE TakeDiscovery
  <2>1. lastId' \in Ids
    BY <1>3, TakenUpType DEF TakeDiscovery
  <2>2. discovering' \in BOOLEAN
    BY <1>3 DEF TakeDiscovery, TypeOK
  <2>4. \E success \in BOOLEAN : Reply(lastId', success)
    BY <1>3 DEF TakeDiscovery
  <2>5. reply' \in [id : Ids, success : BOOLEAN]
    BY <2>1, <2>4, ReplyType
  <2>3. /\ listed' \subseteq Devices
        /\ snapshot' \in [devices : [Devices -> Stages \cup {"absent"}], upTo : Ids]
    BY <1>3, <2>1, PublishType DEF TakeDiscovery, TypeOK
  <2> QED
    BY <1>3, <2>1, <2>2, <2>3, <2>5 DEF TakeDiscovery, TakeUp, TypeOK
<1>4. CASE TakeDeviceOperation
  <2>1. lastId' \in Ids /\ command.device \in Devices
    BY <1>4, TakenUpType DEF TakeDeviceOperation, TakeUp
  <2>2. PICK success \in Outcomes(command.op, stage[command.device]) : Reply(lastId', success)
    BY <1>4 DEF TakeDeviceOperation
  <2>4. success \in BOOLEAN
    BY <2>2 DEF Outcomes
  <2>5. reply' \in [id : Ids, success : BOOLEAN]
    BY <2>1, <2>2, <2>4 DEF Reply
  <2>3. /\ listed' \subseteq Devices
        /\ snapshot' \in [devices : [Devices -> Stages \cup {"absent"}], upTo : Ids]
    BY <1>4, <2>1, PublishType DEF TakeDeviceOperation, TypeOK
  <2> QED
    BY <1>4, <2>1, <2>5, <2>3 DEF TakeDeviceOperation, TakeUp, TypeOK
<1>5. CASE TakeStop
  <2>1. lastId' \in Ids /\ reply' \in [id : Ids, success : BOOLEAN] /\ 0 \in Ids
    BY <1>5, TakenUpType, BoundsAssumption DEF TakeStop, Reply, Ids
  <2> QED
    BY <1>5, <2>1 DEF TakeStop, TakeUp, StopAdvertising, TypeOK
<1>6. CASE TakeStart
  <2>1. lastId' \in Ids
    BY <1>6, TakenUpType DEF TakeStart
  <2>2. reply' \in [id : Ids, success : BOOLEAN]
    <3>1. Reply(lastId', FALSE) \/ UNCHANGED reply
      BY <1>6 DEF TakeStart
    <3> QED
      BY <2>1, <3>1, ReplyType DEF TypeOK
  <2> QED
    BY <1>6, <2>1, <2>2 DEF TakeStart, TakeUp, TypeOK
<1>7. CASE Close
  <2>1. 0 \in Ids
    BY BoundsAssumption DEF Ids
  <2> QED
    BY <1>7, <2>1, PublishType DEF Close, StopAdvertising, TypeOK
<1>8. CASE Create
  <2>1. 0 \in Ids /\ command' \in Commands /\ reply' \in [id : Ids, success : BOOLEAN]
    BY <1>8, BoundsAssumption DEF Create, NoCommand, NoReply, Commands, Ids
  <2> QED
    BY <1>8, <2>1 DEF Create, TypeOK
<1>9. ASSUME NEW d \in Devices, Found(d)  PROVE TypeOK'
  BY <1>9 DEF Found, TypeOK
<1>10. ASSUME NEW id \in starting, StartSucceeds(id)  PROVE TypeOK'
  BY <1>10 DEF StartSucceeds, Reply, TypeOK
<1>11. ASSUME NEW id \in starting, StartFails(id)  PROVE TypeOK'
  <2>1. 0 \in Ids
    BY BoundsAssumption DEF Ids
  <2> QED
    BY <1>11, <2>1 DEF StartFails, Reply, TypeOK
<1> QED
  BY <1>1, <1>2, <1>3, <1>4, <1>5, <1>6, <1>7, <1>8, <1>9, <1>10, <1>11 DEF Android

LEMMA EnvironmentType ==
  ASSUME TypeOK, Environment
  PROVE  TypeOK'
<1> USE DEF service, files, bridge, radio, history
<1>1. ASSUME NEW m \in Messages, Arrive(m)  PROVE TypeOK'
  <2>1. inbox' \in Seq(Messages) /\ Len(inbox') = Len(inbox) + 1 /\ Len(inbox) < MaxInbox
    BY <1>1 DEF Arrive, TypeOK
  <2>2. Len(inbox') <= MaxInbox
    BY <2>1, BoundsAssumption DEF TypeOK
  <2> QED
    BY <1>1, <2>1, <2>2 DEF Arrive, TypeOK
<1>2. ASSUME NEW c \in Callers, Ask(c)  PROVE TypeOK'
  <2>1. PICK op \in Methods, d \in Devices \cup {NoDevice} :
          /\ d \in IF op \in DeviceMethods THEN Devices ELSE {NoDevice}
          /\ Arrive([from |-> c, op |-> op, device |-> d])
    BY <1>2 DEF Ask
  <2>2. [from |-> c, op |-> op, device |-> d] \in Messages
    BY <2>1, MethodsAssumption DEF Messages
  <2> QED
    BY <1>1, <2>1, <2>2
<1>3. ASSUME NEW c \in Callers, Vanish(c)  PROVE TypeOK'
  BY <1>1, <1>3 DEF Vanish, Messages
<1>4. ASSUME NEW d \in Devices, StageChanges(d)  PROVE TypeOK'
  <2>1. stage' \in [Devices -> Stages]
    BY <1>4 DEF StageChanges, TypeOK, Stages
  <2> QED
    BY <1>4, <2>1 DEF StageChanges, TypeOK
<1>5. CASE RadioOff
  <2>1. stage' \in [Devices -> Stages]
    BY <1>5 DEF RadioOff, Stages
  <2> QED
    BY <1>5, <2>1 DEF RadioOff, TypeOK
<1>6. CASE RadioOn
  BY <1>6 DEF RadioOn, TypeOK
<1> QED
  BY <1>2, <1>3, <1>4, <1>5, <1>6 DEF Environment

LEMMA TypeStep == TypeOK /\ [Next]_vars => TypeOK'
<1>1. ASSUME TypeOK, UNCHANGED vars  PROVE TypeOK'
  BY <1>1 DEF vars, service, files, bridge, radio, history, TypeOK
<1> QED
  BY <1>1, GuestType, AndroidType, EnvironmentType DEF Next

\* Every variable of the two bridges, of their files and of the bus keeps its
\* type; the service knows an owner exactly while it believes in an
\* advertisement.
THEOREM TypeCorrect == Spec => []TypeOK
  BY InitType, TypeStep, PTL DEF Spec

-----------------------------------------------------------------------------
(* Answers, snapshots and call-backs.                                      *)

Parts == Numbered /\ Waiting /\ Owned /\ Taken /\ Down /\ Fresh /\ Called

LEMMA NumbersType ==
  ASSUME TypeOK
  PROVE  /\ requestId \in Nat /\ lastId \in Nat /\ callback \in Nat /\ thrown \in Nat
         /\ reply.id \in Nat /\ command.id \in Nat /\ snapshot.upTo \in Nat
         /\ \A p \in pending : p.id \in Nat
<1>1. Ids \subseteq Nat
  BY BoundsAssumption DEF Ids
<1>2. command.id \in Ids
  BY DEF TypeOK, Commands
<1> QED
  BY <1>1, <1>2 DEF TypeOK

LEMMA InitParts == Init => Parts
BY DEF Init, Parts, Numbered, Waiting, Owned, Taken, Down, Fresh, Called,
       NoCommand, NoReply

\* Nothing the parts speak of has changed.
LEMMA Unaffected ==
  ASSUME IInv,
         UNCHANGED <<service, files, lastId, callback, closed, starting, thrown>>
  PROVE  Parts'
BY DEF IInv, Parts, Numbered, Waiting, Owned, Taken, Down, Fresh, Called, service, files

\* The guest does something else than wait, without a command.
LEMMA Onward ==
  ASSUME IInv, UNCHANGED <<requestId, files, bridge, radio, thrown>>,
         pc' # "wait", pc' = "properties" => call'.op = "register" /\ ~ active',
         pc' = "down" => ~ active' /\ pending' = {}, Fresh'
  PROVE  Parts'
BY DEF IInv, Parts, Numbered, Waiting, Owned, Taken, Down, Called, files, bridge, radio

LEMMA FewerPending ==
  ASSUME IInv, pending' \subseteq pending, UNCHANGED <<snapshot, lastId>>
  PROVE  Fresh'
BY DEF IInv, Fresh

\* A new command: nobody has answered it.
LEMMA CommandStep ==
  ASSUME IInv, NEW op, NEW target, Command(op, target),
         pending' \subseteq pending, UNCHANGED <<bridge, radio, thrown>>,
         \/ pc' = "wait" /\ op = Carried(call'.op)
         \/ pc' = "down" /\ ~ active' /\ pending' = {}
  PROVE  Parts'
<1>1. /\ requestId' = requestId + 1 /\ reply'.id = 0
      /\ command'.id = requestId' /\ command'.op = op /\ snapshot' = snapshot
  BY DEF Command, NoReply
<1>2. /\ requestId \in Nat /\ lastId \in Nat /\ callback \in Nat
      /\ lastId <= requestId /\ callback <= requestId
  BY NumbersType DEF IInv, Numbered
<1>3. /\ requestId' # 0 /\ reply'.id # requestId' /\ reply'.id <= requestId'
      /\ lastId <= requestId' /\ callback <= requestId' /\ callback # requestId'
  BY <1>1, <1>2
<1>4. Numbered'
  BY <1>1, <1>3 DEF IInv, Numbered, bridge
<1>5. Waiting'
  BY <1>1, <1>3 DEF Waiting
<1>6. Owned'
  BY <1>3 DEF IInv, Owned, bridge, radio
<1>7. Taken' /\ Called'
  BY <1>3 DEF Taken, Called
<1>8. Down'
  BY DEF Down
<1>9. Fresh'
  BY <1>1, FewerPending DEF bridge
<1> QED
  BY <1>4, <1>5, <1>6, <1>7, <1>8, <1>9 DEF Parts

LEMMA SuccessIsFresh ==
  ASSUME IInv, Succeed
  PROVE  Fresh'
<1>1. /\ pc = "wait" /\ reply.id = requestId /\ lastId = requestId
      /\ snapshot' = snapshot /\ lastId' = lastId
  BY DEF Succeed, Answered, IInv, Numbered, files, bridge
<1>2. CASE call.op \in DeviceMethods
  <2>1. call.op \notin Discovery /\ command.op = call.op
    BY <1>1, <1>2 DEF IInv, Waiting, Carried, DeviceMethods, Discovery
  <2>2. snapshot.upTo = requestId
    BY <1>1, <1>2, <2>1 DEF IInv, Taken
  <2>3. pending' = pending \cup {[from |-> call.from, op |-> call.op,
                                  device |-> call.device, id |-> requestId]}
    BY <1>2, <2>1 DEF Succeed
  <2> QED
    BY <1>1, <2>2, <2>3, NumbersType DEF IInv, Fresh
<1>3. CASE call.op \in Discovery
  <2>1. Synchronize
    BY <1>3 DEF Succeed, DeviceMethods, Discovery
  <2> QED
    BY <1>1, <2>1, SynchronizeType, FewerPending DEF IInv
<1>4. CASE call.op \notin DeviceMethods \cup Discovery
  BY <1>1, <1>4, FewerPending DEF Succeed
<1> QED
  BY <1>2, <1>3, <1>4

LEMMA GuestStep ==
  ASSUME IInv, Guest
  PROVE  Parts'
<1> USE DEF service, files, bridge, history
<1>1. CASE IdlePass
  BY <1>1, SynchronizeType, FewerPending, Onward DEF IdlePass, Pass, IInv
<1>2. CASE Refuse
  BY <1>2, SynchronizeType, FewerPending, Onward DEF Refuse, Pass, IInv
<1>3. CASE Request
  <2> DEFINE m == Head(inbox)
             op == IF m.op \in {"unregister", "gone"} THEN "stop" ELSE m.op
  <2>1. /\ Command(op, m.device) /\ call' = m /\ pc' = "wait"
        /\ UNCHANGED <<bridge, radio, thrown>>
    BY <1>3 DEF Request
  <2>2. pending' \subseteq pending
    BY <1>3, SynchronizeType DEF Request, Pass, IInv
  <2>3. op = Carried(call'.op)
    BY <1>3, <2>1 DEF Request, Takes, Carried, DeviceMethods, Discovery
  <2> HIDE DEF op, m
  <2> QED
    BY <2>1, <2>2, <2>3, CommandStep
<1>4. CASE Register
  BY <1>4, SynchronizeType, FewerPending, Onward DEF Register, Pass, Takes, Refused, IInv
<1>5. CASE PropertiesFail
  BY <1>5, FewerPending, Onward DEF PropertiesFail
<1>6. CASE PropertiesRead
  BY <1>6, CommandStep DEF PropertiesRead, Carried, IInv, Waiting
<1>7. CASE Succeed
  BY <1>7, SuccessIsFresh, Onward DEF Succeed, Done
<1>8. CASE Fail
  BY <1>8, FewerPending, Onward DEF Fail, Failed, Done
<1>9. CASE GiveUp
  BY <1>9, FewerPending, Onward DEF GiveUp, Failed, Done
<1>10. CASE Terminate
  <2>1. pc' = "down" /\ ~ active' /\ pending' = {} /\ UNCHANGED <<bridge, radio, thrown>>
    BY <1>10 DEF Terminate, Advertised
  <2>2. CASE Command("stop", NoDevice)
    BY <2>1, <2>2, CommandStep
  <2>3. CASE UNCHANGED <<requestId, files>>
    BY <2>1, <2>3, FewerPending, Onward
  <2> QED
    BY <1>10, <2>2, <2>3 DEF Terminate
<1>11. CASE Kill
  BY <1>11, FewerPending, Onward DEF Kill, Advertised
<1>12. CASE Boot
  BY <1>12, FewerPending, Onward DEF Boot
<1> QED
  BY <1>1, <1>2, <1>3, <1>4, <1>5, <1>6, <1>7, <1>8, <1>9, <1>10, <1>11, <1>12 DEF Guest

\* Android takes up the newest command, whose advertisement, if it is a start,
\* the radio has not been asked for yet.
LEMMA TakenUp ==
  ASSUME IInv, NEW ops, TakeUp(ops)
  PROVE  /\ lastId' = requestId /\ requestId # 0 /\ lastId < requestId
         /\ reply.id # requestId /\ requestId \notin starting /\ ~ closed
         /\ command.op \in ops /\ requestId \in Nat /\ callback <= requestId
         /\ UNCHANGED <<service, inbox, command, closed>>
<1>1. /\ command.id = requestId /\ requestId # 0 /\ lastId # requestId
      /\ lastId' = requestId
  BY DEF TakeUp, IInv, Numbered
<1>2. /\ lastId <= requestId /\ callback <= requestId
      /\ reply.id = requestId => lastId = requestId
  BY DEF IInv, Numbered
<1>3. requestId \notin starting
  BY <1>1 DEF IInv, Owned
<1> QED
  BY <1>1, <1>2, <1>3, NumbersType DEF TakeUp, IInv

LEMMA TakeStep ==
  ASSUME IInv, NEW ops, TakeUp(ops),
         NEW success \in BOOLEAN, Reply(lastId', success),
         callback' \in {callback, 0, requestId}, thrown' \in {thrown, requestId},
         thrown' # thrown => starting' = {},
         starting' \subseteq starting, callback' # callback => starting' = {},
         snapshot'.upTo \in {snapshot.upTo, requestId},
         command.op \in DeviceMethods => snapshot'.upTo = requestId,
         command.op = "start" => ~ success
  PROVE  Parts'
<1> USE DEF service
<1>1. /\ lastId' = requestId /\ requestId # 0 /\ lastId < requestId
      /\ reply.id # requestId /\ requestId \notin starting /\ ~ closed
      /\ requestId \in Nat /\ callback <= requestId
      /\ UNCHANGED <<service, inbox, command, closed>>
  BY TakenUp
<1>2. reply'.id = requestId /\ (reply'.success <=> success)
  BY <1>1 DEF Reply
<1>3. /\ lastId \in Nat /\ thrown \in Nat /\ snapshot.upTo \in Nat
      /\ \A p \in pending : p.id \in Nat
  BY NumbersType DEF IInv
<1>4. Numbered'
  BY <1>1, <1>2, <1>3 DEF IInv, Numbered
<1>5. Waiting' /\ Down'
  BY <1>1 DEF IInv, Waiting, Down
<1>6. Owned'
  BY <1>1, <1>2 DEF IInv, Owned
<1>7. Taken'
  BY <1>1 DEF Taken
<1>8. Fresh'
  BY <1>1, <1>3 DEF IInv, Fresh
<1>9. Called'
  BY <1>1, <1>2 DEF Called
<1> QED
  BY <1>4, <1>5, <1>6, <1>7, <1>8, <1>9 DEF Parts

\* The radio is asked: the reply is left to its call-back.
LEMMA AskedStep ==
  ASSUME IInv, TakeUp({"start"}), callback = 0, callback' = lastId',
         starting' = starting \cup {lastId'}, UNCHANGED <<reply, snapshot, thrown>>
  PROVE  Parts'
<1> USE DEF service
<1>1. /\ lastId' = requestId /\ requestId # 0 /\ lastId < requestId
      /\ reply.id # requestId /\ ~ closed /\ command.op = "start"
      /\ requestId \in Nat
      /\ UNCHANGED <<service, inbox, command, closed>>
  BY TakenUp
<1>2. command.id = requestId
  BY <1>1 DEF TakeUp
<1>3. /\ lastId \in Nat /\ thrown \in Nat /\ thrown <= lastId
      /\ \A p \in pending : p.id \in Nat
  BY NumbersType DEF IInv, Numbered
<1>4. starting = {} /\ thrown # requestId
  BY <1>1, <1>3 DEF IInv, Owned
<1>5. Numbered'
  BY <1>1, <1>3 DEF IInv, Numbered
<1>6. Waiting' /\ Down' /\ Taken'
  BY <1>1 DEF IInv, Waiting, Down, Taken
<1>7. Owned'
  BY <1>1, <1>2, <1>4 DEF Owned
<1>8. Fresh'
  BY <1>1, <1>3 DEF IInv, Fresh
<1>9. Called'
  BY <1>1 DEF Called
<1> QED
  BY <1>5, <1>6, <1>7, <1>8, <1>9 DEF Parts

\* A snapshot is published.
LEMMA PublishStep ==
  ASSUME IInv, snapshot'.upTo = lastId,
         UNCHANGED <<service, command, reply, lastId, thrown>>,
         \/ UNCHANGED <<callback, starting, closed>>
         \/ closed' /\ callback' = 0 /\ starting' = {}
  PROVE  Parts'
<1> USE DEF service
<1>1. requestId \in Nat
  BY NumbersType DEF IInv
<1>2. Numbered' /\ Waiting' /\ Down' /\ Owned'
  BY <1>1 DEF IInv, Numbered, Waiting, Down, Owned
<1>3. Taken' /\ Called' /\ Fresh'
  BY DEF IInv, Numbered, Taken, Called, Fresh
<1> QED
  BY <1>2, <1>3 DEF Parts

\* The radio calls back.
LEMMA CallBackStep ==
  ASSUME IInv, NEW id \in starting, NEW success \in BOOLEAN, Reply(id, success),
         starting' = starting \ {id}, callback' = callback \/ (callback' = 0 /\ ~ success),
         UNCHANGED <<service, command, snapshot, lastId, closed, thrown>>
  PROVE  Parts'
<1> USE DEF service
<1>1. /\ id = callback /\ id # 0 /\ starting' = {} /\ id <= requestId
      /\ id = requestId => lastId = requestId /\ command.op = "start"
      /\ requestId \in Nat
  BY NumbersType DEF IInv, Owned, Numbered
<1>2. reply'.id = id /\ (reply'.success <=> success)
  BY DEF Reply
<1>3. Numbered'
  BY <1>1, <1>2 DEF IInv, Numbered
<1>4. Waiting' /\ Down' /\ Fresh'
  BY DEF IInv, Waiting, Down, Fresh
<1>5. Owned'
  BY <1>1 DEF IInv, Owned
<1>6. Taken'
  BY <1>1, <1>2 DEF Taken, DeviceMethods
<1>7. Called'
  BY <1>1, <1>2 DEF Called
<1> QED
  BY <1>3, <1>4, <1>5, <1>6, <1>7 DEF Parts

LEMMA StopClears ==
  ASSUME IInv, StopAdvertising
  PROVE  callback' = 0 /\ starting' = {}
BY DEF IInv, Owned, StopAdvertising

LEMMA PublishedUpTo ==
  ASSUME NEW devices, NEW id, PublishAs(devices, id)
  PROVE  snapshot'.upTo = id
BY DEF PublishAs

LEMMA AndroidStep ==
  ASSUME IInv, Android
  PROVE  Parts'
<1> USE DEF bridge, radio, history
<1>1. CASE Publish
  BY <1>1, PublishedUpTo, PublishStep DEF Publish
<1>2. CASE ScanEnds
  BY <1>2, PublishedUpTo, PublishStep DEF ScanEnds
<1>3. CASE TakeDiscovery
  <2>1. PICK success \in BOOLEAN : Reply(lastId', success)
    BY <1>3 DEF TakeDiscovery
  <2>2. TakeUp(Discovery) /\ UNCHANGED <<callback, starting, thrown>>
    BY <1>3 DEF TakeDiscovery
  <2>3. command.op \in Discovery /\ lastId' = requestId
    BY <2>2, TakenUp
  <2>4. snapshot'.upTo \in {snapshot.upTo, requestId}
    BY <1>3, <2>3, PublishedUpTo DEF TakeDiscovery
  <2> QED
    BY <2>1, <2>2, <2>3, <2>4, TakeStep DEF Discovery, DeviceMethods
<1>4. CASE TakeDeviceOperation
  <2>1. PICK success \in Outcomes(command.op, stage[command.device]) : Reply(lastId', success)
    BY <1>4 DEF TakeDeviceOperation
  <2>2. success \in BOOLEAN
    BY <2>1 DEF Outcomes
  <2>3. TakeUp(DeviceMethods) /\ UNCHANGED <<callback, starting, thrown>>
    BY <1>4 DEF TakeDeviceOperation
  <2>4. command.op \in DeviceMethods /\ lastId' = requestId
    BY <2>3, TakenUp
  <2>5. snapshot'.upTo = requestId
    BY <1>4, <2>4, PublishedUpTo DEF TakeDeviceOperation
  <2> QED
    BY <2>1, <2>2, <2>3, <2>4, <2>5, TakeStep DEF DeviceMethods
<1>5. CASE TakeStop
  <2>1. TakeUp({"stop"}) /\ Reply(lastId', TRUE) /\ UNCHANGED <<snapshot, thrown>>
    BY <1>5 DEF TakeStop
  <2>2. callback' = 0 /\ starting' = {}
    BY <1>5, StopClears DEF TakeStop
  <2>3. command.op = "stop"
    BY <2>1, TakenUp
  <2> QED
    BY <2>1, <2>2, <2>3, TakeStep DEF DeviceMethods
<1>6. CASE TakeStart
  <2>1. TakeUp({"start"}) /\ UNCHANGED snapshot
    BY <1>6 DEF TakeStart
  <2>2. lastId' = requestId /\ command.op = "start"
    BY <2>1, TakenUp
  <2>3. \/ /\ callback = 0 /\ callback' = lastId'
           /\ starting' = starting \cup {lastId'} /\ UNCHANGED <<reply, thrown>>
        \/ Reply(lastId', FALSE) /\ UNCHANGED <<callback, starting, thrown>>
        \/ /\ Reply(lastId', FALSE) /\ UNCHANGED starting
           /\ callback = 0 /\ callback' = requestId /\ thrown' = requestId
    BY <1>6, <2>2 DEF TakeStart
  <2>4. callback = 0 => starting = {}
    BY DEF IInv, Owned
  <2>5. command.op \notin DeviceMethods
    BY <2>2 DEF DeviceMethods
  <2> QED
    BY <2>1, <2>2, <2>3, <2>4, <2>5, AskedStep, TakeStep
<1>7. CASE Close
  BY <1>7, StopClears, PublishedUpTo, PublishStep DEF Close
<1>8. CASE Create
  <2>1. pending = {} /\ callback = 0 /\ starting = {}
    BY <1>8 DEF Create, IInv, Down, Owned
  <2>2. requestId \in Nat
    BY NumbersType DEF IInv
  <2> QED
    BY <1>8, <2>1, <2>2 DEF Create, Parts, Numbered, Waiting, Owned, Taken, Down,
                            Fresh, Called, NoCommand, NoReply, IInv, service
<1>9. ASSUME NEW d \in Devices, Found(d)  PROVE Parts'
  BY <1>9, Unaffected DEF Found
<1>10. ASSUME NEW id \in starting, StartSucceeds(id)  PROVE Parts'
  BY <1>10, CallBackStep DEF StartSucceeds
<1>11. ASSUME NEW id \in starting, StartFails(id)  PROVE Parts'
  BY <1>11, CallBackStep DEF StartFails
<1> QED
  BY <1>1, <1>2, <1>3, <1>4, <1>5, <1>6, <1>7, <1>8, <1>9, <1>10, <1>11 DEF Android

LEMMA EnvironmentStep ==
  ASSUME IInv, Environment
  PROVE  Parts'
<1>1. UNCHANGED <<service, files, lastId, callback, closed, starting, thrown>>
  BY DEF Environment, Ask, Vanish, Arrive, StageChanges, RadioOff, RadioOn, bridge, radio,
         history
<1> QED
  BY <1>1, Unaffected

LEMMA Inductive == IInv /\ [Next]_vars => IInv'
<1> SUFFICES ASSUME IInv, [Next]_vars  PROVE IInv'
  OBVIOUS
<1>1. TypeOK'
  BY TypeStep DEF IInv
<1>2. CASE UNCHANGED vars
  BY <1>1, <1>2, Unaffected DEF vars, bridge, radio, history, Parts, IInv
<1>3. CASE Next
  BY <1>1, <1>3, GuestStep, AndroidStep, EnvironmentStep DEF Next, Parts, IInv
<1> QED
  BY <1>2, <1>3

LEMMA Invariant == Spec => []IInv
<1>1. Init => IInv
  BY InitType, InitParts DEF Parts, IInv
<1> QED
  BY <1>1, Inductive, PTL DEF Spec

\* A deferred call is answered only from a snapshot taken after Android took
\* its command up: the answer to the command follows such a snapshot, and every
\* later one is newer still.
THEOREM AnswersFresh == Spec => []AnswersAreFresh
<1>1. IInv => AnswersAreFresh
  BY NumbersType DEF IInv, Fresh, AnswersAreFresh
<1> QED
  BY <1>1, Invariant, PTL

\* RegisterAdvertisement reports success only when the radio has called back
\* for the start of this registration, unless the activity has ended meanwhile.
THEOREM RegistrationConfirmed == Spec => ConfirmedByRadio
<1>1. ASSUME IInv, [Next]_vars
      PROVE  [~ active /\ active' => \/ closed
                                     \/ callback = requestId /\ requestId \notin starting]_vars
  <2> SUFFICES ASSUME Next, ~ active, active', ~ closed
               PROVE  callback = requestId /\ requestId \notin starting
    BY <1>1
  <2>1. Succeed
    BY DEF Next, Guest, Android, Environment, IdlePass, Refuse, Request, Register,
           PropertiesFail, PropertiesRead, Fail, GiveUp, Failed, Terminate, Kill, Boot,
           Advertised, Publish, ScanEnds, TakeDiscovery, TakeDeviceOperation, TakeStop,
           TakeStart, TakeUp, Close, Create, Found, StartSucceeds, StartFails, Ask,
           Vanish, Arrive, StageChanges, RadioOff, RadioOn, service
  <2>2. call.op = "register"
    BY <2>1 DEF Succeed, Advertised
  <2>3. command.op = "start" /\ pc = "wait" /\ reply.id = requestId /\ reply.success
    BY <1>1, <2>1, <2>2 DEF Succeed, Answered, IInv, Waiting, Carried
  <2> QED
    BY <1>1, <2>3 DEF IInv, Called
<1> QED
  BY <1>1, Invariant, PTL DEF Spec, ConfirmedByRadio

-----------------------------------------------------------------------------
(* The two bridges agree.                                                  *)

LEMMA InitInStep == Init => InStep
BY DEF Init, InStep, Settled, Noted, NoCommand

\* Nothing the agreement speaks of has changed.
LEMMA StillInStep ==
  ASSUME IInv, InStep, closed' \/ ~ closed, unlearned' \/ ~ unlearned,
         UNCHANGED <<active, requestId, callback, starting, thrown, command, reply, lastId>>,
         pc' = pc \/ (pc # "wait" /\ pc' # "wait")
  PROVE  InStep'
BY DEF InStep, Settled, StartAsked, StopAsked, Noted

LEMMA RequestInStep ==
  ASSUME IInv, InStep, Request
  PROVE  InStep'
<1> SUFFICES ASSUME ~ closed, ~ unlearned  PROVE InStep'
  BY DEF Request, InStep, bridge, history
<1> DEFINE m == Head(inbox)
           op == IF m.op \in {"unregister", "gone"} THEN "stop" ELSE m.op
<1>1. /\ pc = "loop" /\ pc' = "wait" /\ active' = active /\ m \in Messages
      /\ m.op \in DeviceMethods \cup Discovery \cup {"unregister", "gone"}
      /\ m.op \in {"unregister", "gone"} => owner = m.from
      /\ UNCHANGED <<lastId, callback, starting, thrown>>
  BY TakesType DEF Request, Pass, Refused, bridge, radio, history, IInv
<1>2. /\ command'.op = op /\ requestId' = requestId + 1 /\ reply'.id = 0
  BY DEF Request, Command, NoReply
<1>3. lastId # requestId' /\ reply'.id # requestId'
  BY <1>2, NumbersType DEF IInv, Numbered
<1>4. Settled
  BY <1>1 DEF InStep
<1>5. op # "start"
  BY <1>1 DEF DeviceMethods, Discovery
<1>6. op = "stop" => active
  <2>1. op = "stop" => owner \in Callers
    BY <1>1, MessageKinds DEF DeviceMethods, Discovery
  <2> QED
    BY <2>1, NamesAssumption DEF IInv, TypeOK
<1> HIDE DEF op, m
<1> QED
  BY <1>1, <1>2, <1>3, <1>4, <1>5, <1>6 DEF InStep, Settled, StopAsked, Noted

LEMMA PropertiesReadInStep ==
  ASSUME IInv, InStep, PropertiesRead
  PROVE  InStep'
<1>1. /\ command'.op = "start" /\ requestId' = requestId + 1 /\ reply'.id = 0
      /\ UNCHANGED <<lastId, callback, starting, thrown>>
      /\ closed' = closed /\ unlearned' = unlearned /\ active' = active
      /\ pc = "properties" /\ pc' = "wait"
  BY DEF PropertiesRead, Command, NoReply, bridge, radio, history
<1>2. lastId # requestId' /\ ~ active
  BY <1>1, NumbersType DEF IInv, Numbered, Waiting
<1> QED
  BY <1>1, <1>2 DEF InStep, Settled, StartAsked, Noted

LEMMA AnsweredInStep ==
  ASSUME IInv, InStep, Succeed \/ Fail
  PROVE  InStep'
<1>a. UNCHANGED <<closed, unlearned, thrown>>
  BY DEF Succeed, Fail, Failed, bridge, history
<1> SUFFICES ASSUME ~ closed, ~ unlearned  PROVE InStep'
  BY <1>a DEF InStep
<1>1. /\ pc = "wait" /\ pc' = "loop" /\ reply.id = requestId /\ lastId = requestId
      /\ UNCHANGED <<requestId, files, bridge, radio>>
  BY DEF Succeed, Fail, Failed, Answered, Done, IInv, Numbered
<1>2. command.op = Carried(call.op) /\ command.id = requestId /\ call \in Messages
  BY <1>1 DEF IInv, Waiting, TypeOK
<1>3. Settled' => InStep'
  BY <1>1 DEF InStep
<1>4. CASE call.op = "register"
  <2>1. (reply.success <=> Noted) /\ starting = {} /\ ~ active
    BY <1>1, <1>2, <1>4 DEF InStep, StartAsked, Carried
  <2>2. CASE Succeed
    BY <1>a, <1>1, <1>2, <1>3, <1>4, <2>1, <2>2, MessageKinds
       DEF Succeed, Answered, Advertised, Settled, Noted, files, bridge, radio
  <2>3. CASE Fail
    BY <1>a, <1>1, <1>2, <1>3, <1>4, <2>1, <2>3
       DEF Fail, Failed, Answered, Settled, Noted, files, bridge, radio
  <2> QED
    BY <2>2, <2>3
<1>5. CASE call.op \in {"unregister", "gone"}
  <2>1. callback = 0 /\ starting = {} /\ reply.success
    BY <1>1, <1>2, <1>5 DEF InStep, StopAsked, Carried
  <2>2. Succeed /\ ~ active'
    BY <1>5, <2>1 DEF Succeed, Fail, Answered, Advertised
  <2> QED
    BY <1>1, <1>2, <1>3, <2>1, <2>2 DEF Settled, Noted, files, bridge, radio
<1>6. CASE call.op \notin {"register", "unregister", "gone"}
  <2>1. command.op = call.op /\ command.op \notin {"start", "stop"} /\ active' = active
    BY <1>2, <1>6, MessageKinds
       DEF Carried, DeviceMethods, Discovery, Advertising, Succeed, Fail, Failed
  <2>2. (active <=> Noted) /\ starting = {}
    BY <1>1, <2>1 DEF InStep
  <2> QED
    BY <1>a, <1>1, <1>3, <2>1, <2>2 DEF Settled, Noted, files, bridge, radio
<1> QED
  BY <1>4, <1>5, <1>6

LEMMA GuestInStep ==
  ASSUME IInv, InStep, Guest
  PROVE  InStep'
<1> USE DEF service, files, bridge, radio, history
<1>1. CASE IdlePass
  BY <1>1, StillInStep DEF IdlePass
<1>2. CASE Refuse
  BY <1>2, StillInStep DEF Refuse
<1>3. CASE Request
  BY <1>3, RequestInStep
<1>4. CASE Register
  BY <1>4, StillInStep DEF Register, Pass
<1>5. CASE PropertiesFail
  BY <1>5, StillInStep DEF PropertiesFail
<1>6. CASE PropertiesRead
  BY <1>6, PropertiesReadInStep
<1>7. CASE Succeed \/ Fail
  BY <1>7, AnsweredInStep
<1>8. CASE GiveUp
  BY <1>8 DEF GiveUp, Failed, Done, IInv, Waiting, Carried, InStep, Settled, Noted
<1>9. CASE Terminate
  <2>1. ~ unlearned' => ~ active /\ pc # "wait"
    BY <1>9 DEF Terminate
  <2> QED
    BY <1>9, <2>1 DEF Terminate, Advertised, InStep, Settled, Noted
<1>10. CASE Kill
  BY <1>10 DEF Kill, Advertised, InStep, Settled, Noted
<1>11. CASE Boot
  BY <1>11, StillInStep DEF Boot
<1> QED
  BY <1>1, <1>2, <1>3, <1>4, <1>5, <1>6, <1>7, <1>8, <1>9, <1>10, <1>11 DEF Guest

\* A command that starts or stops an advertisement is still waited for when
\* Android takes it up.
LEMMA TakenWhileWaiting ==
  ASSUME IInv, InStep, NEW ops, TakeUp(ops), ~ unlearned,
         command.op \in {"start", "stop"}
  PROVE  pc = "wait" /\ lastId # requestId
<1>1. command.id \notin {0, lastId} /\ ~ closed
  BY DEF TakeUp
<1>2. pc = "wait"
  BY <1>1 DEF InStep, Settled
<1> QED
  BY <1>1, <1>2, TakenUp, NumbersType DEF IInv

LEMMA TakeInStep ==
  ASSUME IInv, InStep, NEW ops, TakeUp(ops), ops \cap {"start", "stop"} = {},
         UNCHANGED <<callback, starting, history>>
  PROVE  InStep'
<1>1. UNCHANGED <<service, command, closed>> /\ command.op \notin {"start", "stop"}
  BY TakenUp
<1> QED
  BY <1>1 DEF InStep, Settled, Noted, service, history

LEMMA TakeStopInStep ==
  ASSUME IInv, InStep, TakeStop
  PROVE  InStep'
<1> SUFFICES ASSUME ~ unlearned  PROVE InStep'
  BY DEF TakeStop, InStep, history
<1>1. TakeUp({"stop"}) /\ reply'.id = lastId' /\ reply'.success
  BY DEF TakeStop, Reply
<1>2. /\ lastId' = requestId /\ command.op = "stop" /\ ~ closed
      /\ UNCHANGED <<service, command, closed>>
  BY <1>1, TakenUp
<1>3. pc = "wait" /\ lastId # requestId
  BY <1>1, <1>2, TakenWhileWaiting
<1>4. callback' = 0 /\ starting' = {}
  BY StopClears DEF TakeStop
<1> QED
  BY <1>1, <1>2, <1>3, <1>4 DEF InStep, StopAsked, service

LEMMA TakeStartInStep ==
  ASSUME IInv, InStep, TakeStart
  PROVE  InStep'
<1> SUFFICES ASSUME ~ unlearned  PROVE InStep'
  BY DEF TakeStart, InStep
<1>1. TakeUp({"start"})
  BY DEF TakeStart
<1>2. /\ lastId' = requestId /\ command.op = "start" /\ ~ closed
      /\ reply.id # requestId /\ requestId # 0 /\ lastId < requestId
      /\ UNCHANGED <<service, command, closed>>
  BY <1>1, TakenUp
<1>3. pc = "wait" /\ lastId # requestId
  BY <1>1, <1>2, TakenWhileWaiting
<1>4. ~ Noted /\ starting = {} /\ ~ active
  BY <1>2, <1>3 DEF InStep, StartAsked, Noted, IInv, Owned
<1>5. thrown # requestId
  BY <1>2, NumbersType DEF IInv, Numbered
<1>6. CASE callback' = requestId /\ reply' = reply /\ thrown' = thrown
  BY <1>2, <1>3, <1>4, <1>5, <1>6 DEF InStep, StartAsked, Noted, service
<1>7. CASE /\ reply'.id = requestId /\ ~ reply'.success /\ starting' = starting
           /\ ~ Noted'
  BY <1>2, <1>3, <1>4, <1>7 DEF InStep, StartAsked, service
<1> QED
  BY <1>2, <1>4, <1>6, <1>7 DEF TakeStart, Reply, Noted

LEMMA CallBackInStep ==
  ASSUME IInv, InStep, NEW id \in starting, NEW success \in BOOLEAN,
         Reply(id, success), starting' = starting \ {id},
         callback' = IF success THEN callback ELSE 0,
         UNCHANGED <<service, command, lastId, closed, history>>
  PROVE  InStep'
<1> SUFFICES ASSUME ~ closed, ~ unlearned  PROVE InStep'
  BY DEF InStep, history
<1>1. id = callback /\ id # 0 /\ starting' = {} /\ Noted
  BY DEF IInv, Owned, Noted
<1>2. /\ pc = "wait" /\ command.op = "start" /\ ~ active
      /\ lastId = requestId /\ callback = requestId
  BY <1>1 DEF InStep, Settled, StartAsked, StopAsked
<1>3. reply'.id = requestId /\ (reply'.success <=> success) /\ (Noted' <=> success)
  BY <1>1, <1>2 DEF Reply, Noted, history
<1> QED
  BY <1>1, <1>2, <1>3 DEF InStep, StartAsked, service

LEMMA AndroidInStep ==
  ASSUME IInv, InStep, Android
  PROVE  InStep'
<1> USE DEF service, bridge, radio, history
<1>1. CASE Publish
  BY <1>1, StillInStep DEF Publish
<1>2. CASE ScanEnds
  BY <1>2, StillInStep DEF ScanEnds
<1>3. CASE TakeDiscovery
  BY <1>3, TakeInStep DEF TakeDiscovery, Discovery
<1>4. CASE TakeDeviceOperation
  BY <1>4, TakeInStep DEF TakeDeviceOperation, DeviceMethods
<1>5. CASE TakeStop
  BY <1>5, TakeStopInStep
<1>6. CASE TakeStart
  BY <1>6, TakeStartInStep
<1>7. CASE Close
  BY <1>7 DEF Close, InStep
<1>8. CASE Create
  <2>1. ~ active /\ starting = {}
    BY <1>8 DEF Create, IInv, Down, Owned
  <2> QED
    BY <1>8, <2>1 DEF Create, InStep, Settled, Noted, NoCommand
<1>9. ASSUME NEW d \in Devices, Found(d)  PROVE InStep'
  BY <1>9, StillInStep DEF Found, files
<1>10. ASSUME NEW id \in starting, StartSucceeds(id)  PROVE InStep'
  BY <1>10, CallBackInStep DEF StartSucceeds
<1>11. ASSUME NEW id \in starting, StartFails(id)  PROVE InStep'
  BY <1>11, CallBackInStep DEF StartFails
<1> QED
  BY <1>1, <1>2, <1>3, <1>4, <1>5, <1>6, <1>7, <1>8, <1>9, <1>10, <1>11 DEF Android

LEMMA EnvironmentInStep ==
  ASSUME IInv, InStep, Environment
  PROVE  InStep'
<1>1. UNCHANGED <<service, files, bridge, starting, history>>
  BY DEF Environment, Ask, Vanish, Arrive, StageChanges, RadioOff, RadioOn, radio
<1> QED
  BY <1>1, StillInStep DEF service, files, bridge, history

\* While the guest has had an answer to each start and stop it asked for, both
\* bridges hold the same belief about the advertisement; a callback that
\* Android keeps from a start that threw, and answered FALSE, counts as none.
THEOREM BridgesInStep == Spec => []BridgesAgree
<1>1. ASSUME IInv, InStep, [Next]_vars  PROVE InStep'
  <2>1. CASE UNCHANGED vars
    BY <1>1, <2>1, StillInStep DEF vars, service, files, bridge, radio, history
  <2> QED
    BY <1>1, <2>1, GuestInStep, AndroidInStep, EnvironmentInStep DEF Next
<1>2. InStep => BridgesAgree
  BY DEF InStep, Settled, Noted, BridgesAgree
<1> QED
  BY <1>1, <1>2, InitInStep, Invariant, PTL DEF Spec

-----------------------------------------------------------------------------
(* The video bridge.                                                        *)

\* A set of numbers that is not empty has a least one.
LEMMA Least ==
  ASSUME NEW T, T \subseteq Nat, T # {}
  PROVE  \E x \in T : \A y \in T : x <= y
<1> DEFINE R == {ss \in Nat \X Nat : ss[1] < ss[2]}
<1>1. IsWellFoundedOn(R, Nat)
  BY NatLessThanWellFounded DEF OpToRel
<1>2. \A x, y \in Nat : y < x => <<y, x>> \in R
  OBVIOUS
<1> HIDE DEF R
<1>3. PICK x \in T : \A y \in T : ~(<<y, x>> \in R)
  BY <1>1, WFMin
<1>4. ASSUME NEW y \in T  PROVE x <= y
  <2>1. x \in Nat /\ y \in Nat /\ ~(y < x)
    BY <1>2, <1>3
  <2> QED BY <2>1
<1> QED BY <1>4

LEMMA FirstOf ==
  ASSUME NEW s, s \subseteq Captures, s # {}
  PROVE  First(s) \in s /\ \A j \in s : First(s) <= j
<1>1. \E i \in s : \A j \in s : i <= j
  BY DataAssumption, Least
<1> QED BY <1>1 DEF First

LEMMA OldestOf ==
  ASSUME NEW s, s \subseteq Captures, s # {}, capture \in [Captures -> Buffers]
  PROVE  Oldest(s) \in s /\ \A j \in s : capture[Oldest(s)].frame <= capture[j].frame
<1> DEFINE T == {capture[i].frame : i \in s}
<1>1. T \subseteq Nat /\ T # {}
  BY VideoBounds DEF Buffers
<1>2. PICK x \in T : \A y \in T : x <= y
  BY <1>1, Least
<1>3. \E i \in s : \A j \in s : capture[i].frame <= capture[j].frame
  BY <1>2
<1> QED BY <1>3 DEF Oldest

(* Every picture comes from a packet, so that the sequence numbers do not   *)
(* outrun the stamps: whatever the worker, Android and the queue still hold *)
(* is not counted yet.                                                      *)
Carried1 == IF worker = "format" /\ answer.kind = "frame" THEN 1 ELSE 0
InHand == IF hand = NoPacket THEN 0 ELSE 1
Spent == sequence + Carried1 + Len(inside) + InHand + Len(packets) <= stamp

\* A device that is closed has no worker and nothing to tell.
ClosedIsIdle == device = "closed" => worker = "none" /\ ~Ready

\* Pictures that wait are newer than the one shown last, and all differ.
FramesAhead ==
  /\ shown <= sequence
  /\ \A i \in Captures : 
       capture[i].frame # 0 => shown < capture[i].frame /\ capture[i].frame <= sequence
  /\ \A i, j \in Captures : capture[i].frame # 0 /\ capture[i].frame = capture[j].frame => i = j

\* The encoded buffers of the queue, of the completed ones and the one in
\* exchange are different ones; the player has the rest.
Apart(q, c, h, m) ==
  /\ \A a, b \in DOMAIN q : q[a].index = q[b].index => a = b
  /\ \A a, b \in DOMAIN c : c[a] = c[b] => a = b
  /\ \A a \in DOMAIN q, b \in DOMAIN c : q[a].index # c[b]
  /\ h # NoPacket => /\ \A a \in DOMAIN q : q[a].index # h.index
                     /\ \A b \in DOMAIN c : c[b] # h.index
  /\ \A i \in Inputs : i \in m <=> /\ \A a \in DOMAIN q : q[a].index # i
                                   /\ \A b \in DOMAIN c : c[b] # i
                                   /\ h # NoPacket => h.index # i

InputsApart == ~stale => Apart(packets, completed, hand, mine)

VideoInv == VideoTypeOK /\ Spent /\ ClosedIsIdle /\ FramesAhead /\ InputsApart /\ EventNotLost

LEMMA StampFacts == /\ MaxPackets \in Nat /\ MaxPending \in Nat \ {0} /\ MaxOffs \in Nat
                    /\ Stamps = 1 .. MaxPackets /\ Inputs \subseteq Nat /\ Captures \subseteq Nat
                    /\ 0 \notin Sizes
BY VideoBounds, DataAssumption DEF Stamps

\* What Android has left after an answer, and how much of it was used up.
LEMMA ExchangedLeft ==
  ASSUME VideoTypeOK, NEW a \in Answers, Exchanged(a)
  PROVE  /\ inside' \in Seq(Stamps) /\ decoded' \in Sizes \cup {0}
         /\ Len(inside') <= Len(inside) + InHand
         /\ a.kind = "frame" => Len(inside') + 1 <= Len(inside) + InHand
<1> DEFINE held == IF hand = NoPacket THEN inside ELSE Append(inside, hand.stamp)
<1>1. held \in Seq(Stamps) /\ Len(held) = Len(inside) + InHand
  <2>1. inside \in Seq(Stamps) /\ (hand # NoPacket => hand.stamp \in Stamps)
    BY DEF VideoTypeOK, Packets
  <2>2. CASE hand = NoPacket
    BY <2>1, <2>2 DEF InHand
  <2>3. CASE hand # NoPacket
    BY <2>1, <2>3 DEF InHand
  <2> QED BY <2>2, <2>3
<1>2. PICK n \in 0 .. Len(held) :
        /\ inside' = SubSeq(held, n + 1, Len(held))
        /\ a.kind = "frame" => n > 0
        /\ decoded' \in {decoded} \cup Sizes
  <2> HIDE DEF held
  <2>1. PICK n \in 0 .. Len(held) :
       /\ inside' = SubSeq(held, n + 1, Len(held))
       /\ \/ a = Accepted /\ UNCHANGED decoded
          \/ /\ \E s \in Sizes : a = [kind |-> "format", stamp |-> 0, size |-> s]
             /\ decoded' = a.size
          \/ n > 0 /\ decoded' \in {decoded} \cup Sizes
    BY DEF Exchanged, held
  <2>2. CASE a = Accepted /\ UNCHANGED decoded
    BY <2>1, <2>2 DEF Accepted
  <2>3. CASE \E s \in Sizes : a = [kind |-> "format", stamp |-> 0, size |-> s] /\ decoded' = a.size
    BY <2>1, <2>3
  <2>4. CASE n > 0 /\ decoded' \in {decoded} \cup Sizes
    BY <2>1, <2>4
  <2> QED BY <2>1, <2>2, <2>3, <2>4
<1> HIDE DEF held
<1>3. /\ SubSeq(held, n + 1, Len(held)) \in Seq(Stamps)
      /\ Len(SubSeq(held, n + 1, Len(held))) = Len(held) - n
  BY <1>1
<1>4. Len(inside) \in Nat /\ InHand \in {0, 1} /\ decoded \in Sizes \cup {0}
  BY DEF VideoTypeOK, InHand
<1> QED BY <1>1, <1>2, <1>3, <1>4

\* A picture is stored in one of the buffers, lost, or too large.
LEMMA Stores ==
  ASSUME VideoTypeOK, NEW a, Store(a)
  PROVE  /\ worker' \in {"loop", "ending"}
         /\ sequence' \in {sequence, sequence + 1}
         /\ pendingStamps' \subseteq pendingStamps
         /\ \/ capture' = capture
            \/ \E i \in Captures : /\ capture' = [capture EXCEPT ![i].frame = sequence + 1]
                                   /\ sequence' = sequence + 1
<1>1. CASE /\ worker' = "ending"
           /\ UNCHANGED <<capture, pendingStamps, sequence>>
  BY <1>1
<1>2. CASE /\ sequence' = sequence + 1
           /\ pendingStamps' = pendingStamps \ {a.stamp}
           /\ worker' = "loop"
           /\ UNCHANGED capture
  BY <1>2
<1> DEFINE free == QueuedCaptures \ ReadyCaptures
           i == IF free # {} THEN First(free) ELSE Oldest(QueuedCaptures)
<1>3. CASE /\ QueuedCaptures # {}
           /\ \/ /\ worker' = "ending" /\ sequence' = sequence + 1
                 /\ UNCHANGED <<capture, pendingStamps>>
              \/ Stored(i, a)
  <2>1. i \in Captures
    <3>1. QueuedCaptures \subseteq Captures /\ free \subseteq Captures
      BY DEF QueuedCaptures
    <3>2. free # {} => First(free) \in Captures
      BY <3>1, FirstOf
    <3>3. Oldest(QueuedCaptures) \in Captures
      BY <3>1, <1>3, OldestOf DEF VideoTypeOK
    <3> QED BY <3>2, <3>3
  <2>2. \/ worker' = "ending" /\ sequence' = sequence + 1 /\ UNCHANGED <<capture, pendingStamps>>
        \/ Stored(i, a)
    BY <1>3
  <2> HIDE DEF i
  <2>3. CASE Stored(i, a)
    BY <2>1, <2>3 DEF Stored
  <2>4. CASE worker' = "ending" /\ sequence' = sequence + 1 /\ UNCHANGED <<capture, pendingStamps>>
    BY <2>4
  <2> QED BY <2>2, <2>3, <2>4
<1> QED BY <1>1, <1>2, <1>3 DEF Store

\* The stamps of which the oldest is forgotten fit again.
LEMMA PendingFits ==
  ASSUME VideoTypeOK, NEW s \in Stamps
  PROVE  LET all == pendingStamps \cup {s}
             kept == IF Cardinality(all) > MaxPending
                     THEN {x \in all : \E t \in all : t < x} ELSE all
         IN  kept \subseteq Stamps /\ Cardinality(kept) <= MaxPending
<1> DEFINE all == pendingStamps \cup {s}
           fewer == {x \in all : \E t \in all : t < x}
<1>1. IsFiniteSet(Stamps) /\ Stamps \subseteq Nat
  BY StampFacts, FS_Interval
<1>2. /\ IsFiniteSet(pendingStamps) /\ pendingStamps \subseteq Stamps
      /\ Cardinality(pendingStamps) <= MaxPending
  BY <1>1, FS_Subset DEF VideoTypeOK
<1>3. IsFiniteSet(all) /\ Cardinality(all) <= Cardinality(pendingStamps) + 1
      /\ Cardinality(pendingStamps) \in Nat /\ Cardinality(all) \in Nat
  BY <1>2, FS_AddElement, FS_CardinalityType
<1>4. PICK x \in all : \A y \in all : x <= y
  <2>1. all \subseteq Nat /\ all # {}
    BY <1>1, <1>2
  <2> HIDE DEF all
  <2> QED BY <2>1, Least
<1>5. fewer \subseteq all \ {x}
  <2>1. all \subseteq Nat
    BY <1>1, <1>2
  <2> HIDE DEF all
  <2> SUFFICES ASSUME x \in fewer  PROVE FALSE
    OBVIOUS
  <2>2. PICK t \in all : t < x
    OBVIOUS
  <2> QED BY <1>4, <2>1, <2>2
<1>6. IsFiniteSet(all \ {x}) /\ Cardinality(all \ {x}) = Cardinality(all) - 1
  BY <1>3, <1>4, FS_RemoveElement
<1>7. Cardinality(fewer) <= Cardinality(all) - 1
  BY <1>5, <1>6, FS_Subset
<1>8. all \subseteq Stamps /\ fewer \subseteq all
  BY <1>2
<1>9. Cardinality(fewer) \in Nat
  BY <1>5, <1>6, FS_Subset, FS_CardinalityType
<1> HIDE DEF all, fewer
<1>10. fewer \subseteq Stamps /\ Cardinality(fewer) <= MaxPending
  BY <1>2, <1>3, <1>7, <1>8, <1>9, StampFacts
<1>11. ~(Cardinality(all) > MaxPending) => Cardinality(all) <= MaxPending
  BY <1>3, StampFacts
<1>12. CASE Cardinality(all) > MaxPending
  BY <1>10, <1>12 DEF all, fewer
<1>13. CASE ~(Cardinality(all) > MaxPending)
  BY <1>8, <1>11, <1>13 DEF all
<1> QED BY <1>12, <1>13

LEMMA FewerStamps ==
  ASSUME VideoTypeOK, NEW p, p \subseteq pendingStamps
  PROVE  p \subseteq Stamps /\ Cardinality(p) <= MaxPending
<1>1. IsFiniteSet(Stamps)
  BY StampFacts, FS_Interval
<1>2. IsFiniteSet(pendingStamps)
  BY <1>1, FS_Subset DEF VideoTypeOK
<1>3. IsFiniteSet(p) /\ Cardinality(p) <= Cardinality(pendingStamps)
  BY <1>2, FS_Subset
<1>4. Cardinality(p) \in Nat /\ Cardinality(pendingStamps) \in Nat
  BY <1>2, <1>3, FS_CardinalityType
<1> QED BY <1>3, <1>4, StampFacts DEF VideoTypeOK

LEMMA Zeroes == /\ 0 \in Sizes \cup {0} /\ 0 \in 0 .. MaxPackets /\ 0 \in 0 .. MaxOffs
                /\ {} \subseteq Stamps /\ Cardinality({}) <= MaxPending
                /\ <<>> \in Seq(Packets) /\ <<>> \in Seq(Inputs) /\ <<>> \in Seq(Stamps)
                /\ NoPacket \notin Packets
                /\ [queued |-> FALSE, frame |-> 0, length |-> 0] \in Buffers
<1>1. Cardinality({}) = 0
  BY FS_EmptySet
<1> QED BY <1>1, StampFacts DEF Buffers, NoPacket, Packets, Stamps

\* There is room for one more picture while an answer is on its way.
LEMMA Room ==
  ASSUME VideoTypeOK, Spent
  PROVE  /\ Len(inside) \in Nat /\ Len(packets) \in Nat /\ sequence \in Nat /\ InHand \in {0, 1}
         /\ Carried1 \in {0, 1} /\ stamp \in 0 .. MaxPackets
         /\ Carried1 = 1 => sequence + 1 <= MaxPackets
         /\ Len(inside) + InHand >= 1 => sequence + 1 <= MaxPackets
<1>1. /\ Len(inside) \in Nat /\ Len(packets) \in Nat /\ sequence \in Nat /\ InHand \in {0, 1}
      /\ Carried1 \in {0, 1} /\ stamp \in 0 .. MaxPackets
  BY StampFacts DEF VideoTypeOK, InHand, Carried1
<1> QED BY <1>1, StampFacts DEF Spent

LEMMA Front ==
  ASSUME NEW S, NEW q \in Seq(S), q # <<>>
  PROVE  /\ Head(q) \in S /\ Tail(q) \in Seq(S) /\ Len(Tail(q)) = Len(q) - 1 /\ Head(q) = q[1]
         /\ \A a \in DOMAIN Tail(q) : a + 1 \in DOMAIN q /\ a + 1 # 1 /\ Tail(q)[a] = q[a + 1]
         /\ DOMAIN Tail(q) = 1 .. (Len(q) - 1) /\ DOMAIN q = 1 .. Len(q)
         /\ Len(q) \in Nat /\ 1 \in DOMAIN q
OBVIOUS

LEMMA PacketParts ==
  ASSUME NEW p \in Packets
  PROVE  p.index \in Inputs /\ p.stamp \in Stamps /\ p.header \in Sizes \cup {0}
BY DEF Packets

LEMMA BufferParts ==
  ASSUME NEW b \in Buffers
  PROVE  /\ b.queued \in BOOLEAN /\ b.frame \in 0 .. MaxPackets /\ b.length \in Sizes \cup {0}
         /\ \A f \in 0 .. MaxPackets : [b EXCEPT !.frame = f] \in Buffers
         /\ [[b EXCEPT !.queued = FALSE] EXCEPT !.frame = 0] \in Buffers
<1>1. b.queued \in BOOLEAN /\ b.frame \in 0 .. MaxPackets /\ b.length \in Sizes \cup {0}
  BY DEF Buffers
<1>2. \A c \in Buffers : \A f \in 0 .. MaxPackets : [c EXCEPT !.frame = f] \in Buffers
  BY DEF Buffers
<1>3. [b EXCEPT !.queued = FALSE] \in Buffers
  BY DEF Buffers
<1>4. 0 \in 0 .. MaxPackets
  BY StampFacts
<1> QED BY <1>1, <1>2, <1>3, <1>4

LEMMA PlayerTypes ==
  ASSUME VideoInv, Player
  PROVE  VideoTypeOK'
<1> USE StampFacts DEF VideoInv, VideoTypeOK, settings, streams, source, queues, android,
       player
<1>1. CASE Open
  BY Zeroes, <1>1 DEF Open
<1>2. CASE CloseDevice
  BY <1>2 DEF CloseDevice
<1>3. CASE CloseReturns
  BY Zeroes, <1>3 DEF CloseReturns
<1>4. CASE DequeueInput
  <2>1. Head(completed) \in Inputs /\ Tail(completed) \in Seq(Inputs)
    BY <1>4, Front DEF DequeueInput
  <2>2. mine' \subseteq Inputs /\ completed' \in Seq(Inputs) /\ event' \in BOOLEAN
    BY <1>4, <2>1 DEF DequeueInput, Signal
  <2> QED BY <1>4, <2>2 DEF DequeueInput
<1>5. CASE DequeueCapture
  <2>1. PICK i \in Captures : TakeCapture(i)
    <3>1. ReadyCaptures \subseteq Captures /\ ReadyCaptures # {}
      BY <1>5 DEF DequeueCapture, ReadyCaptures
    <3>2. Oldest(ReadyCaptures) \in Captures
      BY <3>1, OldestOf
    <3> QED BY <3>2, <1>5 DEF DequeueCapture
  <2>2. capture[i] \in Buffers /\ capture[i].frame \in 0 .. MaxPackets
    BY BufferParts
  <2>3. capture' = [capture EXCEPT ![i] = [[capture[i] EXCEPT !.queued = FALSE] EXCEPT !.frame = 0]]
    BY <2>1 DEF TakeCapture
  <2>4. capture' \in [Captures -> Buffers]
    BY <2>2, <2>3, BufferParts
  <2> QED BY <2>1, <2>2, <2>4 DEF TakeCapture, Signal
<1>6. CASE DequeueEvent
  BY <1>6, ZenonT(30) DEF DequeueEvent, Signal
<1>7. ASSUME NEW i \in Inputs, NEW header \in Sizes \cup {0}, QueueInput(i, header)
      PROVE  VideoTypeOK'
  <2>1. [index |-> i, stamp |-> stamp + 1, header |-> header] \in Packets
    BY <1>7 DEF QueueInput, Packets
  <2>2. packets' \in Seq(Packets)
    BY <1>7, <2>1 DEF QueueInput
  <2> QED BY <1>7, <2>2 DEF QueueInput
<1>8. ASSUME NEW i \in Captures, QueueCapture(i)
      PROVE  VideoTypeOK'
  <2>1. [queued |-> TRUE, frame |-> 0, length |-> size] \in Buffers
    BY DEF Buffers
  <2> QED BY <1>8, <2>1 DEF QueueCapture
<1>9. ASSUME NEW queue \in {"output", "capture"}, StreamOn(queue)
      PROVE  VideoTypeOK'
  <2>1. outputOn' \in BOOLEAN /\ captureOn' \in BOOLEAN
    BY <1>9 DEF StreamOn
  <2>2. worker' = worker \/ (worker = "none" /\ worker' \in {"sequence", "connect"})
    BY <1>9 DEF StreamOn
  <2> QED BY <1>9, <2>1, <2>2 DEF StreamOn
<1>10. ASSUME NEW queue \in {"output", "capture"}, StreamOff(queue)
       PROVE  VideoTypeOK'
  <2>1. capture' \in [Captures -> Buffers]
    <3>1. CASE capture' = capture
      BY <3>1
    <3>2. CASE capture' = [i \in Captures |-> [capture[i] EXCEPT !.queued = FALSE, !.frame = 0]]
      <4>1. \A i \in Captures : [capture[i] EXCEPT !.queued = FALSE, !.frame = 0] \in Buffers
        BY BufferParts
      <4> QED BY <3>2, <4>1
    <3> QED BY <1>10, <3>1, <3>2 DEF StreamOff
  <2>2. /\ outputOn' \in BOOLEAN /\ captureOn' \in BOOLEAN /\ stale' \in BOOLEAN
        /\ packets' \in Seq(Packets) /\ completed' \in Seq(Inputs) /\ mine' \subseteq Inputs
    BY <1>10, Zeroes DEF StreamOff
  <2>3. offs' \in 0 .. MaxOffs
    <3>1. offs < MaxOffs /\ offs' = offs + 1
      BY <1>10 DEF StreamOff
    <3>2. offs \in 0 .. MaxOffs /\ MaxOffs \in Nat
      OBVIOUS
    <3> QED BY <3>1, <3>2
  <2> QED BY <1>10, <2>1, <2>2, <2>3, ZenonT(30) DEF StreamOff
<1> QED BY <1>1, <1>2, <1>3, <1>4, <1>5, <1>6, <1>7, <1>8, <1>9, <1>10 DEF Player

LEMMA WorkerTypes ==
  ASSUME VideoInv, Worker
  PROVE  VideoTypeOK'
<1> USE StampFacts DEF VideoInv, VideoTypeOK, settings, streams, source, queues, android,
       player
<1>0. packets # <<>> => Head(packets) \in Packets /\ Tail(packets) \in Seq(Packets)
                       /\ Head(packets).index \in Inputs /\ Head(packets).header \in Sizes \cup {0}
                       /\ Head(packets).stamp \in Stamps
  <2> SUFFICES ASSUME packets # <<>>
               PROVE  Head(packets) \in Packets /\ Tail(packets) \in Seq(Packets)
    BY PacketParts
  <2> QED BY Front
<1>1. CASE SequenceHeader
  <2>1. completed' \in Seq(Inputs) /\ packets' \in Seq(Packets)
    <3>1. packets # <<>>
      BY <1>1 DEF SequenceHeader
    <3>2. completed' = completed \/ completed' = Append(completed, Head(packets).index)
      BY <1>1 DEF SequenceHeader
    <3>3. packets' = packets \/ packets' = Tail(packets)
      BY <1>1 DEF SequenceHeader
    <3>4. completed' \in Seq(Inputs)
      BY <1>0, <3>1, <3>2
    <3>5. packets' \in Seq(Packets)
      BY <1>0, <3>1, <3>3
    <3> QED BY <3>4, <3>5
  <2>2. /\ size' \in Sizes \cup {0} /\ sourceKnown' \in BOOLEAN /\ sourceChange' \in BOOLEAN
        /\ captureOn' \in BOOLEAN /\ worker' \in {"sequence", "connect"} /\ event' \in BOOLEAN
    BY <1>1, <1>0 DEF SequenceHeader, Announce, Signal
  <2> QED BY <1>1, <2>1, <2>2 DEF SequenceHeader
<1>2. CASE Connect
  BY <1>2 DEF Connect
<1>3. CASE Submit
  <2>1. pendingStamps' \subseteq Stamps /\ Cardinality(pendingStamps') <= MaxPending
    BY <1>0, <1>3, PendingFits DEF Submit
  <2> QED BY <1>0, <1>3, <2>1, ZenonT(30) DEF Submit, Streaming
<1>4. CASE Poll
  BY <1>4 DEF Poll, Streaming
<1>5. ASSUME Complete  PROVE completed' \in Seq(Inputs)
  BY <1>5, PacketParts DEF Complete
<1>6. CASE Break
  <2>1. completed' \in Seq(Inputs)
    BY <1>5, <1>6 DEF Break
  <2> QED BY <1>6, <2>1, ZenonT(30) DEF Break, Signal
<1>7. ASSUME NEW a, Store(a), sequence + 1 <= MaxPackets
      PROVE  /\ worker' \in {"loop", "ending"} /\ sequence' \in 0 .. MaxPackets
             /\ pendingStamps' \subseteq Stamps /\ Cardinality(pendingStamps') <= MaxPending
             /\ capture' \in [Captures -> Buffers]
  <2>1. sequence' \in 0 .. MaxPackets
    BY <1>7, Stores
  <2>2. pendingStamps' \subseteq Stamps /\ Cardinality(pendingStamps') <= MaxPending
    BY <1>7, Stores, FewerStamps
  <2>3. capture' \in [Captures -> Buffers]
    <3>1. CASE capture' = capture
      BY <3>1
    <3>2. ASSUME NEW i \in Captures, capture' = [capture EXCEPT ![i].frame = sequence + 1]
          PROVE  capture' \in [Captures -> Buffers]
      <4>1. [capture[i] EXCEPT !.frame = sequence + 1] \in Buffers
        <5>1. sequence + 1 \in 0 .. MaxPackets /\ capture[i] \in Buffers
          BY <1>7
        <5> QED BY <5>1, BufferParts
      <4> QED BY <3>2, <4>1
    <3> QED BY <1>7, <3>1, <3>2, Stores
  <2> QED BY <1>7, <2>1, <2>2, <2>3, Stores
<1>8. ASSUME NEW a \in Answers, Answer(a)
      PROVE  VideoTypeOK'
  <2>1. inside' \in Seq(Stamps) /\ decoded' \in Sizes \cup {0}
    BY <1>8, ExchangedLeft DEF Answer
  <2>2. completed' \in Seq(Inputs) /\ event' \in BOOLEAN /\ hand' = NoPacket
    BY <1>5, <1>8 DEF Answer, Signal
  <2>3. worker = "exchange" /\ answer = Accepted
    BY <1>8 DEF Answer
  <2>4. CASE /\ Changes(a)
             /\ Announce(a.size)
             /\ worker' = "format" /\ answer' = a
             /\ UNCHANGED <<capture, pendingStamps, sequence>>
    <3>1. a # Accepted /\ a.size \in Sizes \cup {0}
      BY <2>4 DEF Changes, Accepted, Answers
    <3> QED BY <1>8, <2>1, <2>2, <2>4, <3>1 DEF Answer, Announce
  <2>5. CASE /\ ~ Changes(a) /\ a.kind = "frame"
             /\ Store(a)
             /\ UNCHANGED <<source, captureOn, answer>>
    <3>1. sequence + 1 <= MaxPackets
      <4>1. Len(inside') + 1 <= Len(inside) + InHand /\ Len(inside') \in Nat
        BY <1>8, <2>1, <2>5, ExchangedLeft DEF Answer
      <4> QED BY <4>1, Room
    <3> QED BY <1>7, <1>8, <2>1, <2>2, <2>3, <2>5, <3>1 DEF Answer
  <2>6. CASE /\ ~ Changes(a) /\ a.kind # "frame"
             /\ worker' = "loop"
             /\ UNCHANGED <<source, captureOn, answer, capture, pendingStamps, sequence>>
    BY <1>8, <2>1, <2>2, <2>3, <2>6 DEF Answer
  <2> QED BY <1>8, <2>4, <2>5, <2>6 DEF Answer
<1>9. CASE Resume
  <2>1. worker = "format" /\ answer' = Accepted /\ event' \in BOOLEAN /\ Accepted \in Answers
    BY <1>9 DEF Resume, Signal, Answers, Accepted
  <2>2. /\ worker' \in {"loop", "ending"} /\ sequence' \in 0 .. MaxPackets
        /\ pendingStamps' \subseteq Stamps /\ Cardinality(pendingStamps') <= MaxPending
        /\ capture' \in [Captures -> Buffers]
    <3>1. CASE answer.kind = "frame" /\ ~stopping
      <4>1. Store(answer) /\ Carried1 = 1
        BY <1>9, <3>1 DEF Resume, Carried1
      <4> QED BY <1>7, <4>1, Room
    <3>2. CASE ~(answer.kind = "frame" /\ ~stopping)
      BY <1>9, <3>2 DEF Resume
    <3> QED BY <3>1, <3>2
  <2> QED BY <1>9, <2>1, <2>2 DEF Resume
<1>10. CASE Stop
  BY <1>10 DEF Stop
<1>11. CASE End
  BY <1>11 DEF End, Signal
<1> QED BY <1>1, <1>2, <1>3, <1>4, <1>6, <1>8, <1>9, <1>10, <1>11 DEF Worker

\* What is behind an appended element.
LEMMA Back1 ==
  ASSUME NEW S, NEW q \in Seq(S), NEW e \in S
  PROVE  /\ Append(q, e) \in Seq(S) /\ Len(Append(q, e)) = Len(q) + 1 /\ Len(q) \in Nat
         /\ DOMAIN q = 1 .. Len(q) /\ DOMAIN Append(q, e) = 1 .. (Len(q) + 1)
         /\ \A a \in DOMAIN q : Append(q, e)[a] = q[a] /\ a # Len(q) + 1
         /\ Append(q, e)[Len(q) + 1] = e
OBVIOUS

LEMMA SpentStep ==
  ASSUME VideoInv, VideoNext
  PROVE  Spent'
<1>0. /\ VideoTypeOK /\ Spent /\ Len(inside) \in Nat /\ Len(packets) \in Nat /\ sequence \in Nat
      /\ InHand \in {0, 1} /\ Carried1 \in {0, 1} /\ stamp \in Nat
      /\ sequence + Carried1 + Len(inside) + InHand + Len(packets) <= stamp
  BY Room, StampFacts DEF VideoInv, Spent
<1> USE DEF settings, streams, source, queues, android, player
<1>1. ASSUME UNCHANGED <<sequence, inside, packets, stamp, hand, answer>>,
             worker' = "format" => worker = "format"
      PROVE  Spent'
  <2>1. Carried1' <= Carried1 /\ InHand' = InHand /\ Carried1' \in {0, 1}
    BY <1>1 DEF Carried1, InHand
  <2> QED BY <1>0, <1>1, <2>1 DEF Spent
<1>2. CASE CloseReturns
  <2>1. worker' # "format" /\ hand = NoPacket
    BY <1>0, <1>2 DEF CloseReturns, VideoTypeOK
  <2>2. Carried1' = 0 /\ InHand' = 0
    BY <1>2, <2>1 DEF CloseReturns, Carried1, InHand
  <2> QED BY <1>2, <2>2 DEF CloseReturns, Spent
<1>3. ASSUME NEW i \in Inputs, NEW header \in Sizes \cup {0}, QueueInput(i, header)
      PROVE  Spent'
  <2>1. Len(packets') = Len(packets) + 1 /\ stamp' = stamp + 1
    <3>1. packets \in Seq(Packets)
      BY <1>0 DEF VideoTypeOK
    <3> QED BY <1>3, <3>1 DEF QueueInput
  <2>2. Carried1' = Carried1 /\ InHand' = InHand /\ sequence' = sequence /\ inside' = inside
    BY <1>3 DEF QueueInput, Carried1, InHand
  <2> QED BY <1>0, <2>1, <2>2 DEF Spent
<1>4. ASSUME NEW queue \in {"output", "capture"}, StreamOff(queue)
      PROVE  Spent'
  <2>1. Len(packets') \in Nat /\ Len(packets') <= Len(packets)
    <3>1. packets' = packets \/ packets' = <<>>
      BY <1>4 DEF StreamOff
    <3>2. Len(<<>>) = 0
      OBVIOUS
    <3> QED BY <1>0, <3>1, <3>2
  <2>2. /\ Carried1' = Carried1 /\ InHand' = InHand
       /\ sequence' = sequence /\ inside' = inside /\ stamp' = stamp
    BY <1>4 DEF StreamOff, Carried1, InHand
  <2> QED BY <1>0, <2>1, <2>2 DEF Spent
<1>5. CASE SequenceHeader
  <2>1. Len(packets') \in Nat /\ Len(packets') <= Len(packets)
    <3>1. packets \in Seq(Packets) /\ packets # <<>>
      BY <1>0, <1>5 DEF SequenceHeader, VideoTypeOK
    <3>2. packets' = packets \/ packets' = Tail(packets)
      BY <1>5 DEF SequenceHeader
    <3> QED BY <1>0, <3>1, <3>2, Front
  <2>2. InHand' = InHand /\ sequence' = sequence /\ inside' = inside /\ stamp' = stamp
    BY <1>5 DEF SequenceHeader, InHand
  <2>3. Carried1' = 0 /\ Carried1 = 0
    BY <1>5 DEF SequenceHeader, Carried1
  <2> QED BY <1>0, <2>1, <2>2, <2>3 DEF Spent
<1>6. CASE Submit
  <2>1. packets \in Seq(Packets) /\ packets # <<>> /\ packets' = Tail(packets) /\ worker = "loop"
    BY <1>0, <1>6 DEF Submit, Streaming, VideoTypeOK
  <2>2. Len(packets') = Len(packets) - 1
    BY <2>1, Front
  <2>3. InHand = 0 /\ InHand' \in {0, 1}
    BY <1>0, <2>1 DEF VideoTypeOK, InHand
  <2>4. Carried1' = 0 /\ Carried1 = 0 /\ sequence' = sequence /\ inside' = inside /\ stamp' = stamp
    BY <1>6, <2>1 DEF Submit, Carried1
  <2> QED BY <1>0, <2>2, <2>3, <2>4 DEF Spent
<1>7. CASE Break
  <2>1. InHand' = 0 /\ Carried1' = 0
    BY <1>7 DEF Break, InHand, Carried1
  <2>2. UNCHANGED <<sequence, inside, packets, stamp>>
    BY <1>7 DEF Break
  <2> QED BY <1>0, <2>1, <2>2 DEF Spent
<1>8. ASSUME NEW a \in Answers, Answer(a)
      PROVE  Spent'
  <2>1. /\ inside' \in Seq(Stamps) /\ Len(inside') <= Len(inside) + InHand
        /\ a.kind = "frame" => Len(inside') + 1 <= Len(inside) + InHand
    BY <1>0, <1>8, ExchangedLeft DEF Answer
  <2>2. /\ worker = "exchange" /\ hand' = NoPacket /\ packets' = packets /\ stamp' = stamp
        /\ Len(inside') \in Nat
    BY <1>8, <2>1 DEF Answer
  <2>3. InHand' = 0 /\ Carried1 = 0
    BY <2>2 DEF InHand, Carried1
  <2>4. CASE worker' = "format" /\ answer' = a /\ UNCHANGED <<capture, pendingStamps, sequence>>
    <3>1. Carried1' = IF a.kind = "frame" THEN 1 ELSE 0
      BY <2>4 DEF Carried1
    <3> QED BY <1>0, <2>1, <2>2, <2>3, <2>4, <3>1 DEF Spent
  <2>5. CASE a.kind = "frame" /\ Store(a)
    <3>1. sequence' \in {sequence, sequence + 1} /\ worker' \in {"loop", "ending"}
      BY <1>0, <2>5, Stores
    <3>2. Carried1' = 0
      BY <3>1 DEF Carried1
    <3> QED BY <1>0, <2>1, <2>2, <2>3, <2>5, <3>1, <3>2 DEF Spent
  <2>6. CASE worker' = "loop" /\ UNCHANGED sequence
    <3>1. Carried1' = 0
      BY <2>6 DEF Carried1
    <3> QED BY <1>0, <2>1, <2>2, <2>3, <2>6, <3>1 DEF Spent
  <2> QED BY <1>8, <2>4, <2>5, <2>6 DEF Answer
<1>9. CASE Resume
  <2>1. answer' = Accepted /\ worker = "format" /\ UNCHANGED <<hand, inside, packets, stamp>>
    BY <1>9 DEF Resume
  <2>2. Carried1' = 0 /\ InHand' = InHand
    BY <2>1 DEF Carried1, InHand, Accepted
  <2>3. sequence' \in {sequence, sequence + 1} /\ (sequence' # sequence => answer.kind = "frame")
    BY <1>0, <1>9, Stores DEF Resume
  <2>4. answer.kind = "frame" => Carried1 = 1
    BY <2>1 DEF Carried1
  <2> QED BY <1>0, <2>1, <2>2, <2>3, <2>4 DEF Spent
<1>10. CASE \/ Open \/ CloseDevice \/ DequeueInput \/ DequeueCapture \/ DequeueEvent
            \/ \E i \in Captures : QueueCapture(i)
            \/ \E queue \in {"output", "capture"} : StreamOn(queue)
  BY <1>1, <1>10 DEF Open, CloseDevice, DequeueInput, DequeueCapture, TakeCapture,
       DequeueEvent, QueueCapture, StreamOn
<1>11. CASE Connect \/ Poll \/ Stop \/ End
  BY <1>1, <1>11 DEF Connect, Poll, Stop, End
<1> QED BY <1>2, <1>3, <1>4, <1>5, <1>6, <1>7, <1>8, <1>9, <1>10, <1>11 DEF VideoNext,
       Worker, Player

(* Whoever changes what there is to tell, tells it: other steps add nothing. *)
LEMMA WakeStep ==
  ASSUME VideoInv, VideoNext
  PROVE  ClosedIsIdle' /\ EventNotLost'
<1> USE DEF settings, streams, source, queues, android, player, stateful
<1>0. ClosedIsIdle /\ EventNotLost /\ VideoTypeOK
  BY DEF VideoInv
<1>1. ASSUME device' = device \/ device' = "closing", device # "closed", mode' = mode,
             Signal \/ (event' = event /\ (Ready' => Ready))
      PROVE  ClosedIsIdle' /\ EventNotLost'
  <2>1. ClosedIsIdle'
    BY <1>1 DEF ClosedIsIdle
  <2>2. CASE Signal
    <3>1. stateful' => stateful
      BY <1>1
    <3> HIDE DEF stateful
    <3> QED BY <2>1, <2>2, <3>1, Zenon DEF EventNotLost, Signal
  <2>3. CASE event' = event /\ (Ready' => Ready)
    <3>1. stateful' => stateful
      BY <1>1
    <3>2. device = "open" \/ device' # "open"
      BY <1>1
    <3> HIDE DEF stateful
    <3> QED BY <1>0, <2>1, <2>3, <3>1, <3>2, Zenon DEF EventNotLost
  <2> QED BY <1>1, <2>1, <2>2, <2>3
<1>2. CASE Open
  <2>1. ~Ready /\ worker = "none" /\ UNCHANGED <<failed, sourceChange, completed, capture>> /\ device' = "open"
    BY <1>0, <1>2 DEF Open, ClosedIsIdle
  <2>2. ~Ready'
    BY <2>1 DEF Ready
  <2> QED BY <2>1, <2>2 DEF ClosedIsIdle, EventNotLost
<1>3. CASE CloseReturns
  <2>1. ~Ready'
    BY <1>3 DEF CloseReturns, Ready
  <2> QED BY <1>3, <2>1 DEF CloseReturns, ClosedIsIdle, EventNotLost
<1>4. ASSUME UNCHANGED <<failed, sourceChange, completed>>,
             \A i \in Captures : capture'[i].frame # 0 => capture[i].frame # 0
      PROVE  Ready' => Ready
  BY <1>4 DEF Ready
<1>5. CASE CloseDevice \/ DequeueInput \/ DequeueCapture \/ DequeueEvent
  BY <1>1, <1>4, <1>5 DEF CloseDevice, DequeueInput, DequeueCapture, TakeCapture,
       DequeueEvent
<1>6. ASSUME NEW i \in Inputs, NEW header \in Sizes \cup {0}, QueueInput(i, header)
      PROVE  ClosedIsIdle' /\ EventNotLost'
  BY <1>1, <1>4, <1>6 DEF QueueInput
<1>7. ASSUME NEW i \in Captures, QueueCapture(i)
      PROVE  ClosedIsIdle' /\ EventNotLost'
  <2>1. capture' = [capture EXCEPT ![i] = [queued |-> TRUE, frame |-> 0, length |-> size]]
    BY <1>7 DEF QueueCapture
  <2>2. \A j \in Captures : capture'[j].frame # 0 => capture[j].frame # 0
    BY <1>0, <2>1 DEF VideoTypeOK
  <2> QED BY <1>1, <1>4, <1>7, <2>2 DEF QueueCapture
<1>8. ASSUME NEW queue \in {"output", "capture"}, StreamOn(queue)
      PROVE  ClosedIsIdle' /\ EventNotLost'
  BY <1>1, <1>4, <1>8 DEF StreamOn
<1>9. ASSUME NEW queue \in {"output", "capture"}, StreamOff(queue)
      PROVE  ClosedIsIdle' /\ EventNotLost'
  <2>1. \A i \in Captures : capture'[i].frame # 0 => capture[i].frame # 0
    <3>1. \A i \in Captures : [capture[i] EXCEPT !.queued = FALSE, !.frame = 0].frame = 0
      BY <1>0 DEF VideoTypeOK, Buffers
    <3> QED BY <1>9, <3>1 DEF StreamOff
  <2>2. Ready' => Ready
    BY <1>9, <2>1 DEF StreamOff, Ready
  <2> QED BY <1>1, <1>9, <2>2 DEF StreamOff
<1>10. CASE Worker
  <2>1. worker # "none" /\ UNCHANGED <<device, mode>>
    BY <1>10 DEF Worker, SequenceHeader, Connect, Submit, Poll, Streaming, Break, Resume,
       Stop, End, Answer
  <2>2. device # "closed"
    BY <1>0, <2>1 DEF ClosedIsIdle
  <2>3. CASE SequenceHeader
    BY <1>1, <1>4, <2>1, <2>2, <2>3 DEF SequenceHeader
  <2>4. CASE Connect \/ Submit \/ Poll \/ Stop
    BY <1>1, <1>4, <2>1, <2>2, <2>4 DEF Connect, Submit, Poll, Stop
  <2>5. CASE Break
    BY <1>1, <1>4, <2>1, <2>2, <2>5 DEF Break
  <2>6. CASE Resume
    BY <1>1, <1>4, <2>1, <2>2, <2>6 DEF Resume
  <2>7. CASE End
    BY <1>1, <2>1, <2>2, <2>7 DEF End
  <2>8. ASSUME NEW a \in Answers, Answer(a)
        PROVE  ClosedIsIdle' /\ EventNotLost'
    <3>1. ~Changes(a) => sourceChange' = sourceChange
      BY <2>8 DEF Answer
    <3> QED BY <1>1, <1>4, <2>1, <2>2, <2>8, <3>1 DEF Answer
  <2> QED BY <1>10, <2>3, <2>4, <2>5, <2>6, <2>7, <2>8 DEF Worker
<1> QED BY <1>2, <1>3, <1>5, <1>6, <1>7, <1>8, <1>9, <1>10 DEF VideoNext, Player

(* A picture that is stored is newer than all; one that is taken is the     *)
(* oldest of those that wait.                                               *)
LEMMA StoreAhead ==
  ASSUME VideoTypeOK, FramesAhead, shown' = shown, sequence' \in {sequence, sequence + 1},
         \/ capture' = capture
         \/ \E i \in Captures : /\ capture' = [capture EXCEPT ![i].frame = sequence + 1]
                                /\ sequence' = sequence + 1
  PROVE  FramesAhead'
<1>0. /\ capture \in [Captures -> Buffers] /\ sequence \in Nat /\ shown \in Nat
      /\ \A i \in Captures : capture[i] \in Buffers /\ capture[i].frame \in Nat
  <2>1. /\ capture \in [Captures -> Buffers] /\ sequence \in 0 .. MaxPackets
        /\ shown \in 0 .. MaxPackets
    BY DEF VideoTypeOK
  <2>2. \A n \in 0 .. MaxPackets : n \in Nat
    BY StampFacts
  <2> QED BY <2>1, <2>2, BufferParts
<1>1. CASE capture' = capture
  BY <1>0, <1>1 DEF FramesAhead
<1>2. ASSUME NEW i \in Captures, capture' = [capture EXCEPT ![i].frame = sequence + 1],
             sequence' = sequence + 1
      PROVE  FramesAhead'
  <2>1. /\ capture'[i].frame = sequence + 1
        /\ \A j \in Captures : j # i => capture'[j] = capture[j]
    <3>1. [capture[i] EXCEPT !.frame = sequence + 1].frame = sequence + 1
      BY <1>0 DEF Buffers
    <3> QED BY <1>0, <1>2, <3>1
  <2>2. \A j \in Captures : capture'[j].frame # 0 =>
          shown < capture'[j].frame /\ capture'[j].frame <= sequence + 1
    BY <1>0, <2>1 DEF FramesAhead
  <2>3. \A j, k \in Captures : capture'[j].frame # 0 /\ capture'[j].frame = capture'[k].frame => j = k
    BY <1>0, <2>1 DEF FramesAhead
  <2> QED BY <1>0, <1>2, <2>2, <2>3 DEF FramesAhead
<1> QED BY <1>1, <1>2

LEMMA AheadStep ==
  ASSUME VideoInv, VideoNext
  PROVE  FramesAhead' /\ (shown' # shown /\ shown' # 0 => shown' > shown)
<1> USE DEF settings, streams, source, queues, android, player
<1>0. /\ VideoTypeOK /\ FramesAhead
      /\ capture \in [Captures -> Buffers] /\ sequence \in Nat /\ shown \in Nat
      /\ \A i \in Captures : capture[i] \in Buffers /\ capture[i].frame \in Nat
  <2>1. /\ VideoTypeOK /\ FramesAhead
        /\ capture \in [Captures -> Buffers] /\ sequence \in 0 .. MaxPackets
        /\ shown \in 0 .. MaxPackets
    BY DEF VideoInv, VideoTypeOK
  <2>2. \A n \in 0 .. MaxPackets : n \in Nat
    BY StampFacts
  <2> QED BY <2>1, <2>2, BufferParts
<1>1. ASSUME UNCHANGED <<capture, shown, sequence>>
      PROVE  FramesAhead' /\ (shown' # shown /\ shown' # 0 => shown' > shown)
  BY <1>0, <1>1 DEF FramesAhead
<1>2. ASSUME UNCHANGED <<shown, sequence>>, DOMAIN capture' = Captures,
             \A i \in Captures : capture'[i].frame \in {0, capture[i].frame}
      PROVE  FramesAhead' /\ (shown' # shown /\ shown' # 0 => shown' > shown)
  BY <1>0, <1>2 DEF FramesAhead
<1>3. CASE CloseReturns
  BY <1>3 DEF CloseReturns, FramesAhead
<1>4. CASE DequeueCapture
  <2>1. /\ ReadyCaptures \subseteq Captures /\ ReadyCaptures # {}
        /\ TakeCapture(Oldest(ReadyCaptures))
    BY <1>4 DEF DequeueCapture, ReadyCaptures
  <2>2. /\ Oldest(ReadyCaptures) \in ReadyCaptures
        /\ \A j \in ReadyCaptures : capture[Oldest(ReadyCaptures)].frame <= capture[j].frame
    BY <1>0, <2>1, OldestOf
  <2>3. PICK i \in Captures : /\ capture[i].frame # 0 /\ TakeCapture(i)
                              /\ \A j \in Captures : capture[j].frame # 0 => capture[i].frame <= capture[j].frame
    BY <2>1, <2>2 DEF ReadyCaptures
  <2>4. /\ shown' = capture[i].frame /\ sequence' = sequence
        /\ capture'[i].frame = 0
        /\ \A j \in Captures : j # i => capture'[j] = capture[j]
    <3>1. capture' = [capture EXCEPT ![i] = [[capture[i] EXCEPT !.queued = FALSE] EXCEPT !.frame = 0]]
      BY <2>3 DEF TakeCapture
    <3>2. [[capture[i] EXCEPT !.queued = FALSE] EXCEPT !.frame = 0].frame = 0
      BY <1>0 DEF Buffers
    <3> QED BY <1>0, <2>3, <3>1, <3>2 DEF TakeCapture
  <2>5. shown < shown' /\ shown' <= sequence
    BY <1>0, <2>3, <2>4 DEF FramesAhead
  <2>6. \A j \in Captures : capture'[j].frame # 0 => shown' < capture'[j].frame /\ capture'[j].frame <= sequence
    <3> SUFFICES ASSUME NEW j \in Captures, capture'[j].frame # 0
                 PROVE  shown' < capture'[j].frame /\ capture'[j].frame <= sequence
      OBVIOUS
    <3>1. j # i /\ capture'[j] = capture[j] /\ capture[j].frame # 0
      BY <2>4
    <3>2. capture[i].frame <= capture[j].frame /\ capture[i].frame # capture[j].frame
      BY <1>0, <2>3, <3>1 DEF FramesAhead
    <3>3. capture[j].frame <= sequence
      BY <1>0, <3>1 DEF FramesAhead
    <3> QED BY <1>0, <2>4, <3>1, <3>2, <3>3
  <2>7. \A j, k \in Captures : capture'[j].frame # 0 /\ capture'[j].frame = capture'[k].frame => j = k
    BY <1>0, <2>4 DEF FramesAhead
  <2>8. shown' \in Nat
    BY <1>0, <2>3, <2>4
  <2> QED BY <1>0, <2>4, <2>5, <2>6, <2>7, <2>8 DEF FramesAhead
<1>5. ASSUME NEW i \in Captures, QueueCapture(i)
      PROVE  FramesAhead' /\ (shown' # shown /\ shown' # 0 => shown' > shown)
  <2>1. capture' = [capture EXCEPT ![i] = [queued |-> TRUE, frame |-> 0, length |-> size]]
    BY <1>5 DEF QueueCapture
  <2>2. DOMAIN capture' = Captures /\ \A j \in Captures : capture'[j].frame \in {0, capture[j].frame}
    BY <1>0, <2>1
  <2> QED BY <1>2, <1>5, <2>2 DEF QueueCapture
<1>6. ASSUME NEW queue \in {"output", "capture"}, StreamOff(queue)
      PROVE  FramesAhead' /\ (shown' # shown /\ shown' # 0 => shown' > shown)
  <2>1. \A i \in Captures : [capture[i] EXCEPT !.queued = FALSE, !.frame = 0].frame = 0
    BY <1>0 DEF Buffers
  <2>2. DOMAIN capture' = Captures /\ \A i \in Captures : capture'[i].frame \in {0, capture[i].frame}
    BY <1>0, <1>6, <2>1 DEF StreamOff
  <2> QED BY <1>2, <1>6, <2>2 DEF StreamOff
<1>7. ASSUME NEW a \in Answers, Answer(a)
      PROVE  FramesAhead' /\ (shown' # shown /\ shown' # 0 => shown' > shown)
  <2>1. shown' = shown
    BY <1>7 DEF Answer
  <2>2. CASE UNCHANGED <<capture, sequence>>
    BY <1>1, <2>1, <2>2
  <2>3. CASE Store(a)
    BY <1>0, <2>1, <2>3, Stores, StoreAhead
  <2> QED BY <1>7, <2>2, <2>3 DEF Answer
<1>8. CASE Resume
  <2>1. shown' = shown
    BY <1>8 DEF Resume
  <2>2. CASE UNCHANGED <<capture, sequence>>
    BY <1>1, <2>1, <2>2
  <2>3. CASE Store(answer)
    BY <1>0, <2>1, <2>3, Stores, StoreAhead
  <2> QED BY <1>8, <2>2, <2>3 DEF Resume
<1>9. CASE \/ Open \/ CloseDevice \/ DequeueInput \/ DequeueEvent
           \/ \E i \in Inputs, header \in Sizes \cup {0} : QueueInput(i, header)
           \/ \E queue \in {"output", "capture"} : StreamOn(queue)
  BY <1>1, <1>9 DEF Open, CloseDevice, DequeueInput, DequeueEvent, QueueInput, StreamOn
<1>10. CASE SequenceHeader \/ Connect \/ Submit \/ Poll \/ Break \/ Stop \/ End
  BY <1>1, <1>10 DEF SequenceHeader, Connect, Submit, Poll, Break, Stop, End
<1> QED BY <1>3, <1>4, <1>5, <1>6, <1>7, <1>8, <1>9, <1>10 DEF VideoNext, Worker, Player

(* The encoded buffers move one at a time: into the queue, into the hand of *)
(* the worker, to the completed ones and back to the player.                *)
LEMMA QueuedApart ==
  ASSUME NEW q \in Seq(Packets), NEW c \in Seq(Inputs), NEW h \in Packets \cup {NoPacket},
         NEW m \in SUBSET Inputs, Apart(q, c, h, m), NEW p \in Packets, p.index \in m
  PROVE  Apart(Append(q, p), c, h, m \ {p.index})
<1> DEFINE q1 == Append(q, p)
<1>1. /\ DOMAIN q = 1 .. Len(q) /\ DOMAIN q1 = 1 .. (Len(q) + 1) /\ Len(q) \in Nat
      /\ \A a \in DOMAIN q : q1[a] = q[a] /\ a # Len(q) + 1 /\ a \in DOMAIN q1
      /\ q1[Len(q) + 1] = p /\ Len(q) + 1 \in DOMAIN q1
  BY Back1
<1>2. \A a \in DOMAIN q1 : a = Len(q) + 1 \/ a \in DOMAIN q
  BY <1>1
<1>3. p.index \in Inputs
  BY PacketParts
<1>4. /\ \A a \in DOMAIN q : q[a].index # p.index
      /\ \A b \in DOMAIN c : c[b] # p.index
      /\ h # NoPacket => h.index # p.index
  BY <1>3 DEF Apart
<1> HIDE DEF q1
<1>5. \A a, b \in DOMAIN q1 : q1[a].index = q1[b].index => a = b
  BY <1>1, <1>2, <1>4 DEF Apart
<1>6. \A a \in DOMAIN q1, b \in DOMAIN c : q1[a].index # c[b]
  BY <1>1, <1>2, <1>4 DEF Apart
<1>7. h # NoPacket => \A a \in DOMAIN q1 : q1[a].index # h.index
  BY <1>1, <1>2, <1>4 DEF Apart
<1>8. \A i \in Inputs : (\A a \in DOMAIN q1 : q1[a].index # i)
                          <=> (\A a \in DOMAIN q : q[a].index # i) /\ p.index # i
  BY <1>1, <1>2
<1>9. \A i \in Inputs : i \in m \ {p.index} <=> /\ \A a \in DOMAIN q1 : q1[a].index # i
                                                /\ \A b \in DOMAIN c : c[b] # i
                                                /\ h # NoPacket => h.index # i
  BY <1>8 DEF Apart
<1> QED BY <1>5, <1>6, <1>7, <1>9 DEF Apart, q1

LEMMA ReturnedApart ==
  ASSUME NEW q \in Seq(Packets), NEW c \in Seq(Inputs), NEW h \in Packets \cup {NoPacket},
         NEW m \in SUBSET Inputs, Apart(q, c, h, m), c # <<>>
  PROVE  Apart(q, Tail(c), h, m \cup {Head(c)})
<1> DEFINE c1 == Tail(c)
<1>1. /\ Head(c) \in Inputs /\ Head(c) = c[1] /\ 1 \in DOMAIN c
      /\ \A a \in DOMAIN c1 : a + 1 \in DOMAIN c /\ a + 1 # 1 /\ c1[a] = c[a + 1]
      /\ DOMAIN c1 = 1 .. (Len(c) - 1) /\ DOMAIN c = 1 .. Len(c) /\ Len(c) \in Nat
  BY Front
<1>2. \A b \in DOMAIN c : b = 1 \/ (b - 1 \in DOMAIN c1 /\ c1[b - 1] = c[b])
  BY <1>1
<1>3. \A a, b \in DOMAIN c1 : a + 1 = b + 1 => a = b
  BY <1>1
<1> HIDE DEF c1
<1>4. \A a, b \in DOMAIN c1 : c1[a] = c1[b] => a = b
  BY <1>1, <1>3 DEF Apart
<1>5. \A a \in DOMAIN q, b \in DOMAIN c1 : q[a].index # c1[b]
  BY <1>1 DEF Apart
<1>6. h # NoPacket => /\ \A a \in DOMAIN q : q[a].index # h.index
                      /\ \A b \in DOMAIN c1 : c1[b] # h.index
  BY <1>1 DEF Apart
<1>7. \A i \in Inputs : (\A b \in DOMAIN c : c[b] # i) <=> (\A b \in DOMAIN c1 : c1[b] # i) /\ Head(c) # i
  BY <1>1, <1>2, SMTT(30)
<1>8. /\ \A a \in DOMAIN q : q[a].index # Head(c)
      /\ \A b \in DOMAIN c1 : c1[b] # Head(c)
      /\ h # NoPacket => h.index # Head(c)
  BY <1>1 DEF Apart
<1>9. \A i \in Inputs : i \in m \cup {Head(c)} <=> /\ \A a \in DOMAIN q : q[a].index # i
                                                   /\ \A b \in DOMAIN c1 : c1[b] # i
                                                   /\ h # NoPacket => h.index # i
  BY <1>7, <1>8 DEF Apart
<1> QED BY <1>4, <1>5, <1>6, <1>9 DEF Apart, c1

LEMMA TakenApart ==
  ASSUME NEW q \in Seq(Packets), NEW c \in Seq(Inputs),
         NEW m \in SUBSET Inputs, Apart(q, c, NoPacket, m), q # <<>>
  PROVE  Apart(Tail(q), c, Head(q), m)
<1> DEFINE q1 == Tail(q)
           h == Head(q)
<1>1. /\ h \in Packets /\ h = q[1] /\ 1 \in DOMAIN q
      /\ \A a \in DOMAIN q1 : a + 1 \in DOMAIN q /\ a + 1 # 1 /\ q1[a] = q[a + 1]
      /\ DOMAIN q1 = 1 .. (Len(q) - 1) /\ DOMAIN q = 1 .. Len(q) /\ Len(q) \in Nat
  BY Front
<1>2. \A b \in DOMAIN q : b = 1 \/ (b - 1 \in DOMAIN q1 /\ q1[b - 1] = q[b])
  BY <1>1
<1>3. \A a, b \in DOMAIN q1 : a + 1 = b + 1 => a = b
  BY <1>1
<1>4. h # NoPacket
  BY <1>1, Zeroes
<1> HIDE DEF q1, h
<1>5. \A a, b \in DOMAIN q1 : q1[a].index = q1[b].index => a = b
  BY <1>1, <1>3 DEF Apart
<1>6. \A a \in DOMAIN q1, b \in DOMAIN c : q1[a].index # c[b]
  BY <1>1 DEF Apart
<1>7. /\ \A a \in DOMAIN q1 : q1[a].index # h.index
      /\ \A b \in DOMAIN c : c[b] # h.index
  BY <1>1 DEF Apart
<1>8. \A i \in Inputs : (\A b \in DOMAIN q : q[b].index # i)
                          <=> (\A b \in DOMAIN q1 : q1[b].index # i) /\ h.index # i
  BY <1>1, <1>2
<1>9. \A i \in Inputs : i \in m <=> /\ \A a \in DOMAIN q1 : q1[a].index # i
                                    /\ \A b \in DOMAIN c : c[b] # i
                                    /\ h # NoPacket => h.index # i
  BY <1>4, <1>8 DEF Apart
<1> QED
  <2>1. \A a, b \in DOMAIN c : c[a] = c[b] => a = b
    BY DEF Apart
  <2>2. Apart(q1, c, h, m)
    BY <1>5, <1>6, <1>7, <1>9, <2>1 DEF Apart
  <2> QED BY <2>2 DEF q1, h

LEMMA CompletedApart ==
  ASSUME NEW q \in Seq(Packets), NEW c \in Seq(Inputs), NEW h \in Packets,
         NEW m \in SUBSET Inputs, Apart(q, c, h, m)
  PROVE  Apart(q, Append(c, h.index), NoPacket, m)
<1> DEFINE e == h.index
           c1 == Append(c, e)
<1>1. e \in Inputs /\ h # NoPacket
  BY PacketParts, Zeroes
<1>2. /\ DOMAIN c = 1 .. Len(c) /\ DOMAIN c1 = 1 .. (Len(c) + 1) /\ Len(c) \in Nat
      /\ \A a \in DOMAIN c : c1[a] = c[a] /\ a # Len(c) + 1 /\ a \in DOMAIN c1
      /\ c1[Len(c) + 1] = e /\ Len(c) + 1 \in DOMAIN c1
  BY <1>1, Back1
<1>3. \A a \in DOMAIN c1 : a = Len(c) + 1 \/ a \in DOMAIN c
  BY <1>2
<1>4. /\ \A a \in DOMAIN q : q[a].index # e
      /\ \A b \in DOMAIN c : c[b] # e
  BY <1>1 DEF Apart
<1>5. \A a, b \in DOMAIN q : q[a].index = q[b].index => a = b
  BY DEF Apart
<1>6. \A i \in Inputs : i \in m <=> /\ \A a \in DOMAIN q : q[a].index # i
                                    /\ \A b \in DOMAIN c : c[b] # i
                                    /\ e # i
  BY <1>1 DEF Apart
<1>7. \A a \in DOMAIN q, b \in DOMAIN c : q[a].index # c[b]
  BY DEF Apart
<1>8. \A a, b \in DOMAIN c : c[a] = c[b] => a = b
  BY DEF Apart
<1> HIDE DEF c1, e
<1>9. \A a, b \in DOMAIN c1 : c1[a] = c1[b] => a = b
  BY <1>2, <1>3, <1>4, <1>8
<1>10. \A a \in DOMAIN q, b \in DOMAIN c1 : q[a].index # c1[b]
  BY <1>2, <1>3, <1>4, <1>7
<1>11. \A i \in Inputs : (\A b \in DOMAIN c1 : c1[b] # i) <=> (\A b \in DOMAIN c : c[b] # i) /\ e # i
  BY <1>2, <1>3
<1>12. \A i \in Inputs : i \in m <=> /\ \A a \in DOMAIN q : q[a].index # i
                                     /\ \A b \in DOMAIN c1 : c1[b] # i
  BY <1>6, <1>11
<1>13. Apart(q, c1, NoPacket, m)
  BY <1>5, <1>9, <1>10, <1>12 DEF Apart
<1> QED BY <1>13 DEF c1, e

LEMMA NothingApart == Apart(<<>>, <<>>, NoPacket, Inputs)
<1>1. DOMAIN <<>> = {}
  OBVIOUS
<1> QED BY <1>1 DEF Apart

LEMMA ApartStep ==
  ASSUME VideoInv, VideoNext
  PROVE  InputsApart'
<1> USE DEF settings, streams, source, queues, android, player
<1>0. /\ VideoTypeOK /\ InputsApart
      /\ packets \in Seq(Packets) /\ completed \in Seq(Inputs) /\ mine \in SUBSET Inputs
      /\ hand \in Packets \cup {NoPacket} /\ (hand # NoPacket => worker = "exchange")
  BY DEF VideoInv, VideoTypeOK
<1>1. ASSUME UNCHANGED <<packets, completed, hand, mine, stale>>
      PROVE  InputsApart'
  BY <1>0, <1>1 DEF InputsApart, Apart
<1>2. CASE CloseReturns
  <2>1. packets' = <<>> /\ completed' = <<>> /\ hand' = NoPacket /\ mine' = Inputs
    BY <1>0, <1>2 DEF CloseReturns
  <2> QED BY <2>1, NothingApart DEF InputsApart
<1>3. CASE DequeueInput
  <2>1. /\ completed # <<>> /\ completed' = Tail(completed) /\ mine' = mine \cup {Head(completed)}
        /\ packets' = packets /\ hand' = hand /\ stale' = stale
    BY <1>3 DEF DequeueInput
  <2> QED BY <1>0, <2>1, ReturnedApart DEF InputsApart
<1>4. ASSUME NEW i \in Inputs, NEW header \in Sizes \cup {0}, QueueInput(i, header)
      PROVE  InputsApart'
  <2> DEFINE p == [index |-> i, stamp |-> stamp + 1, header |-> header]
  <2>1. p \in Packets /\ p.index = i
    BY <1>0, <1>4, StampFacts DEF QueueInput, Packets, VideoTypeOK
  <2>2. /\ i \in mine /\ packets' = Append(packets, p) /\ mine' = mine \ {i}
        /\ completed' = completed /\ hand' = hand /\ stale' = stale
    BY <1>4 DEF QueueInput
  <2> HIDE DEF p
  <2>3. CASE stale
    BY <2>2, <2>3 DEF InputsApart
  <2>4. CASE ~stale
    <3>1. Apart(Append(packets, p), completed, hand, mine \ {p.index})
      BY <1>0, <2>1, <2>2, <2>4, QueuedApart DEF InputsApart
    <3> QED BY <2>1, <2>2, <3>1 DEF InputsApart
  <2> QED BY <2>3, <2>4
<1>5. ASSUME NEW queue \in {"output", "capture"}, StreamOff(queue)
      PROVE  InputsApart'
  <2>1. hand' = hand
    BY <1>5 DEF StreamOff
  <2>2. CASE queue = "output"
    <3>1. packets' = <<>> /\ completed' = <<>> /\ mine' = Inputs /\ stale' = (stale \/ hand # NoPacket)
      BY <1>5, <2>2 DEF StreamOff
    <3>2. ~stale' => hand = NoPacket
      BY <3>1
    <3> QED BY <2>1, <3>1, <3>2, NothingApart DEF InputsApart
  <2>3. CASE queue # "output"
    BY <1>1, <1>5, <2>3 DEF StreamOff
  <2> QED BY <2>2, <2>3
<1>6. CASE SequenceHeader
  <2>1. packets # <<>> /\ hand = NoPacket /\ UNCHANGED <<hand, mine, stale>>
    BY <1>0, <1>6 DEF SequenceHeader
  <2>2. CASE UNCHANGED <<packets, completed>>
    BY <1>1, <2>1, <2>2
  <2>3. CASE completed' = Append(completed, Head(packets).index) /\ packets' = Tail(packets)
    <3>1. CASE stale
      BY <2>1, <3>1 DEF InputsApart
    <3>2. CASE ~stale
      <4>1. Apart(Tail(packets), completed, Head(packets), mine)
        BY <1>0, <2>1, <3>2, TakenApart DEF InputsApart
      <4>2. Tail(packets) \in Seq(Packets) /\ Head(packets) \in Packets
        BY <1>0, <2>1, Front
      <4>3. Apart(Tail(packets), Append(completed, Head(packets).index), NoPacket, mine)
        BY <1>0, <4>1, <4>2, CompletedApart
      <4> QED BY <2>1, <2>3, <4>3 DEF InputsApart
    <3> QED BY <3>1, <3>2
  <2> QED BY <1>6, <2>2, <2>3 DEF SequenceHeader
<1>7. CASE Submit
  <2>1. /\ packets # <<>> /\ hand = NoPacket /\ hand' = Head(packets) /\ packets' = Tail(packets)
        /\ UNCHANGED <<completed, mine, stale>>
    BY <1>0, <1>7 DEF Submit, Streaming
  <2> QED BY <1>0, <2>1, TakenApart DEF InputsApart
<1>8. ASSUME Complete, hand' = NoPacket, UNCHANGED <<packets, mine, stale>>
      PROVE  InputsApart'
  <2>1. CASE hand = NoPacket
    BY <1>1, <1>8, <2>1 DEF Complete
  <2>2. CASE hand # NoPacket
    <3>1. completed' = Append(completed, hand.index) /\ hand \in Packets
      BY <1>0, <1>8, <2>2 DEF Complete
    <3> QED BY <1>0, <1>8, <3>1, CompletedApart DEF InputsApart
  <2> QED BY <2>1, <2>2
<1>9. CASE Break
  BY <1>8, <1>9 DEF Break
<1>10. ASSUME NEW a \in Answers, Answer(a)
       PROVE  InputsApart'
  BY <1>8, <1>10 DEF Answer
<1>11. CASE \/ Open \/ CloseDevice \/ DequeueCapture \/ DequeueEvent
            \/ \E i \in Captures : QueueCapture(i)
            \/ \E queue \in {"output", "capture"} : StreamOn(queue)
  BY <1>1, <1>11 DEF Open, CloseDevice, DequeueCapture, TakeCapture, DequeueEvent,
       QueueCapture, StreamOn
<1>12. CASE Connect \/ Poll \/ Resume \/ Stop \/ End
  BY <1>1, <1>12 DEF Connect, Poll, Resume, Stop, End
<1> QED BY <1>2, <1>3, <1>4, <1>5, <1>6, <1>7, <1>9, <1>10, <1>11, <1>12 DEF VideoNext,
       Worker, Player

\* Different elements can be counted by their places.
LEMMA CountedByPlace ==
  ASSUME NEW n \in Nat, NEW T, NEW f \in [1 .. n -> T],
         \A a, b \in 1 .. n : f[a] = f[b] => a = b,
         \A t \in T : \E a \in 1 .. n : f[a] = t
  PROVE  IsFiniteSet(T) /\ Cardinality(T) = n
<1>1. f \in Bijection(1 .. n, T)
  BY DEF Bijection, Injection, IsInjective, Surjection
<1>2. ExistsBijection(1 .. n, T)
  BY <1>1 DEF ExistsBijection
<1>3. IsFiniteSet(1 .. n)
  <2>1. 1 \in Int /\ n \in Int
    OBVIOUS
  <2> QED BY <2>1, FS_Interval
<1> QED BY <1>2, <1>3, FS_Bijection, FS_CountingElements

(* Buffers kept apart are held once: the places they are in are disjoint,   *)
(* and each of them holds as many buffers as it is long.                    *)
LEMMA ApartHeldOnce ==
  ASSUME VideoTypeOK, InputsApart
  PROVE  InputsHeldOnce
<1> SUFFICES ASSUME ~stale
             PROVE  /\ mine = Inputs \ (Held \cup Back)
                    /\ Cardinality(Held) + Cardinality(Back) = Cardinality(Inputs \ mine)
                    /\ Len(packets) + Len(completed) + InHand = Cardinality(Inputs \ mine)
  BY DEF InputsHeldOnce, InHand
<1> DEFINE Q == {packets[i].index : i \in DOMAIN packets}
           H == IF hand = NoPacket THEN {} ELSE {hand.index}
<1>0. /\ packets \in Seq(Packets) /\ completed \in Seq(Inputs) /\ mine \in SUBSET Inputs
      /\ hand \in Packets \cup {NoPacket}
      /\ DOMAIN packets = 1 .. Len(packets) /\ Len(packets) \in Nat
      /\ DOMAIN completed = 1 .. Len(completed) /\ Len(completed) \in Nat
      /\ Apart(packets, completed, hand, mine)
  BY DEF VideoTypeOK, InputsApart
<1>1. Q \subseteq Inputs /\ H \subseteq Inputs /\ Back \subseteq Inputs /\ Held = Q \cup H
  <2>1. \A i \in DOMAIN packets : packets[i].index \in Inputs
    BY <1>0, PacketParts
  <2>2. H \subseteq Inputs
    BY <1>0, PacketParts
  <2>3. Back \subseteq Inputs
    BY <1>0 DEF Back
  <2> QED BY <2>1, <2>2, <2>3 DEF Held
<1>2. Q \cap H = {} /\ (Q \cup H) \cap Back = {}
  BY <1>0 DEF Apart, Back
<1>3. \A i \in Inputs : i \in mine <=> i \notin Q /\ i \notin H /\ i \notin Back
  BY <1>0 DEF Apart, Back
<1>4. IsFiniteSet(Q) /\ Cardinality(Q) = Len(packets)
  <2> DEFINE f == [a \in 1 .. Len(packets) |-> packets[a].index]
  <2>1. \A a, b \in 1 .. Len(packets) : f[a] = f[b] => a = b
    BY <1>0 DEF Apart
  <2>2. f \in [1 .. Len(packets) -> Q] /\ \A t \in Q : \E a \in 1 .. Len(packets) : f[a] = t
    BY <1>0
  <2> HIDE DEF f, Q
  <2> QED BY <1>0, <2>1, <2>2, CountedByPlace
<1>5. IsFiniteSet(Back) /\ Cardinality(Back) = Len(completed)
  <2>1. \A a, b \in 1 .. Len(completed) : completed[a] = completed[b] => a = b
    BY <1>0 DEF Apart
  <2>2. completed \in [1 .. Len(completed) -> Back]
        /\ \A t \in Back : \E a \in 1 .. Len(completed) : completed[a] = t
    BY <1>0 DEF Back
  <2> QED BY <1>0, <2>1, <2>2, CountedByPlace
<1>6. IsFiniteSet(H) /\ Cardinality(H) = InHand /\ InHand \in {0, 1}
  BY FS_EmptySet, FS_Singleton DEF InHand
<1> HIDE DEF Q, H
<1>7. IsFiniteSet(Held) /\ Cardinality(Held) = Len(packets) + InHand
  <2>1. Cardinality(Q \cap H) = 0
    BY <1>2, FS_EmptySet
  <2>2. IsFiniteSet(Q \cup H) /\ Cardinality(Q \cup H) = Len(packets) + InHand - 0
    BY <1>4, <1>6, <2>1, FS_Union
  <2>3. IsFiniteSet(Held) /\ Cardinality(Held) = Len(packets) + InHand - 0
    BY <1>1, <2>2, Zenon
  <2> QED BY <1>0, <1>6, <2>3
<1>8. Cardinality(Held \cup Back) = Cardinality(Held) + Cardinality(Back)
  <2>1. Cardinality(Held \cap Back) = 0
    BY <1>1, <1>2, FS_EmptySet
  <2>2. Cardinality(Held \cup Back) = Cardinality(Held) + Cardinality(Back) - 0
    BY <1>5, <1>7, <2>1, FS_Union
  <2> QED BY <1>0, <1>5, <1>6, <1>7, <2>2
<1>9. mine = Inputs \ (Held \cup Back) /\ Inputs \ mine = Held \cup Back
  BY <1>0, <1>1, <1>3
<1>10. Cardinality(Inputs \ mine) = Cardinality(Held) + Cardinality(Back)
  BY <1>8, <1>9, Zenon
<1> HIDE DEF Held, Back
<1> QED BY <1>0, <1>5, <1>6, <1>7, <1>9, <1>10

LEMMA VideoStart ==
  ASSUME VideoInit
  PROVE  VideoInv
<1> USE StampFacts DEF VideoInit
<1>1. \A i \in Captures : capture[i].frame = 0
  OBVIOUS
<1>2. ~Ready
  BY <1>1 DEF Ready
<1>3. VideoTypeOK
  <2>1. mode \in Modes /\ capture \in [Captures -> Buffers] /\ worker = "none" /\ device = "closed"
    BY Zeroes
  <2>2. answer = Accepted /\ Accepted \in Answers
    BY DEF Accepted, Answers
  <2> QED BY <2>1, <2>2, Zeroes DEF VideoTypeOK
<1>4. Spent
  <2>1. Len(<<>>) = 0
    OBVIOUS
  <2> QED BY <2>1 DEF Spent, Carried1, InHand
<1>5. FramesAhead
  BY <1>1 DEF FramesAhead
<1>6. InputsApart
  BY NothingApart DEF InputsApart
<1>7. ClosedIsIdle /\ EventNotLost
  BY <1>2 DEF ClosedIsIdle, EventNotLost
<1> QED BY <1>3, <1>4, <1>5, <1>6, <1>7 DEF VideoInv

LEMMA VideoStutters ==
  ASSUME VideoInv, UNCHANGED videoVars
  PROVE  VideoInv'
<1> USE DEF videoVars, settings, streams, source, queues, android, player
<1>1. VideoTypeOK'
  BY DEF VideoInv, VideoTypeOK, stateful
<1>2. Spent'
  BY DEF VideoInv, Spent, Carried1, InHand
<1>3. Ready' = Ready /\ stateful' = stateful
  BY DEF Ready, stateful
<1>4. ClosedIsIdle' /\ EventNotLost'
  BY <1>3 DEF VideoInv, ClosedIsIdle, EventNotLost
<1>5. FramesAhead'
  BY DEF VideoInv, FramesAhead
<1>6. InputsApart'
  BY DEF VideoInv, InputsApart, Apart
<1> QED BY <1>1, <1>2, <1>4, <1>5, <1>6 DEF VideoInv

LEMMA VideoStep ==
  ASSUME VideoInv, [VideoNext]_videoVars
  PROVE  VideoInv' /\ (shown' # shown /\ shown' # 0 => shown' > shown)
<1>1. CASE VideoNext
  <2>1. VideoTypeOK'
    BY <1>1, PlayerTypes, WorkerTypes DEF VideoNext
  <2> QED BY <1>1, <2>1, SpentStep, WakeStep, AheadStep, ApartStep DEF VideoInv
<1>2. CASE UNCHANGED videoVars
  <2>1. shown' = shown
    BY <1>2 DEF videoVars, player
  <2> QED BY <1>2, <2>1, VideoStutters
<1> QED BY <1>1, <1>2

\* The ledgers of the video device are kept whatever the player, the worker
\* and Android do: every encoded buffer is in one place unless the queue was
\* switched off around it, and the eventfd is readable whenever there is
\* something to tell (ioctl and Device::run of video-bridge.cpp).
THEOREM VideoQueuesKept == VideoSpec => []QueuesAccounted
<1>1. VideoInit => VideoInv
  BY VideoStart
<1>2. VideoInv /\ [VideoNext]_videoVars => VideoInv'
  BY VideoStep
<1>3. VideoInv => QueuesAccounted
  BY ApartHeldOnce DEF VideoInv, QueuesAccounted
<1> QED BY <1>1, <1>2, <1>3, PTL DEF VideoSpec

\* The player never goes back in the stream: a picture it takes is newer than
\* the one before, with any number of capture buffers, queued in any order
\* (VIDIOC_DQBUF and the storing of a picture in video-bridge.cpp).
THEOREM PicturesInOrder == VideoSpec => FramesInOrder
<1>1. VideoInit => VideoInv
  BY VideoStart
<1>2. VideoInv /\ [VideoNext]_videoVars => VideoInv'
  BY VideoStep
<1>3. VideoInv /\ [VideoNext]_videoVars => [shown' # shown /\ shown' # 0 => shown' > shown]_videoVars
  BY VideoStep
<1> QED BY <1>1, <1>2, <1>3, PTL DEF VideoSpec, FramesInOrder

=============================================================================
