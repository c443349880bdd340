--------------------------- MODULE BluetoothBridge ---------------------------
(***************************************************************************)
(* org.bluez as the guest sees it: bluetooth-bridge.cpp, a single-threaded *)
(* D-Bus service, and BluetoothBridge.java, which owns Android's radio.    *)
(* The two share three files.  The guest writes bluetooth-command.json     *)
(* with a fresh id, deletes bluetooth-reply.json and waits up to 5 s for   *)
(* a reply with that id; Android polls for commands, replies at once or,   *)
(* for the start of an advertisement, when the radio calls back, and       *)
(* publishes snapshots of the devices in bluetooth-devices.tsv.  Device    *)
(* operations are deferred: the D-Bus answer waits until a snapshot shows  *)
(* the wanted bond or link, or for 60 s.                                   *)
(*                                                                         *)
(* stage is the bond and link of a device as the radio has them; the       *)
(* radio and the user of the other device change it at any time.  Left     *)
(* out: agents, filters and property reads, which touch none of this.      *)
(***************************************************************************)
EXTENDS Naturals, Sequences

CONSTANTS
  Callers,      \* D-Bus connections
  Devices,      \* addresses
  Methods,      \* the D-Bus methods that are called
  MaxRequests,  \* bound on the commands
  MaxInbox      \* bound on the D-Bus messages waiting

Nobody == "nobody"
NoDevice == "no device"
DeviceMethods == {"pair", "connect", "disconnect", "forget", "cancel-pair"}
Discovery == {"discovery-start", "discovery-stop"}
Advertising == {"register", "unregister"}

ASSUME NamesAssumption ==
  /\ Nobody \notin Callers
  /\ NoDevice \notin Devices
ASSUME BoundsAssumption ==
  /\ MaxRequests \in Nat
  /\ MaxInbox \in Nat
ASSUME MethodsAssumption ==
  Methods \subseteq DeviceMethods \cup Discovery \cup Advertising

VARIABLES
  \* bluetooth-bridge.cpp
  pc, call, requestId, active, owner, known, pending, inbox,
  \* the shared files
  command, reply, snapshot,
  \* BluetoothBridge.java
  lastId, callback, discovering, listed, closed,
  \* the radio
  enabled, starting, air, stage,
  \* history: Android may have started or stopped an advertisement that the
  \* guest took no answer for; and the id of the last start whose call of
  \* startAdvertising threw, 0 if none did
  unlearned, thrown

files == <<command, reply, snapshot>>
service == <<pc, call, requestId, active, owner, known, pending>>
bridge == <<lastId, callback, discovering, listed, closed>>
radio == <<enabled, starting, air, stage>>
history == <<unlearned, thrown>>
vars == <<service, inbox, files, bridge, radio, history>>

Stages == {"none", "bonding", "bonded", "connected"}
Ids == 0 .. MaxRequests
Messages ==
  [from : Callers, op : DeviceMethods, device : Devices]
  \cup [from : Callers, op : Discovery \cup Advertising \cup {"gone"}, device : {NoDevice}]
Commands ==
  [id : Ids, op : DeviceMethods, device : Devices]
  \cup [id : Ids, op : Discovery \cup {"start", "stop"}, device : {NoDevice}]
NoCall == [from |-> Nobody, op |-> "gone", device |-> NoDevice]
NoCommand == [id |-> 0, op |-> "stop", device |-> NoDevice]
NoReply == [id |-> 0, success |-> FALSE]

TypeOK ==
  /\ pc \in {"down", "loop", "properties", "wait"}
  /\ call \in Messages \cup {NoCall}
  /\ call = NoCall <=> pc \in {"down", "loop"}
  /\ requestId \in Ids
  /\ active \in BOOLEAN
  /\ owner \in Callers \cup {Nobody}
  /\ active <=> owner # Nobody
  /\ known \subseteq Devices
  /\ pending \subseteq [from : Callers, op : DeviceMethods, device : Devices, id : Ids]
  /\ inbox \in Seq(Messages) /\ Len(inbox) <= MaxInbox
  /\ command \in Commands
  /\ reply \in [id : Ids, success : BOOLEAN]
  /\ snapshot \in [devices : [Devices -> Stages \cup {"absent"}], upTo : Ids]
  /\ lastId \in Ids
  /\ callback \in Ids
  /\ discovering \in BOOLEAN
  /\ listed \subseteq Devices
  /\ closed \in BOOLEAN
  /\ enabled \in BOOLEAN
  /\ starting \subseteq Ids
  /\ air \subseteq Ids
  /\ stage \in [Devices -> Stages]
  /\ unlearned \in BOOLEAN
  /\ thrown \in Ids

\* A new activity (it deletes the command and the reply) and a service that
\* has not been started yet.
Init ==
  /\ pc = "down" /\ call = NoCall /\ requestId = 0
  /\ active = FALSE /\ owner = Nobody /\ known = {} /\ pending = {}
  /\ inbox = <<>>
  /\ command = NoCommand /\ reply = NoReply
  /\ snapshot = [devices |-> [d \in Devices |-> "absent"], upTo |-> 0]
  /\ lastId = 0 /\ callback = 0 /\ discovering = FALSE /\ listed = {}
  /\ closed = FALSE
  /\ enabled = TRUE /\ starting = {} /\ air = {}
  /\ stage \in [Devices -> {"none", "bonded"}]
  /\ unlearned = FALSE /\ thrown = 0

-----------------------------------------------------------------------------
(* bluetooth-bridge.cpp.                                                   *)

\* completed, on a stage of the snapshot.
Completed(op, state) ==
  CASE op = "pair" -> state \in {"bonded", "connected"}
    [] op = "forget" -> state = "none"
    [] op = "cancel-pair" -> state \in {"none", "bonded", "connected"}
    [] op = "connect" -> state = "connected"
    [] op = "disconnect" -> state \in {"none", "bonding", "bonded"}

Outstanding(p) == ~ Completed(p.op, snapshot.devices[p.device])

\* synchronize: the devices of the snapshot are taken over; deferred calls are
\* answered when the snapshot shows what they wait for, and with an error when
\* their 60 s are over.
Synchronize ==
  /\ known' = {d \in Devices : snapshot.devices[d] # "absent"}
  /\ \E overdue \in SUBSET {p \in pending : Outstanding(p)} :
       pending' = {p \in pending : Outstanding(p)} \ overdue

\* The first half of command: a fresh id, the old reply deleted, the command
\* renamed into place.
Command(op, device) ==
  /\ requestId < MaxRequests
  /\ requestId' = requestId + 1
  /\ reply' = NoReply
  /\ command' = [id |-> requestId + 1, op |-> op, device |-> device]
  /\ UNCHANGED snapshot

\* One pass of the loop begins: the snapshot is read before the message.
Pass == pc = "loop" /\ Synchronize
Takes(ops) == inbox # <<>> /\ Head(inbox).op \in ops /\ inbox' = Tail(inbox)

IdlePass ==
  /\ Pass
  /\ inbox = <<>>
  /\ UNCHANGED <<pc, call, requestId, active, owner, inbox, files, bridge, radio, history>>

Refused(m) ==
  \/ m.op = "register" /\ active
  \/ m.op \in {"unregister", "gone"} /\ owner # m.from
  \/ m.op \in DeviceMethods /\ m.device \notin known'

\* An answer, or none, without a command.
Refuse ==
  /\ Pass
  /\ Takes(DeviceMethods \cup Advertising \cup {"gone"})
  /\ Refused(Head(inbox))
  /\ UNCHANGED <<pc, call, requestId, active, owner, files, bridge, radio, history>>

\* Every message but a registration goes to Android at once; a vanished owner
\* (NameOwnerChanged) and an unregistration become a stop.
Request ==
  /\ Pass
  /\ Takes(DeviceMethods \cup Discovery \cup {"unregister", "gone"})
  /\ ~ Refused(Head(inbox))
  /\ LET m == Head(inbox)
     IN /\ Command(IF m.op \in {"unregister", "gone"} THEN "stop" ELSE m.op, m.device)
        /\ call' = m
  /\ pc' = "wait"
  /\ UNCHANGED <<active, owner, bridge, radio, history>>

\* RegisterAdvertisement reads the properties of the advertisement from its
\* caller, for up to 3 s.
Register ==
  /\ Pass
  /\ Takes({"register"})
  /\ ~ Refused(Head(inbox))
  /\ call' = Head(inbox)
  /\ pc' = "properties"
  /\ UNCHANGED <<requestId, active, owner, files, bridge, radio, history>>

PropertiesFail ==
  /\ pc = "properties"
  /\ pc' = "loop" /\ call' = NoCall
  /\ UNCHANGED <<requestId, active, owner, known, pending, inbox, files, bridge,
                 radio, history>>

PropertiesRead ==
  /\ pc = "properties"
  /\ Command("start", NoDevice)
  /\ pc' = "wait"
  /\ UNCHANGED <<call, active, owner, known, pending, inbox, bridge, radio, history>>

\* Mutant: any reply will do.
AnsweredByAnyone(success) == reply.id # 0 /\ reply.success = success

\* The reply of Android to the command that is waited for.
Answered(success) == reply.id = requestId /\ reply.success = success

\* The advertisement of c is the registered one; of Nobody: none is.
Advertised(c) == active' = (c # Nobody) /\ owner' = c
Done == pc' = "loop" /\ call' = NoCall

\* The second half: command returns true.
Succeed ==
  /\ pc = "wait"
  /\ Answered(TRUE)
  /\ Done
  /\ CASE call.op = "register" -> Advertised(call.from)
       [] call.op \in {"unregister", "gone"} -> Advertised(Nobody)
       [] OTHER -> UNCHANGED <<active, owner>>
  /\ CASE call.op \in Discovery -> Synchronize
       [] call.op \in DeviceMethods ->
            /\ pending' = pending \cup {[from |-> call.from, op |-> call.op,
                                         device |-> call.device, id |-> requestId]}
            /\ UNCHANGED known
       [] OTHER -> UNCHANGED <<known, pending>>
  /\ UNCHANGED <<requestId, inbox, files, bridge, radio, history>>

\* It returns false: only the vanished owner is forgotten all the same.
Failed ==
  /\ Done
  /\ IF call.op = "gone" THEN Advertised(Nobody) ELSE UNCHANGED <<active, owner>>
  /\ UNCHANGED <<requestId, known, pending, inbox, files, bridge, radio>>

Fail ==
  /\ pc = "wait"
  /\ Answered(FALSE)
  /\ Failed
  /\ UNCHANGED history

\* Five seconds without the reply.
GiveUp ==
  /\ pc = "wait"
  /\ reply.id # requestId
  /\ Failed
  /\ unlearned' = (unlearned \/ command.op \in {"start", "stop"})
  /\ UNCHANGED thrown

\* The service is told to stop: a wait ends as if it had failed, and an
\* advertisement that is still registered gets a stop nobody waits for.
Terminate ==
  /\ pc # "down"
  /\ IF active /\ ~ (pc = "wait" /\ call.op = "gone")
     THEN Command("stop", NoDevice) ELSE UNCHANGED <<requestId, files>>
  /\ unlearned' = (unlearned \/ active \/ pc = "wait")
  /\ pc' = "down" /\ call' = NoCall
  /\ Advertised(Nobody)
  /\ known' = {} /\ pending' = {} /\ inbox' = <<>>
  /\ UNCHANGED <<bridge, radio, thrown>>

\* The session is killed.
Kill ==
  /\ pc # "down"
  /\ unlearned' = (unlearned \/ active \/ pc = "wait")
  /\ pc' = "down" /\ call' = NoCall
  /\ Advertised(Nobody)
  /\ known' = {} /\ pending' = {} /\ inbox' = <<>>
  /\ UNCHANGED <<requestId, files, bridge, radio, thrown>>

\* quest_services_run.  The ids begin at 10000 times the process id, so they
\* are new ones.
Boot ==
  /\ pc = "down"
  /\ ~ closed
  /\ pc' = "loop"
  /\ UNCHANGED <<call, requestId, active, owner, known, pending, inbox, files,
                 bridge, radio, history>>

-----------------------------------------------------------------------------
(* The D-Bus side: calls, and connections that end.                        *)

Arrive(m) ==
  /\ pc # "down"
  /\ Len(inbox) < MaxInbox
  /\ inbox' = Append(inbox, m)
  /\ UNCHANGED <<service, files, bridge, radio, history>>

\* A connection that has ended asks no more: its name is never used again.
Gone(c) == \E i \in DOMAIN inbox : inbox[i].from = c /\ inbox[i].op = "gone"

Ask(c) ==
  /\ ~ Gone(c)
  /\ ~ (call.from = c /\ call.op = "gone")
  /\ \E op \in Methods :
       \E d \in IF op \in DeviceMethods THEN Devices ELSE {NoDevice} :
         Arrive([from |-> c, op |-> op, device |-> d])

Vanish(c) ==
  /\ ~ Gone(c)
  /\ Arrive([from |-> c, op |-> "gone", device |-> NoDevice])

-----------------------------------------------------------------------------
(* BluetoothBridge.java.  Its methods are synchronized; poll() runs every  *)
(* 25 ms and is taken apart where the guest can read a file in between.    *)

\* publish: bonded devices are remembered, whatever is known is written.
PublishAs(devices, id) ==
  LET shown == devices \cup {d \in Devices : stage[d] \in {"bonded", "connected"}}
  IN /\ listed' = shown
     /\ snapshot' = [devices |-> [d \in Devices |->
                                    IF d \in shown THEN stage[d] ELSE "absent"],
                     upTo |-> id]

\* Once a second, and whenever the system broadcasts a change.
Publish ==
  /\ ~ closed
  /\ PublishAs(listed, lastId)
  /\ UNCHANGED <<service, inbox, command, reply, lastId, callback, discovering,
                 closed, radio, history>>

\* A scan result.
Found(d) ==
  /\ discovering /\ enabled
  /\ listed' = listed \cup {d}
  /\ UNCHANGED <<service, inbox, files, lastId, callback, discovering, closed,
                 radio, history>>

\* poll: a discovery of 30 s ends.
ScanEnds ==
  /\ ~ closed /\ discovering
  /\ discovering' = FALSE
  /\ PublishAs(listed, lastId)
  /\ UNCHANGED <<service, inbox, command, reply, lastId, callback, closed, radio, history>>

\* poll: there is a command with another id than the last.
TakeUp(ops) ==
  /\ ~ closed
  /\ command.id \notin {0, lastId}
  /\ command.op \in ops
  /\ lastId' = command.id
  /\ UNCHANGED <<service, inbox, command, closed>>

Reply(id, success) == reply' = [id |-> id, success |-> success]

\* stopDiscovery, which publishes, and discover, which fails without a radio
\* or when Android rejects both scans.
TakeDiscovery ==
  /\ TakeUp(Discovery)
  /\ \/ /\ command.op = "discovery-stop" \/ enabled
        /\ discovering' \in IF command.op = "discovery-stop" THEN {FALSE} ELSE BOOLEAN
        /\ PublishAs(listed, lastId')
        /\ Reply(lastId', command.op = "discovery-stop" \/ discovering')
     \/ /\ command.op = "discovery-start" /\ ~ enabled
        /\ Reply(lastId', FALSE)
        /\ UNCHANGED <<discovering, listed, snapshot>>
  /\ UNCHANGED <<callback, radio, history>>

\* What deviceOperation may come to: nothing is left to do, the device must
\* be paired first, or Android accepts or rejects the request.
Outcomes(op, state) ==
  IF op # "disconnect" /\ Completed(op, state) THEN {TRUE}
  ELSE IF op = "connect" /\ state # "bonded" THEN {FALSE}
  ELSE BOOLEAN

\* Mutant: the snapshot is published when the operation has changed something.
TakeDeviceOperationQuietly ==
  /\ TakeUp(DeviceMethods)
  /\ discovering' = FALSE
  /\ \E success \in Outcomes(command.op, stage[command.device]) : Reply(lastId', success)
  /\ UNCHANGED <<callback, listed, snapshot, radio, history>>

\* Whatever it comes to, discovery ends and a snapshot is published before
\* the reply.
TakeDeviceOperation ==
  /\ TakeUp(DeviceMethods)
  /\ discovering' = FALSE
  /\ PublishAs(listed \cup {command.device}, lastId')
  /\ \E success \in Outcomes(command.op, stage[command.device]) : Reply(lastId', success)
  /\ UNCHANGED <<callback, radio, history>>

\* stop().
StopAdvertising ==
  /\ callback' = 0
  /\ starting' = starting \ {callback}
  /\ air' = air \ {callback}
  /\ UNCHANGED <<enabled, stage>>

TakeStop ==
  /\ TakeUp({"stop"})
  /\ StopAdvertising
  /\ Reply(lastId', TRUE)
  /\ UNCHANGED <<discovering, listed, snapshot, history>>

\* A start is refused without a radio, when an advertisement is active or for
\* its data; else the radio is asked and the reply is left to its callback.
\* A radio that is switched off after the check makes startAdvertising throw
\* when callback has been set: the command fails, and callback stays.
TakeStart ==
  /\ TakeUp({"start"})
  /\ \/ /\ enabled /\ callback = 0
        /\ callback' = lastId'
        /\ starting' = starting \cup {lastId'}
        /\ UNCHANGED <<enabled, air, reply, thrown>>
     \/ /\ Reply(lastId', FALSE)
        /\ UNCHANGED <<callback, starting, enabled, air, thrown>>
     \/ /\ enabled /\ callback = 0
        /\ callback' = lastId'
        /\ enabled' = FALSE /\ air' = {}
        /\ Reply(lastId', FALSE)
        /\ thrown' = lastId'
        /\ UNCHANGED starting
  /\ UNCHANGED <<snapshot, discovering, listed, stage, unlearned>>

\* onStartSuccess and onStartFailure.
StartSucceeds(id) ==
  /\ id \in starting /\ enabled
  /\ starting' = starting \ {id}
  /\ air' = air \cup {id}
  /\ Reply(id, TRUE)
  /\ UNCHANGED <<service, inbox, command, snapshot, bridge, enabled, stage, history>>

\* Mutant: a rejected advertisement still counts as the active one.
StartFailsActive(id) ==
  /\ id \in starting
  /\ starting' = starting \ {id}
  /\ Reply(id, FALSE)
  /\ UNCHANGED <<service, inbox, command, snapshot, bridge, enabled, air, stage, history>>

StartFails(id) ==
  /\ id \in starting
  /\ starting' = starting \ {id}
  /\ callback' = 0
  /\ Reply(id, FALSE)
  /\ UNCHANGED <<service, inbox, command, snapshot, lastId, discovering, listed,
                 closed, enabled, air, stage, history>>

\* onDestroy: close(); killLinux follows before anything is created again.
Close ==
  /\ ~ closed
  /\ closed' = TRUE
  /\ discovering' = FALSE
  /\ PublishAs(listed, lastId)
  /\ StopAdvertising
  /\ UNCHANGED <<service, inbox, command, reply, lastId, history>>

\* The constructor.
Create ==
  /\ closed /\ pc = "down"
  /\ closed' = FALSE
  /\ lastId' = 0 /\ callback' = 0 /\ listed' = {} /\ discovering' = FALSE
  /\ command' = NoCommand /\ reply' = NoReply
  /\ unlearned' = FALSE /\ thrown' = 0
  /\ UNCHANGED <<service, inbox, snapshot, radio>>

-----------------------------------------------------------------------------
(* The radio.                                                              *)

\* Bonds and links come and go; a link needs a bond.
StageChanges(d) ==
  /\ enabled
  /\ \E to \in CASE stage[d] = "none" -> {"bonding"}
                 [] stage[d] = "bonding" -> {"none", "bonded"}
                 [] stage[d] = "bonded" -> {"none", "connected"}
                 [] stage[d] = "connected" -> {"none", "bonded"} :
       stage' = [stage EXCEPT ![d] = to]
  /\ UNCHANGED <<service, inbox, files, bridge, enabled, starting, air, history>>

\* Bluetooth is switched off: nothing is on the air and no device is linked;
\* Android tells the advertiser nothing.
RadioOff ==
  /\ enabled
  /\ enabled' = FALSE
  /\ air' = {}
  /\ stage' = [d \in Devices |-> IF stage[d] \in {"bonded", "connected"}
                                 THEN "bonded" ELSE "none"]
  /\ UNCHANGED <<service, inbox, files, bridge, starting, history>>

RadioOn ==
  /\ ~ enabled
  /\ enabled' = TRUE
  /\ UNCHANGED <<service, inbox, files, bridge, starting, air, stage, history>>

Guest ==
  \/ IdlePass \/ Refuse \/ Request \/ Register \/ PropertiesFail \/ PropertiesRead
  \/ Succeed \/ Fail \/ GiveUp \/ Terminate \/ Kill \/ Boot

Android ==
  \/ Publish \/ ScanEnds \/ TakeDiscovery \/ TakeDeviceOperation \/ TakeStop
  \/ TakeStart \/ Close \/ Create
  \/ \E d \in Devices : Found(d)
  \/ \E id \in starting : StartSucceeds(id) \/ StartFails(id)

Environment ==
  \/ \E c \in Callers : Ask(c) \/ Vanish(c)
  \/ \E d \in Devices : StageChanges(d)
  \/ RadioOff \/ RadioOn

Next == Guest \/ Android \/ Environment
Spec == Init /\ [][Next]_vars

-----------------------------------------------------------------------------
(* Properties.                                                             *)

\* A deferred call is only ever answered from a snapshot that Android has
\* taken after it took the command up, never from one of before the operation.
AnswersAreFresh == \A p \in pending : snapshot.upTo >= p.id

\* An advertisement is only reported as registered when the radio has called
\* back for this very command, however many answers of earlier ones are late
\* (README.md: "reports success only after its callback").
ConfirmedByRadio ==
  [][~ active /\ active' => \/ closed
                            \/ callback = requestId /\ requestId \notin starting]_vars

\* As long as the guest has had an answer to each start and stop, the two
\* sides agree whether there is an advertisement, whoever vanishes and
\* whatever the radio rejects.  One answered start is exempt, the one whose
\* startAdvertising threw: the guest was told FALSE and Android keeps its
\* callback.
BridgesAgree ==
  pc \in {"loop", "properties"} /\ ~ closed /\ ~ unlearned
    => (active <=> callback \notin {0, thrown})

\* What the refusal "An advertisement is already active"
\* (BluetoothBridge.java:168) says of a start when every one before was
\* answered: the service has it registered, the radio has it on the air or is
\* asked for it.  No run checks it, since the start that threw violates it.
AlreadyActiveIsTrue ==
  /\ ~ closed /\ ~ unlearned
  /\ command.id \notin {0, lastId} /\ command.op = "start" /\ enabled /\ callback # 0
  => active \/ callback \in starting \cup air

=============================================================================
