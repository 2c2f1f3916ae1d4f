------------------------------ MODULE CspVolume ------------------------------
(***************************************************************************)
(* The volume operations of the cloud service provider plugins (pkg/csp):  *)
(* attach, detach, delete and the removal of tags, for the volumes of one  *)
(* node, as the StorageRequest handlers of centrald call them, and the     *)
(* look-up of a volume's device name by agentd.  StorageRequest takes      *)
(* these operations for atomic; here they are the calls they consist of.   *)
(*                                                                         *)
(* The cloud answers a call before its effect is complete, a caller gives  *)
(* up at its deadline or dies with centrald, and repeats a call whose      *)
(* effect it did not see.  Calls for different volumes overlap.            *)
(***************************************************************************)
EXTENDS Naturals, FiniteSets, FiniteSetsExt

CONSTANTS
    Kinds,      \* the plugins considered: a subset of {"AWS", "Azure", "GCE"}
    Vol,        \* the volumes
    MaxDev,     \* device names of the node (52 on AWS, MaxLunsPerVM on Azure)
    MaxGoals,   \* bound on the operations asked for
    MaxFaults,  \* bound on deadlines that pass and on restarts
    None

VARIABLES
    kind,
    disk,       \* the cloud's view of a volume: [there, att, dev]
    labels,     \* the tags of a volume, a subset of {"sr", "user"}
    prints,     \* the fingerprint of the tags
    goal,       \* what the request for a volume wants now
    view,       \* what centrald believes of the volume
    call,       \* the plugin's call: [pc, seen, dev, labels, print]
    attachingNodeDevices,  \* device names handed out to calls under way (AWS)
    nvme,       \* the devices the kernel shows: the volume behind each name
    devCache,   \* what the plugin remembers of them in agentd
    looked,     \* the name last returned for a volume
    goals, faults

cloudVars == <<disk, labels, prints, nvme>>
agentVars == <<devCache, looked>>
vars == <<kind, disk, labels, prints, goal, view, call, attachingNodeDevices, nvme,
          devCache, looked, goals, faults>>

Device == 1..MaxDev
Idle == [pc |-> "idle", seen |-> {}, dev |-> 0, labels |-> {}, print |-> 0]
Name == 1..Cardinality(Vol)     \* nvme1n1, nvme2n1, ...
NoNames == [d \in Name |-> None]

Init ==
    /\ kind \in Kinds
    /\ disk = [v \in Vol |-> [there |-> TRUE, att |-> "detached", dev |-> 0]]
    /\ labels = [v \in Vol |-> {"sr"}]
    /\ prints = [v \in Vol |-> 0]
    /\ goal = [v \in Vol |-> "none"]
    /\ view = [v \in Vol |-> "detached"]
    /\ call = [v \in Vol |-> Idle]
    /\ attachingNodeDevices = {}
    /\ nvme = NoNames
    /\ devCache = NoNames
    /\ looked = [v \in Vol |-> None]
    /\ goals = 0
    /\ faults = 0

Fault == faults < MaxFaults /\ faults' = faults + 1
NoFault == UNCHANGED faults

Names(cache, v) == {d \in Name : cache[d] = v}

-----------------------------------------------------------------------------
(* What centrald asks for.                                                 *)

\* The next request for a volume; one that failed to attach is attached again
\* or detached.
Start(v, g) ==
    /\ goal[v] = "none" /\ goals < MaxGoals
    /\ \/ g = "attach" /\ view[v] \in {"detached", "unsure"}
       \/ g = "detach" /\ view[v] \in {"attached", "unsure"}
       \/ g = "delete" /\ view[v] = "detached"
       \/ g = "untag" /\ view[v] \in {"detached", "attached"}
    /\ goal' = [goal EXCEPT ![v] = g]
    /\ view' = [view EXCEPT ![v] = IF g = "untag" THEN @ ELSE "unsure"]
    /\ looked' = [looked EXCEPT ![v] = IF g = "detach" THEN None ELSE @]
    /\ goals' = goals + 1
    /\ UNCHANGED <<kind, cloudVars, call, attachingNodeDevices, devCache, faults>>

Begin(v) ==
    /\ goal[v] # "none" /\ call[v].pc = "idle"
    /\ call' = [call EXCEPT ![v] = [Idle EXCEPT !.pc = "start"]]
    /\ NoFault
    /\ UNCHANGED <<kind, cloudVars, goal, view, attachingNodeDevices, agentVars, goals>>

\* awsEC2VolumeDevicePathRelease, deferred.
Release(v) ==
    attachingNodeDevices' = IF call[v].pc \in {"call", "wait"} /\ call[v].print = 1
                            THEN attachingNodeDevices \ {call[v].dev} ELSE attachingNodeDevices

\* The call succeeds.
Ok(v) ==
    /\ call' = [call EXCEPT ![v] = Idle]
    /\ view' = [view EXCEPT ![v] = CASE goal[v] = "attach" -> "attached"
                                     [] goal[v] = "detach" -> "detached"
                                     [] goal[v] = "delete" -> "deleted"
                                     [] goal[v] = "untag" -> @]
    /\ goal' = [goal EXCEPT ![v] = "none"]
    /\ Release(v)

\* The call fails: a request to attach fails with it, a tag that cannot be
\* removed is ignored, the others are tried again.
Err(v) ==
    /\ call' = [call EXCEPT ![v] = Idle]
    /\ goal' = [goal EXCEPT ![v] = IF @ \in {"attach", "untag"} THEN "none" ELSE @]
    /\ UNCHANGED view
    /\ Release(v)

At(v, k, g, pc) == kind = k /\ goal[v] = g /\ call[v].pc = pc
Goto(v, pc) == call' = [call EXCEPT ![v].pc = pc] /\ UNCHANGED <<goal, view, attachingNodeDevices>>

\* The cloud acts on a call, or refuses it.
Att(v, att) == disk' = [disk EXCEPT ![v].att = att] /\ Goto(v, "wait")
Refused(v) == Err(v) /\ UNCHANGED disk

\* The answer is lost or the deadline passes.
CallFails(v) ==
    /\ call[v].pc # "idle"
    /\ Fault /\ Err(v)
    /\ UNCHANGED <<kind, cloudVars, agentVars, goals>>

\* centrald restarts; the requests are taken up again.
Restart ==
    /\ Fault
    /\ call' = [v \in Vol |-> Idle]
    /\ attachingNodeDevices' = {}
    /\ UNCHANGED <<kind, cloudVars, goal, view, agentVars, goals>>

-----------------------------------------------------------------------------
(* AWS.                                                                    *)

Mapped == {<<disk[u].dev, u>> : u \in {w \in Vol : disk[w].att # "detached"}}

\* awsEC2InstanceFetch: the block device mappings of the instance.
awsEC2InstanceFetch(v) ==
    /\ At(v, "AWS", "attach", "start")
    /\ call' = [call EXCEPT ![v].pc = "path", ![v].seen = Mapped]
    /\ UNCHANGED <<disk, goal, view, attachingNodeDevices>>

\* awsEC2VolumeDevicePath: the volume's device if it has one, or the first name
\* that is neither mapped nor handed out (print marks a new mapping).
awsEC2VolumeDevicePath_Unmapped(v) ==
    /\ At(v, "AWS", "attach", "path")
    /\ UNCHANGED disk
    /\ LET free == Device \ ({m[1] : m \in call[v].seen} \cup attachingNodeDevices)
       IN  \/ /\ free # {}
              /\ call' = [call EXCEPT ![v].pc = "call", ![v].dev = Min(free), ![v].print = 1]
              /\ attachingNodeDevices' = attachingNodeDevices \cup {Min(free)}
              /\ UNCHANGED <<goal, view>>
           \/ free = {} /\ Err(v)

awsEC2VolumeDevicePath(v) ==
    /\ At(v, "AWS", "attach", "path")
    /\ UNCHANGED disk
    /\ LET mine == {m \in call[v].seen : m[2] = v}
           free == Device \ ({m[1] : m \in call[v].seen} \cup attachingNodeDevices)
       IN  \/ mine # {} /\ Goto(v, "wait")
           \/ /\ mine = {} /\ free # {}
              /\ call' = [call EXCEPT ![v].pc = "call", ![v].dev = Min(free), ![v].print = 1]
              /\ attachingNodeDevices' = attachingNodeDevices \cup {Min(free)}
              /\ UNCHANGED <<goal, view>>
           \/ mine = {} /\ free = {} /\ Err(v)

\* AttachVolume: refused for a device or a volume in use.
awsEC2VolumeAttach(v) ==
    /\ At(v, "AWS", "attach", "call")
    /\ LET inUse == call[v].dev \in {m[1] : m \in Mapped}
       IN  \/ /\ disk[v].att = "detached" /\ ~inUse
              /\ disk' = [disk EXCEPT ![v].att = "attaching", ![v].dev = call[v].dev]
              /\ Goto(v, "wait")
           \/ (disk[v].att # "detached" \/ inUse) /\ Refused(v)

\* The waiter: until the attachment is there, or its attempts run out (CallFails).
awsEC2VolumeWaitForAttachmentState_Skipped(v) ==
    /\ At(v, "AWS", "attach", "wait")
    /\ UNCHANGED disk
    /\ disk[v].att # "detached" /\ Ok(v)

awsEC2VolumeWaitForAttachmentState(v) ==
    /\ At(v, "AWS", "attach", "wait")
    /\ disk[v].att = "attached" /\ Ok(v)
    /\ UNCHANGED disk

awsEC2VolumeDetach_Strict(v) ==
    \/ At(v, "AWS", "detach", "start") /\ disk[v].att = "attached" /\ Att(v, "detaching")
    \/ At(v, "AWS", "detach", "start") /\ disk[v].att # "attached" /\ Refused(v)
    \/ At(v, "AWS", "detach", "wait") /\ disk[v].att = "detached" /\ Ok(v) /\ UNCHANGED disk

\* A volume that is available counts as detached.
awsEC2VolumeDetach(v) ==
    \/ /\ At(v, "AWS", "detach", "start")
       /\ \/ disk[v].att = "detached" /\ Ok(v) /\ UNCHANGED disk
          \/ disk[v].att = "attached" /\ Att(v, "detaching")
          \/ disk[v].att \in {"attaching", "detaching"} /\ Refused(v)
    \/ At(v, "AWS", "detach", "wait") /\ disk[v].att = "detached" /\ Ok(v) /\ UNCHANGED disk

\* A volume that is not found counts as deleted.
awsEC2VolumeDelete(v) ==
    \/ /\ At(v, "AWS", "delete", "start")
       /\ \/ ~disk[v].there /\ Ok(v) /\ UNCHANGED disk
          \/ disk[v].there /\ disk[v].att = "detached" /\ Att(v, "deleting")
          \/ disk[v].att \notin {"detached"} /\ disk[v].there /\ Refused(v)
    \/ At(v, "AWS", "delete", "wait") /\ ~disk[v].there /\ Ok(v) /\ UNCHANGED disk

-----------------------------------------------------------------------------
(* Azure: a disk is attached and detached by writing the whole list of the *)
(* disks of its VM.                                                        *)

\* The list becomes what the caller wrote.
CreateOrUpdate(list) ==
    disk' = [u \in Vol |->
                IF \E m \in list : m[2] = u
                THEN [disk[u] EXCEPT !.att = "attached", !.dev = (CHOOSE m \in list : m[2] = u)[1]]
                ELSE [disk[u] EXCEPT !.att = "detached", !.dev = 0]]

AllThere(list) == \A m \in list : disk[m[2]].there

azVolumeAttach(v) ==
    \/ /\ At(v, "Azure", "attach", "start")
       /\ UNCHANGED disk
       /\ LET free == Device \ {m[1] : m \in Mapped}
          IN  \/ /\ free # {}
                 /\ call' = [call EXCEPT ![v].pc = "call", ![v].seen = Mapped, ![v].dev = Min(free)]
                 /\ UNCHANGED <<goal, view, attachingNodeDevices>>
              \/ free = {} /\ Err(v)
    \/ /\ At(v, "Azure", "attach", "call")
       /\ LET list == call[v].seen \cup {<<call[v].dev, v>>}
              twice == \E m \in call[v].seen : m[2] = v
          IN  \/ ~twice /\ AllThere(list) /\ CreateOrUpdate(list) /\ Goto(v, "refresh")
              \/ (twice \/ ~AllThere(list)) /\ Refused(v)
    \/ /\ At(v, "Azure", "attach", "refresh")
       /\ UNCHANGED disk
       /\ \/ disk[v].att = "attached" /\ Ok(v)
          \/ disk[v].att # "attached" /\ Err(v)   \* no attachment to take the device from

azVolumeDetach(v) ==
    \/ /\ At(v, "Azure", "detach", "start")
       /\ UNCHANGED disk
       /\ \/ /\ disk[v].att = "attached"
             /\ call' = [call EXCEPT ![v].pc = "call", ![v].seen = Mapped]
             /\ UNCHANGED <<goal, view, attachingNodeDevices>>
          \/ disk[v].att # "attached" /\ Ok(v)
    \/ /\ At(v, "Azure", "detach", "call")
       /\ LET list == {m \in call[v].seen : m[2] # v}
          IN  \/ AllThere(list) /\ CreateOrUpdate(list) /\ Goto(v, "refresh")
              \/ ~AllThere(list) /\ Refused(v)
    \/ At(v, "Azure", "detach", "refresh") /\ Ok(v) /\ UNCHANGED disk

azVolumeDelete(v) ==
    /\ At(v, "Azure", "delete", "start")
    /\ \/ disk[v].att = "attached" /\ Refused(v)
       \/ disk[v].att = "detached" /\ disk' = [disk EXCEPT ![v].there = FALSE] /\ Ok(v)

-----------------------------------------------------------------------------
(* Google: nothing is known of a volume that is attached, detached or gone *)
(* already.                                                                *)

gceVolumeAttach(v) ==
    \/ /\ At(v, "GCE", "attach", "start")
       /\ \/ /\ disk[v].att = "detached"
             /\ Att(v, "attaching")
          \/ disk[v].att # "detached" /\ Refused(v)
    \/ At(v, "GCE", "attach", "wait") /\ disk[v].att = "attached" /\ Ok(v) /\ UNCHANGED disk

gceVolumeDetach(v) ==
    \/ /\ At(v, "GCE", "detach", "start")
       /\ \/ disk[v].att = "attached" /\ Att(v, "detaching")
          \/ disk[v].att # "attached" /\ Refused(v)
    \/ At(v, "GCE", "detach", "wait") /\ disk[v].att = "detached" /\ Ok(v) /\ UNCHANGED disk

gceVolumeDelete(v) ==
    \/ /\ At(v, "GCE", "delete", "start")
       /\ \/ disk[v].there /\ disk[v].att = "detached" /\ Att(v, "deleting")
          \/ ~(disk[v].there /\ disk[v].att = "detached") /\ Refused(v)
    \/ At(v, "GCE", "delete", "wait") /\ ~disk[v].there /\ Ok(v) /\ UNCHANGED disk

-----------------------------------------------------------------------------
(* Tags.                                                                   *)

\* intSetLabels replaces all labels, under the fingerprint of those it read,
\* and starts again when they changed.
intSetLabels(v) ==
    \/ /\ At(v, "GCE", "untag", "start")
       /\ call' = [call EXCEPT ![v].pc = "call", ![v].labels = labels[v], ![v].print = prints[v]]
       /\ UNCHANGED <<goal, view, attachingNodeDevices, labels, prints>>
    \/ /\ At(v, "GCE", "untag", "call")
       /\ \/ /\ call[v].print = prints[v]
             /\ labels' = [labels EXCEPT ![v] = call[v].labels \ {"sr"}]
             /\ prints' = [prints EXCEPT ![v] = @ + 1]
             /\ Ok(v)
          \/ /\ call[v].print # prints[v]
             /\ Goto(v, "start")
             /\ UNCHANGED <<labels, prints>>

\* AWS removes the tag named; Azure reports success and does nothing.
VolumeTagsDelete(v) ==
    \/ /\ At(v, "AWS", "untag", "start")
       /\ labels' = [labels EXCEPT ![v] = @ \ {"sr"}]
       /\ Ok(v) /\ UNCHANGED prints
    \/ At(v, "Azure", "untag", "start") /\ Ok(v) /\ UNCHANGED <<labels, prints>>

\* Somebody else labels the volume.
UserLabels(v) ==
    /\ disk[v].there /\ "user" \notin labels[v] /\ goal[v] = "untag"
    /\ labels' = [labels EXCEPT ![v] = @ \cup {"user"}]
    /\ prints' = [prints EXCEPT ![v] = @ + 1]
    /\ UNCHANGED <<kind, disk, nvme, goal, view, call, attachingNodeDevices, agentVars, goals, faults>>

-----------------------------------------------------------------------------
(* The cloud completes what it began; the kernel of the node follows.      *)

Cloud(v) ==
    /\ \/ /\ disk[v].att = "attaching"
          /\ disk' = [disk EXCEPT ![v].att = "attached"]
          /\ LET free == {d \in Name : nvme[d] = None}
             IN  nvme' = [nvme EXCEPT ![Min(free)] = v]
       \/ /\ disk[v].att = "detaching"
          /\ disk' = [disk EXCEPT ![v].att = "detached", ![v].dev = 0]
          /\ nvme' = [d \in Name |-> IF nvme[d] = v THEN None ELSE nvme[d]]
       \/ /\ disk[v].att = "deleting"
          /\ disk' = [disk EXCEPT ![v].att = "detached", ![v].there = FALSE]
          /\ UNCHANGED nvme
    /\ UNCHANGED <<kind, labels, prints, goal, view, call, attachingNodeDevices, agentVars, goals, faults>>

-----------------------------------------------------------------------------
(* findLocalNVMeDeviceByID in agentd: look, add the names not yet cached,  *)
(* look, forget the cache, look.                                           *)

\* loadLocalDevicesLocked; a name that is cached is not identified again, one
\* that is gone stays.
loadLocalDevices(cache, reloadEBS) ==
    [d \in Name |-> IF ~reloadEBS /\ cache[d] # None THEN cache[d] ELSE nvme[d]]

Found(v, cache) ==
    /\ devCache' = cache
    /\ looked' = [looked EXCEPT ![v] = IF Names(cache, v) = {} THEN None ELSE CHOOSE d \in Names(cache, v) : TRUE]

findLocalNVMeDeviceByID(v) ==
    /\ kind = "AWS" /\ view[v] = "attached"
    /\ LET filled == loadLocalDevices(devCache, FALSE)
       IN  Found(v, IF Names(devCache, v) # {} THEN devCache
                    ELSE IF Names(filled, v) # {} THEN filled
                    ELSE loadLocalDevices(filled, TRUE))
    /\ UNCHANGED <<kind, cloudVars, goal, view, call, attachingNodeDevices, goals, faults>>

-----------------------------------------------------------------------------
VolumeCall(v) ==
    \/ awsEC2InstanceFetch(v) \/ awsEC2VolumeDevicePath(v) \/ awsEC2VolumeAttach(v)
    \/ awsEC2VolumeWaitForAttachmentState(v) \/ awsEC2VolumeDetach(v) \/ awsEC2VolumeDelete(v)
    \/ azVolumeAttach(v) \/ azVolumeDetach(v) \/ azVolumeDelete(v)
    \/ gceVolumeAttach(v) \/ gceVolumeDetach(v) \/ gceVolumeDelete(v)

TagCall(v) == intSetLabels(v) \/ VolumeTagsDelete(v)

Call(v) ==
    \/ Begin(v)
    \/ VolumeCall(v) /\ NoFault /\ UNCHANGED <<kind, labels, prints, nvme, agentVars, goals>>
    \/ TagCall(v) /\ NoFault /\ UNCHANGED <<kind, disk, nvme, agentVars, goals>>

Next ==
    \/ \E v \in Vol, g \in {"attach", "detach", "delete", "untag"} : Start(v, g)
    \/ \E v \in Vol : Call(v) \/ CallFails(v) \/ Cloud(v) \/ UserLabels(v) \/ findLocalNVMeDeviceByID(v)
    \/ Restart

\* A call goes on, and the cloud completes what it accepted.
Fairness == \A v \in Vol : WF_vars(Call(v)) /\ WF_vars(Cloud(v))

Spec == Init /\ [][Next]_vars /\ Fairness

-----------------------------------------------------------------------------
(***************************************************************************)
(* Properties                                                              *)
(***************************************************************************)

Succeeds(v, g) == goal[v] = g /\ goal'[v] = "none" /\ (view'[v] # view[v] \/ g = "untag")
Fails(v, g) == goal[v] = g /\ call[v].pc # "idle" /\ call'[v].pc = "idle" /\ ~Succeeds(v, g)

\* What StorageRequest assumes of an operation that succeeds: the volume is
\* attached, detached or gone when centrald records it, though the cloud was
\* still at it when it answered, an earlier call was given up half way and
\* other volumes are attached meanwhile; a removed tag takes no other with it.
\* (On Azure the calls for two disks of a VM undo one another.)
AnswerIsTrue ==
    kind # "Azure" =>
       \A v \in Vol :
          /\ Succeeds(v, "attach") => disk'[v].att = "attached"
          /\ Succeeds(v, "detach") => disk'[v].att = "detached"
          /\ Succeeds(v, "delete") => ~disk'[v].there
          /\ goal[v] = "untag" /\ "user" \in labels[v] => "user" \in labels'[v]

\* attachStorage relies on it: to attach a volume that is attached already, by
\* a call whose answer was lost, is no error (AWS only).
AttachRepeats ==
    \A v \in Vol : kind = "AWS" /\ Fails(v, "attach") /\ faults' = faults => disk[v].att # "attached"

\* agentd finds the device of an attached volume, whatever its cache remembers
\* of volumes that were attached under the same names before.
AttachedIsFound ==
    \A v \in Vol : findLocalNVMeDeviceByID(v) /\ Names(nvme, v) # {} => looked'[v] # None

\* What the callers of the plugins rely on, at every step.
PluginKeepsItsWord == [][AnswerIsTrue /\ AttachRepeats /\ AttachedIsFound]_vars

\* The same of every plugin, as ErrorVolumeNotAttached and ErrorVolumeNotFound
\* are documented.
EveryRetrySucceeds == \A v \in Vol : []<>(goal[v] = "none")

\* awsEC2VolumeDevicePath returns a device path that is not in use.
DeviceIsFree ==
    \A v \in Vol : kind = "AWS" /\ goal[v] = "attach" /\ call[v].pc = "call" =>
        call[v].dev \notin {disk[u].dev : u \in {w \in Vol \ {v} : disk[w].att # "detached"}}

\* LocalInstanceDeviceName returns the name the volume has now.
NameIsCurrent == \A v \in Vol : looked[v] # None => nvme[looked[v]] = v
=============================================================================
