------------------------------- MODULE VmLib -------------------------------
(***************************************************************************)
(* tests_lib/low_level/vms.py: life of a VM, its disks, NICs, snapshots.   *)
(* v is a VM, d a disk, n a NIC, s a snapshot.  "moved" is 'up' on another *)
(* host than before.  The flag "wait" stands for wait=True or async=false. *)
(***************************************************************************)
EXTENDS DiskLib

(* The engine's part (external) *)

vmCreate == Create(<<"image_locked", "down">>, "never")
vmDelete == Delete({"down", "illegal"}, <<"image_locked", "none">>)
vmStart ==
    Action({"down", "suspended", "paused"},
           <<"wait_for_launch", "powering_up", "up">>, "down")
vmStartPaused == Action({"down"}, <<"wait_for_launch", "paused">>, "down")
vmStop ==
    Action({"up", "moved", "powering_up", "paused", "suspended", "migrating"},
           <<"powering_down", "down">>, "never")
vmShutdown ==
    Action({"up", "moved", "powering_up"}, <<"powering_down", "down">>, "up")
vmSuspend == Action({"up", "moved"}, <<"saving_state", "suspended">>, "up")
vmMigrate == Action({"up"}, <<"migrating", "moved">>, "up")
vmDetach == Action({"down"}, <<>>, "never")
vmExport == Action({"down"}, <<"image_locked", "down">>, "never")
vmTicket == Action({"up"}, <<>>, "never")
nicCreate == Create(<<"ok">>, "never")
nicDelete == Delete({"ok"}, <<"none">>)
snapCreate == Create(<<"locked", "ok">>, "never")
snapDelete == Delete({"ok"}, <<"locked", "none">>)

-----------------------------------------------------------------------------
(* The object that is sent: the entities that it refers to are looked up.  *)

prepare_vm_object ==
    << Maybe(<<See({"snapshot"}, Statuses)>>), Maybe(<<Find("template")>>),
       Maybe(<<Find("cluster")>>), Maybe(<<Find("host")>>),
       Maybe(<<Find("sd")>>) >>

addVm(v) ==
    prepare_vm_object \o prepare_vm_object \o << Req(v, vmCreate) >>
    \o ThenWait(<<Wait(v, {"down"})>>)

updateVm(v) ==
    << Find(v) >> \o prepare_vm_object \o << Req(v, Update), Ret("res") >>

-----------------------------------------------------------------------------
(* Status changes *)

\* Mutant: the status is not waited for.
changeVMStatusNoWait(v, action, expectedStatus) ==
    << Find(v), Req(v, action), Ret("res") >>

\* Mutant: the status of the action is returned.
changeVMStatusRaw(v, action, expectedStatus) ==
    << Find(v), Req(v, action), Ret("status") >>

changeVMStatus(v, action, expectedStatus) ==
    << Find(v), Req(v, action) >> \o ThenWait(<<WaitOnly(v, expectedStatus)>>)

stopVm(v) == changeVMStatus(v, vmStop, {"down"})

stop_vms(v, w) ==
    << Pass(stopVm(v), {"wait"}, {"positive"}), Keep,
       Pass(stopVm(w), {"wait"}, {"positive"}), Keep, Ret("acc") >>

waitForVmsGone(vs) == waitUntilGone(vs)

\* Mutant: `positive` is not passed on.
removeVmAlways(v) ==
    << Look(v, {"down"}),
       If(<<>>, <<When("stopVM", <<CallPos(stopVm(v)), OrFalse>>, <<>>)>>),
       Do(v, vmDelete) >>
    \o ThenWait(<<CallPos(waitForVmsGone({v}))>>)

removeVm(v) ==
    << Look(v, {"down"}),
       If(<<>>, <<When("stopVM", <<CallPos(stopVm(v)), OrFalse>>, <<>>)>>),
       Req(v, vmDelete) >>
    \o ThenWait(<<CallPos(waitForVmsGone({v}))>>)

removeVmAsynch(v) ==
    << Try(<< Look(v, {"down"}),
              If(<<>>, <<When("stopVM", <<CallPos(stopVm(v)), OrFalse>>,
                              <<>>)>>),
              Req(v, vmDelete), Ret("res") >>,
           {"EntityNotFound"}, <<Ret("true")>>) >>

removeVms(v, w) ==
    << When("positive", <<>>, <<Raise("Error")>>),
       When("stopVM", <<NoWait(stop_vms(v, w))>>, <<>>),
       Fork(<<removeVmAsynch(v), removeVmAsynch(w)>>, {"positive"}, "false"),
       Keep, CallPos(waitForVmsGone({v, w})), Keep, Ret("acc") >>

waitForVMState(v, state) == << Query({v}, state), Ret("res") >>

waitForVmsStates(v, w, states) ==
    << Find(v), Find(w), Call(waitForVMState(v, states)), OrFalse,
       Call(waitForVMState(w, states)), OrFalse, Ret("true") >>

checkVmState(v, state) ==
    << Look(v, state), Maybe(<<Find("host"), See({v}, state)>>),
       Ret("same") >>

wait_for_vm_ip(v) ==
    << Demand(v, {"powering_up", "up", "moved"}), OrFalse, Query({"ip"}, {"ok"}),
       Ret("res") >>

startVm(v, wait_for_status) ==
    << Find(v), Maybe(<<Call(updateVm(v)), OrFalse>>),
       When("pause",
            <<Req(v, vmStartPaused), OrFalse, Query({v}, {"paused", "up"})>>,
            <<Req(v, vmStart), OrFalse, When("wait", <<>>, <<Ret("true")>>),
              When("positive", <<>>, <<Ret("true")>>),
              Query({v}, wait_for_status \cup {"up"})>>),
       If(<<When("wait_for_ip", <<Call(wait_for_vm_ip(v))>>, <<>>)>>, <<>>),
       Ret("same") >>

\* Mutant: the VM is started while it is still going down.
restartVmAtOnce(v) ==
    << Call(checkVmState(v, {"down"})),
       If(<<>>, <<NoWait(stopVm(v)), OrFalse>>),
       Pass(startVm(v, {"up"}), {"wait_for_ip"}, {"positive", "wait"}),
       Ret("res") >>

\* async='true' is passed on to stopVm.
restartVm(v) ==
    << Call(checkVmState(v, {"down"})),
       If(<<>>, <<When("async", <<NoWait(stopVm(v))>>, <<Call(stopVm(v))>>),
                  OrFalse>>),
       Pass(startVm(v, {"up"}), {"wait_for_ip"}, {"positive", "wait"}),
       Ret("res") >>

startVms(v, w) ==
    << Fork(<<startVm(v, {"powering_up"}), startVm(w, {"powering_up"})>>,
            {"positive", "wait"}, "false"), Ret("res") >>

detachVm(v) ==
    << Remember(v), Req(v, vmDetach), OrFalse >> \o ThenWaitP(<<WaitSame(v)>>)

runVmOnce(v) ==
    << Find(v), Maybe(<<Find("host")>>),
       When("pause", <<Req(v, vmStartPaused)>>, <<Req(v, vmStart)>>),
       When("positive",
            <<If(<<When("pause", <<Wait(v, {"paused"})>>,
                        <<Wait(v, {"powering_up", "up"})>>)>>, <<>>)>>, <<>>),
       Ret("res") >>

suspendVm(v) ==
    << Find(v), Wait(v, {"up"}), OrFalse, Req(v, vmSuspend), OrFalse,
       When("wait", <<When("positive",
                <<WaitOnly(v, {"suspended"}), Ret("res")>>, <<>>)>>, <<>>),
       Ret("true") >>

collect_vm_logs(v) ==
    << Find(v), Query({"ip"}, {"ok"}), OrFalse, Either(<<Ret("true")>>,
       <<Ret("false")>>) >>

shutdownVm(v) ==
    << Call(collect_vm_logs(v)),
       Pass(changeVMStatus(v, vmShutdown, {"down"}), {"positive", "wait"}, {}),
       Ret("res") >>

migrateVm(v) ==
    << Demand(v, {"up", "moved", "paused", "powering_up"}), OrFalse,
       Maybe(<<Find("host")>>), Req(v, vmMigrate), OrFalse,
       When("wait", <<>>, <<Ret("true")>>),
       When("positive", <<>>, <<Ret("true")>>),
       Wait(v, {"up", "moved"}), OrFalse, Look(v, {"moved"}), OrFalse,
       Ret("true") >>

ticketVm(v) == << Find(v), Req(v, vmTicket), Ret("res") >>

addTagToVm(v) ==
    << Find(v), Req("tag", New), Ret("res") >>

removeTagFromVm(v) ==
    << Find(v), Find("tag"), Req("tag", Drop),
       Ret("res") >>

exportVm(v) ==
    << Remember(v), Req(v, vmExport) >> \o ThenWaitP(<<WaitSame(v)>>)

importVm(v) ==
    << Find("export"), Req(v, vmCreate),
       When("wait", <<>>, <<Ret("res")>>) >>
    \o ThenWaitP(<<Call(waitForVMState(v, {"down"}))>>)

-----------------------------------------------------------------------------
(* Disks and CD of a VM *)

getVmDisks(v) == << Maybe(<<Find("sd")>>), Find(v) >>

addDisk(v, d) ==
    << Maybe(<<Find("sd")>>), Find(v), Req(d, diskCreate) >>
    \o ThenWait(<<Find(d), Wait(d, {"ok"})>>)

removeDisk(v, d) ==
    getVmDisks(v) \o << Check({d}, Statuses), OrFalse, Req(d, diskDelete) >>
    \o ThenWait(getVmDisks(v) \o <<SampleOld({d}, {"none"}), Ret("true")>>)

waitForDisksStat(v, d, e) ==
    getVmDisks(v) \o << Wait(d, {"ok"}), Wait(e, {"ok"}), Ret("res") >>

getCdRomsObjList(v) == << Find(v) >> \o First("cdrom")

changeCDWhileRunning(v) ==
    getCdRomsObjList(v) \o << Do("cdrom", Update), Ret("res") >>

attach_cdrom_vm(v) ==
    getCdRomsObjList(v) \o << Req("cdrom", Update), Ret("res") >>

eject_cdrom_vm(v) ==
    getCdRomsObjList(v) \o << Do("cdrom", Update), Ret("res") >>

-----------------------------------------------------------------------------
(* NICs *)

prepareNicObj(v) ==
    << Maybe(<<Find(v), Find("cluster"), Maybe(<<Find("profile")>>)>>) >>

addNic(v, n) ==
    << Remember(v) >> \o prepareNicObj(v)
    \o << Find(v), Req(n, nicCreate), OrFalse >> \o ThenWaitP(<<WaitSame(v)>>)

updateNic(v, n) ==
    prepareNicObj(v) \o << Find(v), Find(n), Req(n, Update), Ret("res") >>

removeNic(v, n) ==
    << Remember(v), Find(v), Find(n), Req(n, nicDelete), OrFalse >>
    \o ThenWaitP(<<WaitSame(v)>>)

getVmMacAddress(v, n) ==
    << Try(<<Find(v), Find(n), Ret("true")>>, {"EntityNotFound"},
           <<Ret("false")>>) >>

-----------------------------------------------------------------------------
(* Snapshots.  _getVmSnapshot answers None when there is none. *)

getVmSnapshot(v, s) == << Find(v), Check({s}, Statuses) >>

validateSnapshot(v, s) ==
    << Try(<<Find(v), Ret("true")>>, {"EntityNotFound"}, <<Ret("false")>>) >>

addSnapshot(v, s) ==
    << Maybe(<<Find("disk")>>), Find(v), Req(s, snapCreate), Keep,
       When("wait", <<Call(wait_for_jobs)>>, <<>>),
       Try(<<Find(v)>>, {"EntityNotFound"}, <<Ret("negative")>>),
       When("wait", <<When("positive",
            <<See({s}, Statuses), OrRaise("Error"), Wait(s, {"ok"}), Keep,
              If(<<CallPos(validateSnapshot(v, s)), Keep>>, <<>>)>>,
            <<>>)>>, <<>>),
       Ret("acc") >>

wait_for_snapshot_gone(v, s) ==
    << Find(v), Sample({s}, {"none"}), Ret("true") >>

removeSnapshot(v, s) ==
    getVmSnapshot(v, s) \o << OrRaise("Error"), Req(s, snapDelete), OrFalse,
       When("wait", <<When("positive",
            <<Call(wait_for_snapshot_gone(v, s)), Ret("res")>>, <<>>)>>, <<>>),
       Ret("true") >>

-----------------------------------------------------------------------------
(* Clones, complete VMs *)

createVmForClone ==
    prepare_vm_object \o << Either(<<Find("template")>>, <<Find("vm")>>),
                            Maybe(<<Find("sd")>>) >>

cloneVmFromTemplate(v) ==
    createVmForClone \o createVmForClone \o << Req(v, vmCreate) >>
    \o ThenWait(<<Wait(v, {"down"})>>)

cloneVmFromSnapshot(v) ==
    createVmForClone \o createVmForClone \o << Req(v, vmCreate) >>
    \o ThenWait(<<Wait(v, {"down"})>>)

remove_locked_vm(v) ==
    << Call(removeVm(v)), If(<<Ret("true")>>, <<>>),
       Call(update_vm_status_in_database(v)),
       If(<<Call(removeVm(v)), Ret("res")>>, <<Ret("false")>>) >>

\* add_watchdog is called with names of arguments that it does not have.
createVm(v, n, d) ==
    << CallPos(addVm(v)), OrFalse,
       When("nic", <<CallPos(addNic(v, n)), OrFalse>>, <<>>),
       When("disk", <<CallPos(addDisk(v, d)), OrFalse>>, <<>>),
       When("watchdog", <<Raise("Error")>>, <<>>),
       When("start", <<CallPos(startVm(v, {"powering_up"})), Ret("res")>>,
            <<>>),
       Ret("true") >>

-----------------------------------------------------------------------------
PW == {"positive", "wait"}
P == {"positive"}
Down == [vm |-> {"down", "up"}]
Runs == [vm |-> {"up", "down", "none"}]
Ip == [ip |-> {"ok", "soon", "none"}]
Two == [vm |-> {"down"}, vm2 |-> {"down", "none"}]

VmCalls == {
    Fn("addVm", addVm("vm"), PW, [vm |-> {"none", "down"}], [vm |-> {"down"}]),
    Asks("updateVm", updateVm("vm"), P, Down, "vm"),
    Fn("stopVm", stopVm("vm"), PW, Runs, [vm |-> {"down"}]),
    Fn("stop_vms", stop_vms("vm", "vm2"), {"wait"},
       [vm |-> {"up"}, vm2 |-> {"up", "down"}],
       [vm |-> {"down"}, vm2 |-> {"down"}]),
    Fn("removeVm", removeVm("vm"), PW \cup {"stopVM"}, Runs, [vm |-> {"none"}]),
    Fn("removeVms", removeVms("vm", "vm2"), {"positive"},
       [vm |-> {"down", "up"}, vm2 |-> {"down", "up", "none"}],
       [vm |-> {"none"}, vm2 |-> {"none"}]),
    Fn("waitForVmsStates", waitForVmsStates("vm", "vm2", {"up"}), {},
       [vm |-> {"powering_up", "up"}, vm2 |-> {"powering_up", "down"}],
       [vm |-> {"up"}, vm2 |-> {"up"}]),
    Fn("checkVmState", Direct(checkVmState("vm", {"down"})), {}, Runs,
       [vm |-> {"down"}]),
    Fn("startVm", startVm("vm", {"powering_up"}),
       PW \cup {"pause", "wait_for_ip"}, Runs @@ Ip,
       [vm |-> {"powering_up", "up", "paused"}]),
    Fn("restartVm", restartVm("vm"), {"wait_for_ip"}, Runs @@ Ip,
       [vm |-> {"up"}]),
    Fn("startVms", startVms("vm", "vm2"), {}, Two,
       [vm |-> {"powering_up", "up"}, vm2 |-> {"powering_up", "up"}]),
    Fn("detachVm", detachVm("vm"), P, Down, [vm |-> {"down", "up"}]),
    Fn("runVmOnce", runVmOnce("vm"), P \cup {"pause"}, Runs,
       [vm |-> {"powering_up", "up", "paused"}]),
    Fn("suspendVm", suspendVm("vm"), PW, [vm |-> {"up", "down", "powering_up"}],
       [vm |-> {"suspended"}]),
    Fn("shutdownVm", shutdownVm("vm"), PW, Down @@ Ip, [vm |-> {"down"}]),
    Fn("migrateVm", migrateVm("vm"), PW, Runs, [vm |-> {"moved"}]),
    Asks("ticketVm", ticketVm("vm"), P, Runs, "vm"),
    Asks("addTagToVm", addTagToVm("vm"), P, [vm |-> {"up", "none"}, tag |-> {"none"}],
         "tag"),
    Asks("removeTagFromVm", removeTagFromVm("vm"), P,
         [vm |-> {"up"}, tag |-> {"ok", "none"}], "tag"),
    Fn("exportVm", exportVm("vm"), P, Down, [vm |-> {"down"}]),
    Fn("importVm", importVm("vm"), PW, [vm |-> {"none"}, export |-> {"ok", "none"}],
       [vm |-> {"down"}]),
    Fn("addDisk", addDisk("vm", "disk"), PW,
       [vm |-> {"down"}, disk |-> {"none"}], [disk |-> {"ok"}]),
    Asks("changeCDWhileRunning", changeCDWhileRunning("vm"), {},
         [vm |-> {"up"}, cdrom |-> {"ok", "none"}], "cdrom"),
    Asks("attach_cdrom_vm", attach_cdrom_vm("vm"), P,
         [vm |-> {"up"}, cdrom |-> {"ok", "none"}], "cdrom"),
    Asks("eject_cdrom_vm", eject_cdrom_vm("vm"), {},
         [vm |-> {"up"}, cdrom |-> {"ok", "none"}], "cdrom"),
    Asks("addNic", addNic("vm", "nic"), P,
         [vm |-> {"down", "up"}, nic |-> {"none"}], "nic"),
    Asks("updateNic", updateNic("vm", "nic"), P,
         [vm |-> {"up"}, nic |-> {"ok", "none"}], "nic"),
    Asks("removeNic", removeNic("vm", "nic"), P,
         [vm |-> {"up"}, nic |-> {"ok", "none"}], "nic"),
    Reads("getVmMacAddress", getVmMacAddress("vm", "nic"),
         [vm |-> {"up"}, nic |-> {"ok", "none"}], "nic"),
    Fn("addSnapshot", addSnapshot("vm", "snapshot"), PW,
       [vm |-> {"up"}, snapshot |-> {"none"}, job |-> {"started", "ok"}],
       [snapshot |-> {"ok"}]),
    Fn("removeSnapshot", removeSnapshot("vm", "snapshot"), PW,
       [vm |-> {"up"}, snapshot |-> {"ok", "none"}], [snapshot |-> {"none"}]),
    Fn("cloneVmFromTemplate", cloneVmFromTemplate("vm"), PW, [vm |-> {"none"}],
       [vm |-> {"down"}]),
    Fn("cloneVmFromSnapshot", cloneVmFromSnapshot("vm"), PW, [vm |-> {"none"}],
       [vm |-> {"down"}]),
    Fn("remove_locked_vm", remove_locked_vm("vm"), {},
       [vm |-> {"locked_for_good", "down"}], [vm |-> {"none"}]),
    Fn("createVm", createVm("vm", "nic", "disk"), {"nic", "disk", "start"},
       [vm |-> {"none", "down"}, nic |-> {"none"}, disk |-> {"none"}],
       [vm |-> {"powering_up", "up", "down"}]) }

\* Send a request before the engine is ready for it: see README.
AsyncCalls == {
    Fn("restartVm", restartVm("vm"), {"wait_for_ip", "async"}, Runs @@ Ip,
       [vm |-> {"up"}]),
    Fn("removeVms", removeVms("vm", "vm2"), {"positive", "stopVM"},
       [vm |-> {"down", "up"}, vm2 |-> {"down", "up", "none"}],
       [vm |-> {"none"}, vm2 |-> {"none"}]) }
=============================================================================
