----------------------------- MODULE VmPartsLib -----------------------------
(***************************************************************************)
(* tests_lib/low_level/vms.py, continued: disks of a VM that are switched  *)
(* and moved, snapshots, groups of VMs, and the devices of a VM.  v is a   *)
(* VM, d a disk, a its attachment, s a snapshot, vs a sequence of VMs.     *)
(***************************************************************************)
EXTENDS VmLib

(* The engine's part (external) *)

vmReboot == Act({"up", "powering_up"})
vmPreview == Action({"down"}, <<"image_locked", "down">>, "never")

-----------------------------------------------------------------------------
(* Look-ups *)

get_vm_obj(v) == First(v)

get_vm(v) == << Find(v) >>

get_vm_state(v) == Get(v)

does_vm_exist(v) ==
    << Try(<<Find(v)>>, {"EntityNotFound"}, <<Ret("false")>>), Ret("true") >>

get_vm_host(v) ==
    << Try(<<Find(v), Find("host"), Ret("true")>>, {"EntityNotFound"},
           <<Ret("none")>>) >>

get_vm_nic(v, n) == << Find(v), Find(n) >>

get_vm_nic_mac_address(v, n) ==
    << Try(get_vm_nic(v, n) \o <<Ret("true")>>, {"EntityNotFound"},
           <<Ret("false")>>) >>

check_vnic_on_vm_nic(v, n) ==
    << Try(get_vm_nic(v, n), {"EntityNotFound"}, <<Ret("false")>>),
       Maybe(<<Find("profile")>>), Ret("true") >>

\* the entity is plugged when it is "active"
get_vm_nic_plugged(v, n) ==
    << Find(v), Demand(n, {"active"}), Ret("same") >>

get_vm_nic_linked(v, n) ==
    << Find(v), Demand(n, {"active"}), Ret("same") >>

check_vm_nic_profile(v, n) ==
    get_vm_nic(v, n) \o << Check({"profile"}, {"ok"}), Ret("res") >>

getVmPayloads(v) == << Check({v}, Statuses), Ret("res") >>

getVmTemplateId(v) ==
    << Try(<<Find(v)>>, {"EntityNotFound"}, <<Raise("Error")>>), Ret("true") >>

get_vm_snapshots(v) == << Find(v), Ret("true") >>

get_snapshot_disks(v, s) ==
    getVmSnapshot(v, s) \o << OrRaise("Error") >>

is_bootable_disk(v, a) == get_disk_attachment(v, a) \o << OrRaise("Error") >>

get_vm_bootable_disk_object(v, a, d) ==
    getVmDisks(v) \o is_bootable_disk(v, a) \o << Find(d) >>

get_vm_bootable_disk(v, a, d) ==
    get_vm_bootable_disk_object(v, a, d) \o << Ret("true") >>

get_vms_disks_storage_domain_name(v, d) ==
    getVmDisks(v) \o << Check({d}, Statuses), OrRaise("EntityNotFound"),
                        Find("sd"), Ret("true") >>

get_vm_placement_hosts(v) == get_vm_obj(v) \o << Find("host"), Ret("true") >>

get_vms_objects_from_storage_domain ==
    << Try(<<Find("sd")>>, {"EntityNotFound"}, <<Ret("true")>>), Ret("true") >>

get_snapshot_description_in_preview(v, s) ==
    << Find(v), See({s}, {"in_preview"}), Ret("true") >>

get_vm_numa_nodes(v) == get_vm_obj(v)

get_vm_numa_node_by_index(v) ==
    get_vm_numa_nodes(v) \o << Check({"numa"}, Statuses) >>

get_watchdog_collection(v) == get_vm_obj(v) \o << Check({"watchdog"}, Statuses) >>

get_vm_host_devices_link(v) == get_vm_obj(v)

get_vm_host_devices(v) == get_vm_obj(v)

get_vm_host_device_by_name(v) ==
    get_vm_host_devices(v) \o << Check({"device"}, Statuses) >>

-----------------------------------------------------------------------------
(* Disks of a VM *)

wait_for_vm_disk_active_status(v, a, active) ==
    << Find(v), WatchQ(a, active), Ret("res") >>

changeVmDiskState(v, a, d, op, active) ==
    << When("no_disk", <<Ret("false")>>, <<>>) >> \o getVmDisk(v, a, d)
    \o << Pass(updateDisk(v, a, d, op), {"positive"}, {}),
          When("wait",
               <<If(<<When("positive",
                           <<Call(wait_for_vm_disk_active_status(v, a, active)),
                             Ret("same")>>,
                           <<Wait(d, {"ok"}), Ret("res")>>)>>, <<>>)>>, <<>>),
          Ret("res") >>

activateVmDisk(v, a, d) == changeVmDiskState(v, a, d, activate, {"active"})

deactivateVmDisk(v, a, d) == changeVmDiskState(v, a, d, deactivate, {"inactive"})

validateVmDisks(v, d) ==
    get_disk_attachments(v) \o get_disk_list_from_disk_attachments(d)
    \o << Check({d}, {"ok"}), If(<<Ret("positive")>>, <<Ret("negative")>>) >>

waitForVmsDisks(v, d) ==
    << Find(v), Query({d}, {"ok", "moved", "none"}), Ret("res") >>

wait_for_vm_snapshots(v, s, states) ==
    << Find(v), Sample({s}, states \cup {"none"}), Ret("none") >>

\* The result of the wait is not looked at, and the disk is active all the
\* time.
move_vm_disk(v, a, d, s) ==
    get_disk_storage_domain_name(v, a, d) \o << Find("sd") >>
    \o getVmDisk(v, a, d)
    \o << When("verify_no_snapshot_operation_occur",
               <<Call(wait_for_vm_snapshots(v, s, {"ok"}))>>, <<>>),
          Do(d, diskMove), OrRaise("Error"),
          When("wait", <<Call(wait_for_vm_disk_active_status(v, a, {"active"}))>>,
               <<>>),
          Ret("none") >>

migrate_vm_disk(v, a, d, s) ==
    << Pass(move_vm_disk(v, a, d, s),
            {"wait", "verify_no_snapshot_operation_occur"}, {"positive"}),
       When("wait",
            getVmDisk(v, a, d)
            \o << Find("sd"), Watch(d, {"moved"}),
                  Call(wait_for_disks_status({d})), Call(wait_for_jobs),
                  Call(wait_for_jobs), Call(wait_for_vm_snapshots(v, s, {"ok"}))
               >>, <<>>),
       Ret("none") >>

verify_vm_disk_moved(v, a, d) ==
    get_disk_storage_domain_name(v, a, d)
    \o << Check({d}, {"moved"}), Ret("res") >>

extend_vm_disk_size(v, a, d) ==
    << CallPos(updateDisk(v, a, d, Update)), Ret("res") >>

get_vm_disk_logical_name(v, a) ==
    << When("wait",
            <<Find(v), Watch(a, {"active"}), Ret("true")>>,
            get_disk_attachment(v, a) \o <<OrRaise("Error"), Ret("true")>>) >>

-----------------------------------------------------------------------------
(* Groups of VMs *)

\* VMs that are down or missing are not stopped, nor waited for.
stop_vms_safely(vs) ==
    ForEach(vs, LAMBDA v :
        << Call(does_vm_exist(v)),
           If(<<Look(v, {"down"}), If(<<>>, <<NoWait(stopVm(v)), Keep>>)>>,
              <<>>) >>)
    \o ForEach(vs, LAMBDA v :
        << Call(waitForVMState(v, {"down", "none"})), Keep >>)
    \o << Ret("acc") >>

\* One worker for each VM; the VM is looked up when its worker is started.
start_vms(vs, status) ==
    << Fork([i \in DOMAIN vs |->
                << Look(vs[i], {"down"}),
                   If(<<Pass(startVm(vs[i], status), {"wait_for_ip"},
                             {"positive", "wait"}), Ret("res")>>,
                      <<Ret("true")>>) >>],
            {}, "raise"),
       OrRaise("Error"), Ret("none") >>

run_vms_once(vs) ==
    << Fork([i \in DOMAIN vs |->
                << Look(vs[i], {"down"}),
                   If(<<Call(runVmOnce(vs[i])), Ret("res")>>,
                      <<Ret("true")>>) >>],
            {}, "raise"),
       OrRaise("Error"), Ret("none") >>

create_vms(vs) ==
    << Fork([i \in DOMAIN vs |-> createVm(vs[i], "nic", "disk")],
            {"positive", "wait"}, "false"), OrFalse, Ret("true") >>

reboot_vms(v, w) ==
    << Call(stop_vms_safely(<<v, w>>)), Call(startVms(v, w)), Ret("res") >>

\* The results of the removals are not looked at.
safely_remove_vms(vs) ==
    << See({vs[i] : i \in DOMAIN vs}, {"none"}), If(<<Ret("true")>>, <<>>),
       Call(stop_vms_safely(vs)), OrFalse >>
    \o ForEach(vs, LAMBDA v :
        << Exists(v), If(<<NoWait(removeVm(v))>>, <<>>) >>)
    \o << Call(waitForVmsGone({vs[i] : i \in DOMAIN vs})), Ret("res") >>

wait_for_vm_states(v, states) == << Watch(v, states), Ret("none") >>

migrate_vm_disks(v, a, d, s) ==
    << Look(v, {"down"}),
       If(<<When("ensure_on",
                 <<Call(start_vms(<<v>>, {"powering_up"})),
                   Call(waitForVMState(v, {"up"}))>>, <<>>)>>, <<>>) >>
    \o getObjDisks(v, d)
    \o << Maybe(<<Call(get_other_storage_domain(v, a, d))>>),
          Pass(migrate_vm_disk(v, a, d, s), {"wait"}, {"positive"}),
          When("wait", <<Call(wait_for_jobs)>>, <<>>), Ret("none") >>

-----------------------------------------------------------------------------
(* Connections to the guest *)

check_vm_connectivity(v) ==
    << Call(wait_for_vm_ip(v)), OrFalse, Query({"ssh"}, {"ok"}), Ret("res") >>

is_pid_running_on_vm(v) ==
    << Call(wait_for_vm_ip(v)), OrRaise("Error"), Check({"ssh"}, {"ok"}),
       Ret("res") >>

run_cmd_on_vm(v) ==
    << Call(wait_for_vm_ip(v)), OrRaise("Error"), Check({"ssh"}, {"ok"}),
       Ret("res") >>

get_vm_storage_devices(v) ==
    << When("ensure_vm_on", <<Call(start_vms(<<v>>, {"powering_up"})),
                              Call(waitForVMState(v, {"up"}))>>, <<>>),
       Call(wait_for_vm_ip(v)), OrRaise("Error"),
       Check({"ssh"}, {"ok"}), OrRaise("EntityNotFound"), Ret("true") >>

-----------------------------------------------------------------------------
(* Snapshots *)

\* `status or not positive`: a negative call always answers True.
snapshot_action(v, s, op) ==
    << Find(v), Maybe(get_snapshot_disks(v, s)), Req(v, op),
       When("positive", <<If(<<Wait(v, {"down"}), Ret("res")>>, <<>>), Ret("res")>>,
            <<Ret("true")>>) >>

preview_snapshot(v, s) ==
    << When("ensure_vm_down", <<Call(stop_vms_safely(<<v>>))>>, <<>>),
       CallPos(snapshot_action(v, s, vmPreview)), Ret("res") >>

undo_snapshot_preview(v, s) ==
    << When("ensure_vm_down", <<Call(stop_vms_safely(<<v>>))>>, <<>>),
       CallPos(snapshot_action(v, s, vmPreview)), Ret("res") >>

commit_snapshot(v, s) ==
    << When("ensure_vm_down", <<Call(stop_vms_safely(<<v>>))>>, <<>>),
       CallPos(snapshot_action(v, s, vmPreview)), Ret("res") >>

restore_snapshot(v, s) ==
    << When("ensure_vm_down",
            <<Call(stop_vms_safely(<<v>>)), Call(waitForVMState(v, {"down"}))>>,
            <<>>),
       Find(v) >> \o getVmSnapshot(v, s)
    \o << OrRaise("Error"), Req(v, vmPreview) >>
    \o ThenWaitP(<<Wait(v, {"down"})>>)

delete_snapshot_disks(v, a, s, d) ==
    get_snapshot_disks(v, s) \o get_disk_storage_domain_name(v, a, d)
    \o << Find("sd"), Do("snapdisk", Drop), Keep,
          When("wait", <<Call(wait_for_jobs), Call(wait_for_disks_status({d}))>>,
               <<>>),
          Ret("acc") >>

wait_for_snapshot_creation(v, s) ==
    << Find(v), Sample({s}, Statuses),
       When("wait", <<Call(wait_for_vm_snapshots(v, s, {"ok"}))>>, <<>>),
       Ret("true") >>

remove_all_vm_lsm_snapshots(v, s, d, e) ==
    << Call(stop_vms_safely(<<v>>)), Call(waitForDisksStat(v, d, e)),
       Find(v), Exists(s), If(<<Call(removeSnapshot(v, s)), Keep>>, <<>>),
       Call(wait_for_jobs), Call(wait_for_vm_snapshots(v, s, {"ok"})),
       Ret("acc") >>

create_vm_from_ovf(v) == prepare_vm_object \o << Do(v, vmCreate), Ret("res") >>

attach_snapshot_disk_to_vm(v, a, d) ==
    prepareDiskObject \o getObjDisks(v, d) \o << Do(a, attach), Ret("res") >>

attach_backup_disk_to_vm(v, s, w, a, d) ==
    get_snapshot_disks(v, s)
    \o << Call(attach_snapshot_disk_to_vm(w, a, d)), OrFalse, Ret("true") >>

\* True whether or not the VM is there, when positive is False.
is_vm_exists_in_export_domain(x) ==
    << Find("sd"),
       Try(<<Find(x)>>, {"EntityNotFound"}, <<Ret("negative")>>), Ret("true") >>

\* The sampler asks with positive=False.
remove_vm_from_export_domain(x) ==
    << Find("sd"), Find(x), Req(x, Delete({"ok"}, <<"locked", "none">>)),
       OrFalse, Pass(is_vm_exists_in_export_domain(x), {}, {}), Ret("res") >>

-----------------------------------------------------------------------------
(* Devices and other actions *)

add_watchdog(v) == get_vm_obj(v) \o << Do("watchdog", New), Ret("res") >>

update_watchdog(v) ==
    get_watchdog_collection(v) \o << OrFalse, Do("watchdog", Update), Ret("res") >>

delete_watchdog(v) ==
    get_watchdog_collection(v) \o << OrFalse, Do("watchdog", Drop), Ret("res") >>

prepare_numa_node_object == << Maybe(<<Find("hostnuma")>>) >>

add_numa_node_to_vm(v) ==
    << Try(prepare_numa_node_object, {"EntityNotFound"}, <<Ret("false")>>) >>
    \o get_vm_obj(v) \o << Do("numa", New), Ret("res") >>

remove_numa_node_from_vm(v) ==
    get_vm_numa_node_by_index(v) \o << OrFalse, Do("numa", Drop), Ret("res") >>

add_vm_host_device(v) ==
    << Find("host") >> \o get_vm_host_devices_link(v)
    \o << Do("device", New), Ret("res") >>

remove_vm_host_device(v) ==
    get_vm_host_device_by_name(v) \o << OrFalse >>
    \o get_vm_host_devices_link(v) \o << Do("device", Drop), Ret("res") >>

VmAction(v, sign(_, _), from) == << Find(v), sign(v, Act(from)), Ret("res") >>

reorder_vm_mac_address(v) == VmAction(v, Do, {"down"})

freeze_vm(v) == VmAction(v, Req, {"up"})

thaw_vm(v) == VmAction(v, Req, {"up"})

reboot_vm(v) == << Find(v), Req(v, vmReboot), Ret("res") >>

set_he_global_maintenance(v) == get_vm(v) \o << Do(v, Act({"up"})), Ret("res") >>

set_sso_ticket(v) == get_vm(v) \o << Do(v, Act({"up"})), Ret("res") >>

logon_vm(v) == get_vm(v) \o << Do(v, Act({"up"})), Ret("res") >>

get_vnic_network_filter_parameters(v, n) == get_vm_nic(v, n) \o << Ret("true") >>

add_vnic_network_filter_parameters(v, n) ==
    get_vm_nic(v, n) \o << Do("filter", New), Ret("res") >>

update_vnic_network_filter_parameters == << Do("filter", Update), Ret("res") >>

delete_vnic_network_filter_parameters == << Do("filter", Drop), Ret("res") >>

-----------------------------------------------------------------------------
Attached == [vm |-> {"down"}, disk |-> {"ok"}, att |-> {"active", "none"}]
Guest == [vm |-> {"up", "down"}, ip |-> {"ok", "none"}, ssh |-> {"ok", "none"}]
Snap == [vm |-> {"down"}, snapshot |-> {"ok", "none"}]
Nic == [vm |-> {"up"}, nic |-> {"active", "inactive", "none"}]
VmAnd(e) == [vm |-> {"up", "none"}] @@ e :> {"ok", "none"}
NewOf(e) == [vm |-> {"up", "none"}] @@ e :> {"none"}
Moving ==
    [vm |-> {"up"}, disk |-> {"ok"}, att |-> {"active"},
     job |-> {"started", "ok"}, snapshot |-> {"ok"}]

VmReads == {
    Reads("does_vm_exist", does_vm_exist("vm"), Runs, "vm"),
    Reads("get_vm_state", get_vm_state("vm"), Runs, "vm"),
    Reads("get_vm_host", get_vm_host("vm"),
          [vm |-> {"up", "none"}, host |-> {"up", "none"}], "host"),
    Reads("get_vm_nic_mac_address", get_vm_nic_mac_address("vm", "nic"), Nic, "nic"),
    Reads("check_vnic_on_vm_nic", check_vnic_on_vm_nic("vm", "nic"), Nic, "nic"),
    Fn("get_vm_nic_plugged", get_vm_nic_plugged("vm", "nic"), {}, Nic,
       [nic |-> {"active"}]),
    Fn("get_vm_nic_linked", get_vm_nic_linked("vm", "nic"), {}, Nic,
       [nic |-> {"active"}]),
    Reads("check_vm_nic_profile", check_vm_nic_profile("vm", "nic"),
          Nic @@ [profile |-> {"ok", "none"}], "profile"),
    Reads("getVmPayloads", getVmPayloads("vm"), Runs, "vm"),
    Reads("getVmTemplateId", getVmTemplateId("vm"), Runs, "vm"),
    Reads("get_vm_snapshots", get_vm_snapshots("vm"), Runs, "vm"),
    Reads("get_vm_bootable_disk", get_vm_bootable_disk("vm", "att", "disk"),
          Attached, "disk"),
    Reads("get_vms_disks_storage_domain_name",
          get_vms_disks_storage_domain_name("vm", "disk"),
          [vm |-> {"up"}, disk |-> {"ok", "none"}], "disk"),
    Reads("get_vm_placement_hosts", get_vm_placement_hosts("vm"),
          [vm |-> {"up", "none"}, host |-> {"up", "none"}], "host"),
    Fn("get_vms_objects_from_storage_domain", get_vms_objects_from_storage_domain,
       {}, [sd |-> {"ok", "none"}], [sd |-> {"ok", "none"}]),
    Reads("get_vnic_network_filter_parameters",
          get_vnic_network_filter_parameters("vm", "nic"), Nic, "nic"),
    Fn("get_snapshot_description_in_preview",
       get_snapshot_description_in_preview("vm", "snapshot"), {}, Snap,
       [vm |-> {"down"}]) }

VmPartCalls == VmReads \cup {
    Fn("activateVmDisk", activateVmDisk("vm", "att", "disk"), PW,
       [vm |-> {"down"}, disk |-> {"ok"}, att |-> {"inactive", "none"}],
       [att |-> {"active"}]),
    Fn("deactivateVmDisk", deactivateVmDisk("vm", "att", "disk"), PW, Attached,
       [att |-> {"inactive"}]),
    Fn("validateVmDisks", validateVmDisks("vm", "disk"), {},
       [vm |-> {"up"}, disk |-> {"ok", "illegal"}], [disk |-> {"ok"}]),
    Fn("waitForVmsDisks", waitForVmsDisks("vm", "disk"), {},
       [vm |-> {"up"}, disk |-> {"ok", "locked"}], [disk |-> {"ok"}]),
    Proc("migrate_vm_disk", migrate_vm_disk("vm", "att", "disk", "snapshot"),
       {"wait", "verify_no_snapshot_operation_occur"}, Moving,
       [disk |-> {"moved"}, job |-> JobsDone, snapshot |-> {"ok"}]),
    Proc("migrate_vm_disks", migrate_vm_disks("vm", "att", "disk", "snapshot"),
       {"wait", "ensure_on"}, Moving, [disk |-> {"moved"}, job |-> JobsDone]),
    Fn("verify_vm_disk_moved", verify_vm_disk_moved("vm", "att", "disk"), {},
       [vm |-> {"up"}, disk |-> {"ok", "moved"}, att |-> {"active"}],
       [disk |-> {"moved"}]),
    Asks("extend_vm_disk_size", extend_vm_disk_size("vm", "att", "disk"), P,
       Attached, "att"),
    Fn("get_vm_disk_logical_name", get_vm_disk_logical_name("vm", "att"),
       {"wait"}, [vm |-> {"up"}, att |-> {"active", "inactive", "none"}],
       [att |-> {"active"}]),
    Fn("stop_vms_safely", stop_vms_safely(<<"vm", "vm2">>), {},
       [vm |-> {"up", "none"}, vm2 |-> {"up", "down"}],
       [vm |-> {"down", "none"}, vm2 |-> {"down"}]),
    Proc("start_vms", start_vms(<<"vm", "vm2">>, {"powering_up"}), {},
       Two, [vm |-> {"powering_up", "up"}, vm2 |-> {"powering_up", "up"}]),
    Proc("run_vms_once", run_vms_once(<<"vm", "vm2">>), {},
       Two, [vm |-> {"powering_up", "up"}, vm2 |-> {"powering_up", "up"}]),
    Fn("create_vms", create_vms(<<"vm", "vm2">>), {},
       [vm |-> {"none"}, vm2 |-> {"none", "down"}],
       [vm |-> {"down"}, vm2 |-> {"down"}]),
    Fn("reboot_vms", reboot_vms("vm", "vm2"), {},
       [vm |-> {"down"}, vm2 |-> {"up"}],
       [vm |-> {"powering_up", "up"}, vm2 |-> {"powering_up", "up"}]),
    Fn("safely_remove_vms", safely_remove_vms(<<"vm", "vm2">>), {},
       [vm |-> {"up"}, vm2 |-> {"down", "none"}],
       [vm |-> {"none"}, vm2 |-> {"none"}]),
    Proc("wait_for_vm_states", wait_for_vm_states("vm", {"up"}), {},
       [vm |-> {"powering_up", "up", "down", "none"}], [vm |-> {"up"}]),
    Fn("check_vm_connectivity", check_vm_connectivity("vm"), {}, Guest,
       [ip |-> {"ok"}, ssh |-> {"ok"}]),
    Fn("is_pid_running_on_vm", is_pid_running_on_vm("vm"), {}, Guest,
       [ssh |-> {"ok"}]),
    Fn("run_cmd_on_vm", run_cmd_on_vm("vm"), {}, Guest, [ssh |-> {"ok"}]),
    Fn("get_vm_storage_devices", get_vm_storage_devices("vm"),
       {"ensure_vm_on"}, Guest, [ssh |-> {"ok"}]),
    Fn("restore_snapshot", restore_snapshot("vm", "snapshot"),
       {"positive", "ensure_vm_down"},
       [vm |-> {"up", "down"}, snapshot |-> {"ok", "none"}], [vm |-> {"down"}]),
    Fn("preview_snapshot", preview_snapshot("vm", "snapshot"),
       {"ensure_vm_down"}, [vm |-> {"up", "down"}, snapshot |-> {"ok"}],
       [vm |-> {"down"}]),
    Fn("undo_snapshot_preview", undo_snapshot_preview("vm", "snapshot"),
       {"ensure_vm_down"}, [vm |-> {"down"}, snapshot |-> {"ok"}],
       [vm |-> {"down"}]),
    Fn("commit_snapshot", commit_snapshot("vm", "snapshot"),
       {"ensure_vm_down"}, [vm |-> {"down"}, snapshot |-> {"ok"}],
       [vm |-> {"down"}]),
    Fn("delete_snapshot_disks",
       delete_snapshot_disks("vm", "att", "snapshot", "disk"), {"wait"},
       Snap @@ [snapdisk |-> {"ok"}, job |-> {"started"}, disk |-> {"ok", "locked"}],
       [job |-> JobsDone]),
    Fn("wait_for_snapshot_creation", wait_for_snapshot_creation("vm", "snapshot"),
       {"wait"}, [vm |-> {"up"}, snapshot |-> {"locked", "ok", "none"}],
       [snapshot |-> {"ok"}]),
    Fn("remove_all_vm_lsm_snapshots",
       remove_all_vm_lsm_snapshots("vm", "snapshot", "disk", "disk2"), {},
       [vm |-> {"up"}, snapshot |-> {"ok", "none"}, disk |-> {"ok"}],
       [snapshot |-> {"none"}]),
    Asks("create_vm_from_ovf", create_vm_from_ovf("vm"), {},
       [vm |-> {"none", "down"}], "vm"),
    Asks("attach_backup_disk_to_vm",
       attach_backup_disk_to_vm("vm", "snapshot", "vm2", "att", "disk"), {},
       Snap @@ [att |-> {"none"}], "att"),
    Asks("add_watchdog", add_watchdog("vm"), {}, NewOf("watchdog"), "watchdog"),
    Asks("update_watchdog", update_watchdog("vm"), {}, VmAnd("watchdog"), "watchdog"),
    Asks("delete_watchdog", delete_watchdog("vm"), {}, VmAnd("watchdog"), "watchdog"),
    Asks("add_numa_node_to_vm", add_numa_node_to_vm("vm"), {},
       NewOf("numa") @@ [hostnuma |-> {"ok", "none"}], "numa"),
    Asks("remove_numa_node_from_vm", remove_numa_node_from_vm("vm"), {},
       VmAnd("numa"), "numa"),
    Asks("add_vm_host_device", add_vm_host_device("vm"), {}, NewOf("device"),
       "device"),
    Asks("remove_vm_host_device", remove_vm_host_device("vm"), {},
       VmAnd("device"), "device"),
    Asks("reorder_vm_mac_address", reorder_vm_mac_address("vm"), {}, Runs, "vm"),
    Asks("freeze_vm", freeze_vm("vm"), P, Runs, "vm"),
    Asks("thaw_vm", thaw_vm("vm"), P, Runs, "vm"),
    Asks("reboot_vm", reboot_vm("vm"), P, Runs, "vm"),
    Asks("set_he_global_maintenance", set_he_global_maintenance("vm"), {}, Runs,
       "vm"),
    Asks("set_sso_ticket", set_sso_ticket("vm"), {}, Runs, "vm"),
    Asks("logon_vm", logon_vm("vm"), {}, Runs, "vm"),
    Asks("add_vnic_network_filter_parameters",
       add_vnic_network_filter_parameters("vm", "nic"), {},
       [nic |-> {"active", "none"}, filter |-> {"none"}], "filter"),
    Asks("update_vnic_network_filter_parameters",
       update_vnic_network_filter_parameters, {}, [filter |-> {"ok"}], "filter"),
    Asks("delete_vnic_network_filter_parameters",
       delete_vnic_network_filter_parameters, {}, [filter |-> {"ok"}], "filter") }

\* Answer True before the entity is gone, or fail although it is: see README.
GoneCalls == {
    Fn("remove_vm_from_export_domain", remove_vm_from_export_domain("exported"),
       {}, [exported |-> {"ok", "none"}], [exported |-> {"none"}]),
    Fn("removeDisk", removeDisk("vm", "disk"), PW,
       [vm |-> {"down"}, disk |-> {"ok"}], [disk |-> {"none"}]) }
=============================================================================
