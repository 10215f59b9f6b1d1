------------------------------ MODULE VmFlows ------------------------------
(***************************************************************************)
(* tests_lib/high_level: vms.py, vmpools.py, datacenters.py, clusters.py,  *)
(* and low_level/vmpools.py.  "pool" is a pool of VMs.                     *)
(***************************************************************************)
EXTENDS NetworkFlows, StorageFlows, TemplateLib

(* The engine's part (external) *)

vmCancelMigration == Action({"migrating"}, <<"up">>, "never")
poolDelete == Delete(Statuses, <<"none">>)

-----------------------------------------------------------------------------
(* vms.py: migration *)

\* The sampler of core_api.timeout, which vms.py imports, raises another
\* exception than the handler around it waits for.
SampleExpires(es, goal) ==
    << Try(<<Sample(es, goal)>>, {"APITimeout"},
           <<Raise("TimeoutExpiredError")>>) >>

check_vms_after_migration(v) ==
    << Try(SampleExpires({v}, {"moved"}), {"APITimeout"}, <<Ret("false")>>),
       Find(v), Wait(v, {"up", "moved"}), OrFalse,
       Call(check_vm_connectivity(v)), OrFalse, Check({v}, {"moved"}),
       OrFalse, Ret("true") >>

\* The host is activated again unless the check has raised.
migrate_by_maintenance(v, h) ==
    << Call(deactivate_host(h, {"maintenance"})), OrFalse,
       When("connectivity_check",
            <<Call(check_vms_after_migration(v)), Keep>>, <<>>),
       Call(activate_host_if_not_up(h)), OrFalse, Ret("acc") >>

migrate_by_nic_down(v, h) ==
    << Find(h), Call(set_host_non_operational_nic_down(h)), OrFalse,
       Call(check_vms_after_migration(v)), Keep, Shell, OrFalse,
       Call(activate_host_if_not_up(h)), OrFalse, Ret("acc") >>

migrate_vms(v, w) ==
    << Fork(<<migrateVm(v), migrateVm(w)>>, {"positive", "wait"}, "raise"),
       OrRaise("Error"), Call(check_vms_after_migration(v)), OrFalse,
       Call(check_vms_after_migration(w)), OrFalse, Ret("true") >>

cancel_vm_migrate(v) ==
    << Find(v), Call(get_vm_host(v)), Do(v, vmCancelMigration), OrFalse,
       When("wait", <<>>, <<Ret("true")>>), Wait(v, {"up", "moved"}), OrFalse,
       Call(get_vm_host(v)), Check({v}, {"up"}), Ret("res") >>

-----------------------------------------------------------------------------
(* vms.py: the rest *)

get_vm_ip(v) ==
    << When("start_vm",
            <<Call(checkVmState(v, {"down"})),
              If(<<Call(startVm(v, {"powering_up"})), OrRaise("Error")>>,
                 <<>>)>>, <<>>),
       Call(wait_for_vm_ip(v)), OrRaise("Error"), Ret("true") >>

run_vm_once_specific_host(v, h) ==
    << Demand(h, {"up"}), OrFalse, Call(runVmOnce(v)), OrFalse,
       When("wait", <<Call(wait_for_vm_states(v, {"up"}))>>, <<>>),
       Call(get_vm_host(v)), OrFalse, Check({"samehost"}, {"ok"}), OrFalse,
       Ret("true") >>

update_os_type(vs) ==
    ForEach(vs, LAMBDA v : <<Call(updateVm(v)), OrFalse>>) \o << Ret("true") >>

update_vms_memory(vs) ==
    ForEach(vs, LAMBDA v : <<Call(updateVm(v)), OrFalse>>) \o << Ret("true") >>

set_vms_with_host_memory_by_percentage(h, vs) ==
    << Call(getStat(h)) >>
    \o ForEach(vs, LAMBDA v : <<Call(updateVm(v)), OrFalse>>)
    \o << Ret("true") >>

expand_vm_memory(v) ==
    << Find(v), Call(updateVm(v)), OrFalse, Call(updateVm(v)), OrFalse,
       Find(v), Ret("true") >>

create_vm_using_glance_image(v, a, d, i) ==
    << Call(verify_image_exists_in_storage_domain("sd", i)), OrFalse,
       Call(import_image(i, d)), OrFalse, CallPos(createVm(v, "nic", "vmdisk")),
       OrFalse, Call(attachDisk(v, a, d)), OrFalse,
       Call(updateDisk(v, a, d, activate)), OrFalse, Ret("true") >>

\* __get_install_status: an answer of the agent that is neither 200 nor 404
\* is an error, and so is the end of the time: the VM is not restarted.
get_install_status(agent) ==
    << Maybe(<<Check({agent}, {"ok"}), OrRaise("Error")>>) >>
    \o SampleExpires({"tools"}, {"ok"}) \o << Ret("true") >>

create_windows_vm(v, a, d, i, agent) ==
    << Maybe(<<Call(import_glance_image(i, d)), OrFalse>>),
       Call(createVm(v, "nic", "vmdisk")), OrFalse,
       Call(attachDisk(v, a, d)), OrFalse,
       Call(updateDisk(v, a, d, activate)), OrFalse,
       Call(runVmOnce(v)), OrFalse, Find(v), Check({agent}, {"ok"}), OrFalse,
       Call(changeCDWhileRunning(v)), OrFalse,
       Call(get_install_status(agent)), OrFalse, Check({"code"}, {"ok"}),
       OrFalse, Call(wait_for_vm_states(v, {"up"})), Ret("true") >>

wait_for_restored_stateless_snapshot(v, s) ==
    << Call(wait_for_snapshot_gone(v, s)), OrFalse,
       Call(wait_for_vm_snapshots(v, "activesnap", {"ok"})), Ret("true") >>

stop_stateless_vm(v, s) ==
    << Call(stop_vms_safely(<<v>>)), OrFalse,
       Call(wait_for_restored_stateless_snapshot(v, s)), OrFalse,
       Ret("true") >>

get_vm_macs(v, n) == << Call(getVmMacAddress(v, n)), OrRaise("Error"), Ret("true") >>

\* What the requests to move have answered is not looked at.
move_vm_disks(v, a, d) ==
    getVmDisks(v)
    \o << NoWait(move_disk(d)), Call(wait_for_disk_storage_domain(v, a, d)),
          Call(waitForVmsDisks(v, d)), OrRaise("Error"), Ret("none") >>

get_memory_on_vm == << Shell, If(<<Ret("true")>>, <<Ret("none")>>) >>

get_vms_objects_from_cluster == << Find("cluster") >>

remove_all_vms_from_cluster(v) ==
    get_vms_objects_from_cluster
    \o << Exists(v), If(<<>>, <<Ret("true")>>), Call(stop_vms_safely(<<v>>)),
          NoWait(removeVm(v)), OrFalse,
          When("wait", <<Try(<<Call(waitForVmsGone({v}))>>, {"APITimeout"},
                             <<Ret("false")>>)>>, <<>>),
          Ret("true") >>

\* A negative call without waiting answers `positive`: False, although the
\* engine has refused.  One that waits finds no clone.
clone_vm(v, w, d) ==
    << Find(v), Req(w, vmCreate), OrFalse,
       When("wait", <<>>, <<Ret("positive")>>), Find(w), Wait(w, {"down"}),
       OrFalse, Call(wait_for_disks_status({d})), OrFalse, Ret("positive") >>

get_boot_device_logical_name(v, a, d) ==
    << Call(get_vm_bootable_disk(v, a, d)), Call(get_vm_disk_logical_name(v, a)),
       Ret("true") >>

reboot_to_state(v) ==
    << Call(reboot_vm(v)), OrFalse, Call(waitForVMState(v, {"up"})),
       Ret("res") >>

-----------------------------------------------------------------------------
(* low_level/vmpools.py *)

prepareVmPoolObject == << Maybe(<<Find("cluster")>>), Maybe(<<Find("template")>>) >>

get_vms_in_pool(v) == << See({v}, Statuses) >>

get_vms_in_pool_by_name(v) == << Find("pool") >> \o get_vms_in_pool(v)

addVmPool(v) ==
    prepareVmPoolObject
    \o << Req("pool", New), OrFalse, When("positive", <<>>, <<Ret("true")>>),
          Check({"size"}, {"ok"}), OrFalse,
          When("wait", <<Wait(v, {"down"}), OrFalse>>, <<>>), Ret("true") >>

updateVmPool(v) ==
    << Find("pool"), Find("template"), Find("cluster") >> \o prepareVmPoolObject
    \o << Req("pool", Update), OrFalse,
          When("positive", <<Maybe(<<Check({"size"}, {"ok"}), OrFalse>>)>>,
               <<>>),
          Ret("true") >>

\* A request that was refused is noticed after the wait for the VMs.
removeVmPool(v) ==
    << Find("pool") >> \o get_vms_in_pool_by_name(v)
    \o << Req("pool", poolDelete), Keep,
          When("wait", <<When("positive",
               <<Try(<<CallPos(waitForVmsGone({v}))>>, {"APITimeout"},
                     <<Ret("false")>>)>>, <<>>)>>, <<>>),
          Ret("acc") >>

allocateVmFromPool == << Find("pool"), Req("pool", Act(Statuses)), Ret("res") >>

get_vm_pool_object ==
    << Try(<<Find("pool")>>, {"EntityNotFound"}, <<Ret("none")>>), Ret("true") >>

does_vm_pool_exist ==
    << Call(get_vm_pool_object), If(<<Ret("true")>>, <<Ret("false")>>) >>

-----------------------------------------------------------------------------
(* high_level/vmpools.py *)

\* The function is func of the one VM and of the other.
control_vms_in_pool(v, w, funcV, funcW, status, detach, restored) ==
    get_vms_in_pool_by_name(v)
    \o ForEach(<<v, w>>, LAMBDA x :
        <<Look(x, IF detach THEN {} ELSE status),
          If(<<>>, <<Call(IF x = v THEN funcV ELSE funcW), OrFalse>>)>>)
    \o restored
    \o << CallPos(waitForVmsStates(v, w, status)), OrFalse, Ret("true") >>

start_vm_pool(v, w) ==
    control_vms_in_pool(v, w, startVm(v, {"powering_up"}),
        startVm(w, {"powering_up"}), {"up"}, FALSE, <<>>)

stop_vm_pool(v, w) ==
    control_vms_in_pool(v, w, stopVm(v), stopVm(w), {"down"}, FALSE,
        <<Call(wait_for_restored_stateless_snapshot(v, "snapshot")), OrFalse,
          Call(wait_for_restored_stateless_snapshot(w, "snapshot")), OrFalse>>)

detach_vms_from_pool(v, w) ==
    control_vms_in_pool(v, w, detachVm(v), detachVm(w), {"down"}, TRUE, <<>>)

stop_and_detach_vms_from_pool(v, w) ==
    << Call(stop_vm_pool(v, w)), OrFalse, CallPos(detach_vms_from_pool(v, w)),
       Ret("res") >>

wait_for_vms_in_pool_to_start(v, states) ==
    << Find("pool"), Query({v}, states), Ret("res") >>

wait_for_prestarted_vms(v, states) ==
    << Find("pool"), Call(wait_for_vms_in_pool_to_start(v, states)),
       OrRaise("Error"), Ret("none") >>

wait_for_vm_pool_gone == << Query({"pool"}, {"none"}), Ret("res") >>

remove_whole_vm_pool(v, w) ==
    get_vms_in_pool_by_name(v)
    \o << When("stop_vms", <<Call(stop_and_detach_vms_from_pool(v, w))>>,
               <<Call(detach_vms_from_pool(v, w))>>), Keep,
          Call(wait_for_vm_pool_gone), Keep,
          When("remove_vms", <<Call(safely_remove_vms(<<v, w>>)), Keep>>, <<>>),
          Ret("acc") >>

create_vm_pool(v) ==
    << Pass(addVmPool(v), {"positive", "wait"}, {}), OrRaise("Error"),
       When("wait", <<>>,
            get_vms_in_pool_by_name(v)
            \o <<Call(wait_for_vm_states(v, {"up", "down", "powering_up",
                                             "wait_for_launch"}))>>),
       Ret("none") >>

-----------------------------------------------------------------------------
(* clusters.py, datacenters.py *)

\* A template that cannot be removed is only logged.
remove_templates_connected_cluster(t) ==
    << Call(get_template_from_cluster(t)), Exists(t),
       If(<<Call(remove_template(t))>>, <<>>) >>

get_spm_host_of_datacenter(h) ==
    << CallPos(get_host(h)), If(<<>>, <<Ret("none")>>), Find(h), Ret("true") >>

ensure_data_center_and_sd_are_active(dc, s) ==
    << Call(waitForDataCenterState(dc, "up")), OrRaise("Error"),
       Call(wait_for_spm("host")), OrRaise("Error"), Find(dc),
       See({s}, {"maintenance"}), If(<<Ret("none")>>, <<>>),
       Call(wait_for_storage_domain_status(s, {"active"})), OrRaise("Error"),
       Ret("none") >>

-----------------------------------------------------------------------------

VmFlowCalls ==
    LET pw == {"positive", "wait"}
        Pool == [pool |-> {"ok", "none"}]
        Ssh == [ssh |-> {"ok", "none"}]
        Att == [att |-> {"active"}, disk |-> {"ok"}]
    IN {
    Fn("create_vm_using_glance_image",
       create_vm_using_glance_image("vm", "att", "disk", "image"), {},
       [image |-> {"ok", "none"}, disk |-> {"none"}, vm |-> {"none"},
        att |-> {"none"}], [att |-> {"asked"}]),
    Fn("create_windows_vm",
       create_windows_vm("vm", "att", "disk", "image", "agent"), {},
       [image |-> {"ok"}, disk |-> {"none"}, vm |-> {"none"},
        att |-> {"none"}, agent |-> {"ok", "none"}, tools |-> {"soon", "none"},
        code |-> {"ok", "none"}], [tools |-> {"ok"}, code |-> {"ok"}]),
    Fn("update_vms_memory", update_vms_memory(<<"vm", "vm2">>), {}, Two,
       [vm |-> {"asked"}, vm2 |-> {"asked"}]),
    Fn("set_vms_with_host_memory_by_percentage",
       set_vms_with_host_memory_by_percentage("host", <<"vm">>), {},
       [host |-> {"up", "none"}, vm |-> {"up", "none"}], [vm |-> {"asked"}]),
    Fn("get_memory_on_vm", get_memory_on_vm, {}, [shell |-> {"ok"}],
       [shell |-> {"asked"}]),
    Reads("does_vm_pool_exist", does_vm_pool_exist, Pool, "pool"),
    Reads("get_spm_host_of_datacenter", get_spm_host_of_datacenter("host"),
          [host |-> {"up", "none"}, spm |-> {"ok", "none"}], "host"),
    Fn("check_vms_after_migration", check_vms_after_migration("vm"), {},
       [vm |-> {"migrating", "up", "none"}] @@ Ssh, [vm |-> {"moved"}]),
    Fn("migrate_by_maintenance", migrate_by_maintenance("vm", "host"),
       {"connectivity_check"},
       [vm |-> {"migrating", "up"}, host |-> {"up"}],
       [host |-> {"up"}]),
    Fn("migrate_by_nic_down", migrate_by_nic_down("vm", "host"), {},
       [vm |-> {"migrating"}, host |-> {"up"}],
       [vm |-> {"moved"}, host |-> {"up"}]),
    Fn("migrate_vms", migrate_vms("vm", "vm2"), {},
       [vm |-> {"up"}, vm2 |-> {"up", "down"}],
       [vm |-> {"moved"}, vm2 |-> {"moved"}]),
    Fn("cancel_vm_migrate", cancel_vm_migrate("vm"), {"wait"},
       [vm |-> {"migrating", "up"}], [vm |-> {"up"}]),
    Fn("get_vm_ip", get_vm_ip("vm"), {"start_vm"}, Runs @@ Ip,
       [ip |-> {"ok"}]),
    Fn("run_vm_once_specific_host", run_vm_once_specific_host("vm", "host"),
       {"wait"}, [vm |-> {"down", "up"}, host |-> {"up", "maintenance"},
                  samehost |-> {"ok", "none"}],
       [vm |-> {"up"}, samehost |-> {"ok"}]),
    Fn("update_os_type", update_os_type(<<"vm", "vm2">>), {}, Two,
       [vm |-> {"asked"}, vm2 |-> {"asked"}]),
    Fn("expand_vm_memory", expand_vm_memory("vm"), {}, Down, [vm |-> Statuses]),
    Fn("wait_for_restored_stateless_snapshot",
       wait_for_restored_stateless_snapshot("vm", "snapshot"), {},
       [snapshot |-> {"deactivating", "ok"}, activesnap |-> {"locked", "ok"}],
       [snapshot |-> {"none"}, activesnap |-> {"ok"}]),
    Fn("stop_stateless_vm", stop_stateless_vm("vm", "snapshot"), {},
       Runs @@ [snapshot |-> {"none"}], [vm |-> {"down"}]),
    Reads("get_vm_macs", get_vm_macs("vm", "nic"), [nic |-> {"ok", "none"}],
          "nic"),
    Proc("move_vm_disks", move_vm_disks("vm", "att", "disk"), {},
         [disk |-> {"ok", "locked"}], [disk |-> {"moved"}]),
    Fn("remove_all_vms_from_cluster", remove_all_vms_from_cluster("vm"),
       {"wait"}, Runs, [vm |-> {"none"}]),
    Fn("clone_vm", clone_vm("vm", "vm2", "disk"), pw,
       [vm |-> {"down", "none"}, vm2 |-> {"none"}, disk |-> {"locked"}],
       [vm2 |-> {"down"}, disk |-> {"ok"}]),
    Fn("get_boot_device_logical_name",
       get_boot_device_logical_name("vm", "att", "disk"), {},
       [att |-> {"active", "none"}], [att |-> {"active"}]),
    Fn("reboot_to_state", reboot_to_state("vm"), {}, Runs, [vm |-> {"up"}]),
    Fn("addVmPool", addVmPool("vm"), pw,
       [pool |-> {"none", "ok"}, vm |-> {"image_locked"},
        size |-> {"ok", "mixed"}], [vm |-> {"down"}, size |-> {"ok"}]),
    Asks("updateVmPool", updateVmPool("vm"), {"positive"},
         Pool @@ [size |-> {"ok", "mixed"}], "pool"),
    Fn("removeVmPool", removeVmPool("vm"), pw,
       Pool @@ [vm |-> {"deactivating", "down"}],
       [pool |-> {"asked"}, vm |-> {"none"}]),
    Asks("allocateVmFromPool", allocateVmFromPool, {"positive"}, Pool, "pool"),
    Fn("start_vm_pool", start_vm_pool("vm", "vm2"), {},
       [vm |-> {"down"}, vm2 |-> {"up", "down"}],
       [vm |-> {"up"}, vm2 |-> {"up"}]),
    Fn("stop_vm_pool", stop_vm_pool("vm", "vm2"), {},
       [vm |-> {"up"}, vm2 |-> {"down"}, snapshot |-> {"none", "ok"}],
       [vm |-> {"down"}, vm2 |-> {"down"}]),
    Proc("wait_for_prestarted_vms",
         wait_for_prestarted_vms("vm", {"up", "powering_up"}), {},
         Pool @@ [vm |-> {"down", "powering_up"}],
         [vm |-> {"up", "powering_up"}]),
    Fn("remove_whole_vm_pool", remove_whole_vm_pool("vm", "vm2"),
       {"remove_vms"},
       [pool |-> {"deactivating"}, vm |-> {"down"}, vm2 |-> {"down"}],
       [pool |-> {"none"}]),
    Proc("create_vm_pool", create_vm_pool("vm"), {"wait"},
         [pool |-> {"none"}, vm |-> {"image_locked"}], [vm |-> {"down"}]),
    Proc("ensure_data_center_and_sd_are_active",
         ensure_data_center_and_sd_are_active("dc", "sd"), {},
         [dc |-> {"powering_up", "up"}, spm |-> {"soon"},
          sd |-> {"active", "maintenance", "inactive"}],
         [dc |-> Statuses, sd |-> {"active", "maintenance"}]) }
=============================================================================
