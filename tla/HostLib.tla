------------------------------ MODULE HostLib ------------------------------
(***************************************************************************)
(* tests_lib/low_level/hosts.py.  h is a host, "spm" its storage pool      *)
(* manager role ("ok": it is the SPM), "he" its hosted engine agent.       *)
(***************************************************************************)
EXTENDS VmPartsLib

(* The engine's part (external) *)

hostCreate == Create(<<"installing", "up">>, "install_failed")
hostActivate ==
    Action({"maintenance", "non_operational", "down"}, <<"initializing", "up">>,
           "non_operational")
hostDeactivate ==
    Action({"up", "non_operational"},
           <<"preparing_for_maintenance", "maintenance">>, "non_operational")
hostInstall ==
    Action({"maintenance"}, <<"installing", "maintenance">>, "install_failed")
hostUpgrade == Action({"maintenance", "up"}, <<"installing", "up">>, "install_failed")
hostDelete == Delete({"maintenance"}, <<"none">>)
hostRestart == Action({"up", "non_operational", "down"}, <<"reboot", "up">>, "never")
hostRestartM == Action({"maintenance"}, <<"reboot", "maintenance">>, "never")
hostStop == Action({"up", "maintenance"}, <<"reboot", "down">>, "never")
hostLost == Action(Statuses, <<"connecting", "non_responsive">>, "never")
nicDown == Action({"up"}, <<"non_operational">>, "never")
selectSpm == Create(<<"soon", "ok">>, "none")

-----------------------------------------------------------------------------
(* Look-ups *)

get_host_object(h) == << Find(h) >>

get_host_status(h) == get_host_object(h)

get_host_ip(h) == get_host_object(h)

get_host_cluster(h) == get_host_object(h) \o << Find("cluster"), Ret("true") >>

is_host_up(h) == << Demand(h, {"up"}), Ret("same") >>

is_host_in_maintenance(h) ==
    << Try(<<Look(h, {"maintenance"})>>, {"EntityNotFound"}, <<Ret("false")>>),
       Ret("same") >>

is_host_exist(h) == << Check({h}, Statuses), Ret("res") >>

get_host_name_from_engine(h) == << Check({h}, Statuses) >>

get_host_nics_list(h) == << Find(h) >>

get_host_nic(h, n) == get_host_nics_list(h) \o << Check({n}, Statuses) >>

get_host_nic_statistics(h, n) ==
    get_host_nic(h, n) \o << OrRaise("Error"), Ret("true") >>

get_cluster_hosts(h) == << Check({h}, {"up"}), Ret("res") >>

get_host_compatibility_version(h) ==
    << Try(<<Find(h)>>, {"EntityNotFound"}, <<Ret("none")>>), Find("cluster"),
       Try(<<Find("cluster")>>, {"EntityNotFound"}, <<Ret("none")>>),
       Ret("true") >>

get_cluster_compatibility_version ==
    << Try(<<Find("cluster")>>, {"EntityNotFound"}, <<Ret("none")>>),
       Ret("true") >>

get_numa_nodes_from_host(h) == << Find(h) >>

get_numa_node_by_index(h) ==
    get_numa_nodes_from_host(h)
    \o << Check({"hostnuma"}, Statuses), If(<<Ret("true")>>, <<Ret("none")>>) >>

get_host_topology(h) == << Find(h), Ret("true") >>

get_host_vm_run_on(v) == << Find(v), Find("host"), Ret("true") >>

get_host_devices(h) == << Find(h) >>

get_host_device_by_name(h) == get_host_devices(h) \o << Check({"device"}, Statuses) >>

get_host_device_id_by_name(h) ==
    get_host_device_by_name(h) \o << If(<<Ret("true")>>, <<Ret("none")>>) >>

get_hosted_engine_obj(h) == << Exists(h), If(<<See({"he"}, Statuses)>>, <<>>) >>

is_hosted_engine_configured(h) == get_hosted_engine_obj(h) \o << Ret("res") >>

is_hosted_engine_active(h) ==
    << Call(is_hosted_engine_configured(h)), OrFalse >>
    \o get_hosted_engine_obj(h) \o << Check({"he"}, {"active"}), Ret("res") >>

-----------------------------------------------------------------------------
(* Waits *)

\* A host in a stop state ends the wait; so does the last of the hosts that
\* has one of the states.
wait_for_hosts_states(h, states) ==
    << Find(h), Query({h}, states \cup {"install_failed"}), OrFalse,
       Check({h}, states), Ret("res") >>

wait_for_hosted_engine_maintenance_state(enabled) ==
    << Query({"he"}, enabled), Ret("res") >>

-----------------------------------------------------------------------------
(* Life of a host *)

add_host(h) ==
    << Find("cluster"), Do(h, hostCreate),
       When("wait", <<If(<<Wait(h, {"up"}), Ret("res")>>, <<>>)>>, <<>>),
       Ret("res") >>

\* An update that comes back without a host is a TypeError.
update_host(h) ==
    get_host_object(h)
    \o << Maybe(<<Find("cluster")>>),
          Try(<<Req(h, Update)>>, {"Error"},
              <<When("positive", <<Raise("Error")>>, <<Ret("true")>>)>>),
          Ret("res") >>

activate_host(h) ==
    get_host_object(h)
    \o << Req(h, hostActivate), OrFalse,
          When("wait", <<When("positive",
            <<Wait(h, {"up"}), OrFalse,
              Maybe(<<Call(is_hosted_engine_configured(h)),
                      If(<<Call(wait_for_hosted_engine_maintenance_state(
                                    {"active"})), Ret("res")>>, <<>>)>>)>>,
            <<>>)>>, <<>>),
          Ret("true") >>

\* The sampler looks at a host that was read once: "contending" stays.
deactivate_host(h, expected_status) ==
    get_host_object(h)
    \o << Call(is_hosted_engine_configured(h)),
          Try(<<SampleOld({"spm"}, {"ok", "none"})>>, {"APITimeout"},
              <<Ret("negative")>>),
          Req(h, hostDeactivate), OrFalse,
          When("positive", <<>>, <<Ret("true")>>),
          Wait(h, expected_status), OrFalse,
          Maybe(<<Call(is_hosted_engine_configured(h)),
                  If(<<Call(wait_for_hosted_engine_maintenance_state(
                                {"maintenance"})), Ret("res")>>, <<>>)>>),
          Ret("true") >>

remove_host(h) ==
    get_host_object(h)
    \o << When("deactivate",
               <<CallPos(is_host_in_maintenance(h)),
                 If(<<>>, <<CallPos(deactivate_host(h, {"maintenance"})),
                            OrFalse>>)>>, <<>>),
          Req(h, hostDelete), Ret("res") >>

install_host(h) ==
    get_host_object(h)
    \o << Do(h, hostInstall), OrFalse, Wait(h, {"installing"}), OrFalse,
          Wait(h, {"maintenance"}), Ret("res") >>

upgrade_host(h) ==
    get_host_object(h)
    \o << Do(h, hostUpgrade),
          If(<<Call(wait_for_hosts_states(h, {"up"})), Ret("res")>>, <<>>),
          Ret("false") >>

check_host_upgrade(h) == << Find(h), Do(h, Act(Statuses)), Ret("res") >>

commit_network_config(h) == << Find(h), Do(h, Act({"up"})), Ret("res") >>

\* fence_type stop, restart or start
fence_host(h) ==
    get_host_object(h)
    \o << When("stop",
            <<Do(h, hostStop), When("wait", <<OrFalse>>, <<Ret("res")>>),
              Wait(h, {"down"}), Ret("res")>>,
            <<Look(h, {"maintenance"}),
              If(<<Do(h, hostRestartM), When("wait", <<OrFalse>>, <<Ret("res")>>),
                   Wait(h, {"maintenance"}), Ret("res")>>,
                 <<Do(h, hostRestart), When("wait", <<OrFalse>>, <<Ret("res")>>),
                   Wait(h, {"up"}), Ret("res")>>)>>) >>

\* A return code of zero, a command that went well, is answered with False.
reboot_host(h) ==
    get_host_name_from_engine(h)
    \o << Do(h, hostLost), If(<<Ret("false")>>, <<>>),
          Call(wait_for_hosts_states(h, {"non_responsive"})), Ret("res") >>

set_host_non_operational_nic_down(h) ==
    get_host_name_from_engine(h)
    \o << Do(h, nicDown), OrFalse,
          Call(wait_for_hosts_states(h, {"non_operational"})), Ret("res") >>

refresh_host_capabilities(h) ==
    << Find(h), Do(h, Act({"up"})), Check({"event"}, {"ok"}), Ret("res") >>

-----------------------------------------------------------------------------
(* SPM *)

check_host_spm_status(h) ==
    << Find(h), See({"spm"}, {"ok"}), Ret("same") >>

get_any_non_spm_host(h) ==
    << Find(h), Maybe(<<Check({h}, {"up"}), OrFalse>>), Maybe(<<Find("cluster")>>),
       Check({"spm"}, {"none"}), Ret("res") >>

get_spm_host(h) ==
    << Call(check_host_spm_status(h)),
       If(<<Ret("true")>>, <<Because, Raise("EntityNotFound")>>) >>

get_hsm_host(h) ==
    << Call(check_host_spm_status(h)),
       If(<<Because, Raise("EntityNotFound")>>, <<Ret("true")>>) >>

get_host(h) ==
    << Try(<<Find("dc")>>, {"EntityNotFound"}, <<Ret("false")>>),
       Call(searchElement(h)), OrFalse >>
    \o Direct(check_host_spm_status(h))

wait_for_spm(h) ==
    << Sample({"spm"}, {"ok"}), Ret("true") >>

select_host_as_spm(h) ==
    << Call(check_host_spm_status(h)), If(<<Ret("positive")>>, <<>>),
       Find(h), Req("spm", selectSpm),
       If(<<When("positive",
                 <<When("wait",
                        <<Call(wait_for_spm(h)), Call(check_host_spm_status(h)),
                          Ret("res")>>, <<>>)>>, <<>>),
            Ret("positive")>>, <<>>),
       Ret("same") >>

get_spm_priority(h) == << Find(h), Ret("true") >>

check_spm_priority(h) ==
    << Call(get_spm_priority(h)), Check({"priority"}, {"ok"}), Ret("res") >>

set_spm_priority(h) ==
    << Find(h), CallPos(update_host(h)), When("positive", <<>>, <<Ret("res")>>),
       OrFalse, Call(get_spm_priority(h)), Check({"priority"}, {"ok"}), Ret("res") >>

set_spm_priority_in_db == << Shell, OrFalse, Ret("true") >>

-----------------------------------------------------------------------------
(* Services *)

start_vdsm(h) ==
    get_host_ip(h)
    \o << Call(startVdsmd), OrFalse, Call(is_host_up(h)),
          If(<<>>, <<Call(activate_host(h)), OrFalse>>),
          Find("dc"), Query({"dc"}, {"up", "ok"}), Ret("res") >>

\* get_vm_host is called with the VM and not with its name, and answers None.
stop_vdsm(h, v) ==
    << Look(v, {"down"}), If(<<>>, <<Ret("false")>>) >> \o get_host_ip(h)
    \o << Do(h, hostLost), OrFalse,
          Call(wait_for_hosts_states(h, {"down", "non_responsive", "connecting"})),
          Ret("res") >>

kill_vm_process == << Check({"process"}, {"ok"}), OrFalse, Shell, Ret("res") >>

kill_vdsmd == << Shell, OrFalse, Shell, OrFalse, Shell, Ret("res") >>

run_delayed_control_service == << Shell, Ret("same") >>

wait_for_host_pm_operation ==
    << Try(<<Shell, OrRaise("Error")>>, AnyException, <<Ret("false")>>),
       Ret("true") >>

check_network_filtering ==
    << Shell, OrFalse, Check({"filter"}, {"ok"}),
       If(<<>>, <<Ret("negative")>>), Check({"xml"}, {"ok"}),
       If(<<>>, <<Ret("negative")>>), Shell,
       If(<<>>, <<Ret("negative")>>), Ret("positive") >>

check_nwfilter_virsh ==
    << Shell, OrFalse, Shell, OrFalse, Check({"filter"}, {"ok"}), OrFalse,
       Ret("true") >>

check_network_filtering_dumpxml ==
    << Shell, Check({"filter"}, {"ok"}), If(<<Ret("positive")>>, <<Ret("negative")>>) >>

check_network_filtering_ebtables ==
    << Shell, OrFalse, Check({"filter"}, {"ok"}), OrFalse, Ret("true") >>

-----------------------------------------------------------------------------
(* Tags, fence agents *)

add_tag_to_host(h) == << Find(h), Req("tag", New), Ret("res") >>

remove_tag_from_host(h) ==
    << Find(h), Find("tag"), Req("tag", Drop), Ret("res") >>

get_fence_agents_list(h) == << Find(h) >>

get_fence_agents_link(h) == << Find(h) >>

get_fence_agent_by_address(h) ==
    get_fence_agents_list(h) \o << Check({"agent"}, Statuses) >>

add_fence_agent(h) == get_fence_agents_link(h) \o << Do("agent", New), Ret("res") >>

update_fence_agent(h) ==
    get_fence_agent_by_address(h)
    \o << OrRaise("Error"), Do("agent", Update), Ret("res") >>

remove_fence_agent == << Do("agent", Drop), Ret("res") >>

-----------------------------------------------------------------------------
Host == [host |-> {"up", "maintenance", "none"}]
HostAnd(e) == [host |-> {"up", "none"}] @@ e :> {"ok", "none"}
HostNew(e) == [host |-> {"up", "none"}] @@ e :> {"none"}
Spm == [host |-> {"up", "none"}, spm |-> {"ok", "none"}]

HostReads == {
    Reads("get_host_status", get_host_status("host") \o <<Ret("true")>>, Host,
          "host"),
    Reads("get_host_topology", get_host_topology("host"), Host, "host"),
    Reads("get_hsm_host", get_hsm_host("host"),
          Host @@ [spm |-> {"ok", "none"}], "host"),
    Reads("get_cluster_compatibility_version",
          get_cluster_compatibility_version, [cluster |-> {"ok", "none"}],
          "cluster"),
    Fn("is_host_up", is_host_up("host"), {}, Host, [host |-> {"up"}]),
    Fn("is_host_in_maintenance", is_host_in_maintenance("host"), {},
       [host |-> {"maintenance", "none"}], [host |-> {"maintenance"}]),
    Reads("is_host_exist", is_host_exist("host"), Host, "host"),
    Reads("get_host_cluster", get_host_cluster("host"),
       Host @@ [cluster |-> {"ok"}], "host"),
    Reads("get_host_nic_statistics", get_host_nic_statistics("host", "nic"),
       HostAnd("nic"), "nic"),
    Fn("get_cluster_hosts", get_cluster_hosts("host"), {}, Host, [host |-> {"up"}]),
    Reads("get_host_compatibility_version", get_host_compatibility_version("host"),
       HostAnd("cluster"), "cluster"),
    Reads("get_numa_node_by_index", get_numa_node_by_index("host"),
       HostAnd("hostnuma"), "hostnuma"),
    Reads("get_host_vm_run_on", get_host_vm_run_on("vm"), VmAnd("host"), "host"),
    Reads("get_host_device_id_by_name", get_host_device_id_by_name("host"),
       HostAnd("device"), "device"),
    Fn("is_hosted_engine_active", is_hosted_engine_active("host"), {},
       [host |-> {"up"}, he |-> {"active", "maintenance"}], [he |-> {"active"}]) }

HostCalls == HostReads \cup {
    Fn("wait_for_hosts_states", wait_for_hosts_states("host", {"up"}), {},
       [host |-> {"up", "down", "none"}], [host |-> {"up"}]),
    Fn("add_host", add_host("host"), {"wait"}, [host |-> {"none"}], [host |-> {"up"}]),
    Asks("update_host", update_host("host"), P, Host, "host"),
    Fn("activate_host", activate_host("host"), PW,
       [host |-> {"maintenance", "up", "none"}, he |-> {"none", "active"}],
       [host |-> {"up"}]),
    Fn("deactivate_host", deactivate_host("host", {"maintenance"}), P,
       [host |-> {"up", "maintenance"}, he |-> {"none", "maintenance"},
        spm |-> {"ok", "none"}], [host |-> {"maintenance"}]),
    Asks("remove_host", remove_host("host"), {"positive", "deactivate"}, Host,
       "host"),
    Fn("upgrade_host", upgrade_host("host"), {}, Host, [host |-> {"up"}]),
    Asks("check_host_upgrade", check_host_upgrade("host"), {}, Host, "host"),
    Asks("commit_network_config", commit_network_config("host"), {}, Host, "host"),
    Fn("fence_host", fence_host("host"), {"wait", "stop"}, Host,
       [host |-> {"up", "maintenance", "down"}]),
    Fn("set_host_non_operational_nic_down",
       set_host_non_operational_nic_down("host"), {}, Host,
       [host |-> {"non_operational"}]),
    Fn("refresh_host_capabilities", refresh_host_capabilities("host"), {},
       HostAnd("event"), [event |-> {"ok"}]),
    Fn("get_spm_host", get_spm_host("host"), {}, Spm, [spm |-> {"ok"}]),
    Fn("get_any_non_spm_host", get_any_non_spm_host("host"), {}, Spm,
       [spm |-> {"none"}]),
    Fn("get_host", get_host("host"), {}, Spm @@ [dc |-> {"up", "none"}],
       [spm |-> {"ok"}]),
    Fn("select_host_as_spm", select_host_as_spm("host"), {"wait"},
       [host |-> {"up"}, spm |-> {"ok", "none"}], [spm |-> {"ok"}]),
    Fn("check_spm_priority", check_spm_priority("host"), {}, HostAnd("priority"),
       [priority |-> {"ok"}]),
    Fn("set_spm_priority", set_spm_priority("host"), {},
       HostAnd("priority"), [priority |-> {"ok"}]),
    Fn("set_spm_priority_in_db", set_spm_priority_in_db, {}, [shell |-> {"ok"}],
       [shell |-> {"asked"}]),
    Fn("start_vdsm", start_vdsm("host"), {},
       [host |-> {"non_operational", "up"}, dc |-> {"powering_up", "up", "none"}],
       [dc |-> {"up"}]),
    Fn("kill_vm_process", kill_vm_process, {},
       [process |-> {"ok", "none"}, shell |-> {"ok"}], [shell |-> {"asked"}]),
    Fn("kill_vdsmd", kill_vdsmd, {}, [shell |-> {"ok"}], [shell |-> {"asked"}]),
    Fn("run_delayed_control_service", run_delayed_control_service, {},
       [shell |-> {"ok"}], [shell |-> {"asked"}]),
    Fn("wait_for_host_pm_operation", wait_for_host_pm_operation, {},
       [shell |-> {"ok"}], [shell |-> {"asked"}]),
    Fn("check_network_filtering", check_network_filtering, {},
       [filter |-> {"ok", "none"}, xml |-> {"ok", "none"}],
       [filter |-> {"ok"}, xml |-> {"ok"}]),
    Fn("check_nwfilter_virsh", check_nwfilter_virsh, {},
       [filter |-> {"ok", "none"}], [filter |-> {"ok"}]),
    Fn("check_network_filtering_dumpxml", check_network_filtering_dumpxml, {},
       [filter |-> {"ok", "none"}], [filter |-> {"ok"}]),
    Fn("check_network_filtering_ebtables", check_network_filtering_ebtables, {},
       [filter |-> {"ok", "none"}], [filter |-> {"ok"}]),
    Asks("add_tag_to_host", add_tag_to_host("host"), P, HostNew("tag"), "tag"),
    Asks("remove_tag_from_host", remove_tag_from_host("host"), P, HostAnd("tag"),
       "tag"),
    Asks("add_fence_agent", add_fence_agent("host"), {}, HostNew("agent"), "agent"),
    Asks("update_fence_agent", update_fence_agent("host"), {}, HostAnd("agent"),
       "agent"),
    Asks("remove_fence_agent", remove_fence_agent, {}, [agent |-> {"ok"}],
       "agent") }

\* Calls that fail without a reason: see README.
HostFailures == {
    Fn("install_host", install_host("host"), {}, Host, [host |-> {"maintenance"}]),
    Fn("reboot_host", reboot_host("host"), {}, [host |-> {"up"}],
       [host |-> {"non_responsive"}]),
    Fn("stop_vdsm", stop_vdsm("host", "vm"), {},
       [host |-> {"up"}, vm |-> {"up", "down"}],
       [host |-> {"down", "non_responsive", "connecting"}]),
    Fn("deactivate_host", deactivate_host("host", {"maintenance"}), {},
       [host |-> {"up"}, he |-> {"none"}, spm |-> {"soon"}],
       [host |-> {"maintenance"}]) }
=============================================================================
