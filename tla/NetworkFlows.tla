---------------------------- MODULE NetworkFlows ----------------------------
(***************************************************************************)
(* tests_lib/high_level: hosts.py, networks.py, host_network.py and        *)
(* low_level/mac_pool.py, high_level/mac_pool.py.  "setup" stands for the  *)
(* networks of a host as setupnetworks changes them.                       *)
(***************************************************************************)
EXTENDS NetworkLib, StorageLib

-----------------------------------------------------------------------------
(* hosts.py *)

add_hosts(h, g) ==
    << Fork(<<add_host(h), add_host(g)>>, {"wait"}, "raise"),
       OrRaise("HostException"), Call(wait_for_hosts_states(h, {"up"})),
       OrRaise("HostException"), Call(wait_for_hosts_states(g, {"up"})),
       OrRaise("HostException"), Ret("none") >>

deactivate_host_if_up(h) ==
    << Call(is_host_in_maintenance(h)),
       If(<<>>, <<Call(deactivate_host(h, {"maintenance"})), Ret("res")>>),
       Ret("true") >>

\* The SPM comes last.
deactivate_hosts_if_up(h, spm) ==
    << Try(<<Call(get_spm_host(spm))>>, {"EntityNotFound"}, <<>>),
       Call(deactivate_host_if_up(h)), OrFalse,
       Call(deactivate_host_if_up(spm)), OrFalse, Ret("true") >>

move_host_to_another_cluster(h) ==
    << Call(is_host_in_maintenance(h)),
       If(<<>>, <<Call(deactivate_host(h, {"maintenance"})), OrFalse>>),
       Call(update_host(h)), OrFalse,
       When("activate", <<Call(activate_host(h)), OrFalse>>, <<>>),
       Ret("true") >>

add_power_management(h) ==
    << Call(add_fence_agent(h)), OrFalse, Call(update_host(h)), OrFalse,
       Ret("true") >>

remove_power_management(h) ==
    get_fence_agents_list(h)
    \o << See({"agent"}, Statuses),
          If(<<Call(remove_fence_agent), OrFalse>>, <<>>),
          Call(update_host(h)), OrFalse, Ret("true") >>

activate_host_if_not_up(h) ==
    << Look(h, {"up"}), If(<<Ret("true")>>, <<>>), Call(activate_host(h)),
       Ret("res") >>

\* The host is activated again whether or not the service has come back.
restart_services_under_maintenance_state(h) ==
    get_host_name_from_engine(h)
    \o << Call(deactivate_host(h, {"maintenance"})), OrFalse, Shell, Keep,
          Call(activate_host(h)), OrFalse, Ret("acc") >>

restart_vdsm_and_wait_for_activation(h, s) ==
    << Call(restart_services_under_maintenance_state(h)), OrFalse,
       Call(wait_for_storage_domain_status(s, {"active"})), Ret("res") >>

-----------------------------------------------------------------------------
(* host_network.py *)

\* With retry the request is repeated for 15 seconds.
setup_networks(h, prepare) ==
    get_host_object(h) \o prepare
    \o << Do("setup", Update),
          When("retry", <<If(<<>>, <<Do("setup", Update),
                                     If(<<>>, <<Do("setup", Update)>>)>>)>>,
               <<>>),
          When("persist", <<If(<<Call(commit_network_config(h)), Ret("res")>>,
                               <<>>)>>, <<>>),
          Ret("res") >>

Changes(a) ==
    << Maybe(prepare_remove_for_setupnetworks(a)),
       Maybe(prepare_add_for_setupnetworks(a, FALSE)),
       Maybe(prepare_add_for_setupnetworks(a, TRUE)),
       Maybe(get_networks_attachments(a)) >>

\* Gluster networks and the management network stay.
clean_host_interfaces(h, n, u) ==
    get_host_object(h) \o get_host_network_attachments
    \o << Call(get_host_cluster(h)), Find("cluster"), Find("mgmt") >>
    \o get_host_nics_list(h)
    \o << Find(n),
          When("remove_gluster", <<>>,
               <<Call(is_gluster_network(n)),
                 If(<<Call(remove_unmanaged_networks(u)), OrFalse,
                      Ret("true")>>, <<>>)>>),
          Call(remove_unmanaged_networks(u)), OrFalse,
          Pass(setup_networks(h, prepare_remove_for_setupnetworks("att")),
               {}, {"persist"}),
          OrFalse, Ret("true") >>

remove_networks_from_host(h, a) ==
    get_host_object(h) \o get_host_nic(h, "nic") \o get_networks_attachments(a)
    \o << OrFalse, Do(a, Drop), OrFalse, Ret("true") >>

add_network_to_host(h, a) ==
    get_host_object(h) \o get_host_nic(h, "nic")
    \o << If(<<>>, <<Call(prepare_network_attachment_obj(a, FALSE)),
                     Raise("Error")>>),
          Call(prepare_network_attachment_obj(a, FALSE)), Do(a, New),
          Ret("res") >>

update_network_on_host(h, a) ==
    get_host_object(h) \o get_host_nic(h, "nic") \o get_networks_attachments(a)
    \o << OrFalse, Call(prepare_network_attachment_obj(a, TRUE)),
          OrRaise("Error"), Do(a, Update), Ret("res") >>

get_attached_networks_names_from_host_nic(h) ==
    get_host_object(h) \o get_host_nic(h, "nic")
    \o << OrRaise("Error") >> \o get_host_nic_network_attachments

check_network_on_nic(h, a) ==
    get_attached_networks_names_from_host_nic(h)
    \o << Check({a}, Statuses), Ret("res") >>

get_unsync_network_attachments(h, a) ==
    get_host_object(h)
    \o << Either(get_networks_attachments(a), get_host_network_attachments) >>

get_networks_unsync_reason(h, a) ==
    get_unsync_network_attachments(h, a)
    \o << Find("network"), Check({a}, {"mixed"}), Ret("res") >>

-----------------------------------------------------------------------------
(* networks.py *)

remove_networks(ns) ==
    ForEach(ns, LAMBDA n : <<CallPos(remove_network(n)), Keep>>)
    \o << Ret("acc") >>

create_and_attach_networks(n, cn) ==
    << When("data_center", <<Call(add_network(n)), OrFalse>>, <<>>),
       Call(add_network_to_cluster(n, cn)), OrFalse, Ret("true") >>

get_clusters_managements_networks_ids ==
    << Exists("cluster"), If(<<Call(get_management_network("mgmt"))>>, <<>>) >>

\* Networks of a gluster stay.
remove_all_networks(n) ==
    << Maybe(get_cluster_object("cluster")) >>
    \o get_clusters_managements_networks_ids
    \o << Either(get_cluster_networks, get_networks_in_datacenter),
          Exists(n), If(<<>>, <<Ret("true")>>),
          When("remove_gluster", <<>>,
               <<Call(get_network_cluster(n)), Call(is_gluster_network(n)),
                 If(<<Ret("true")>>, <<>>)>>),
          Call(remove_networks(<<n>>)), Ret("res") >>

remove_net_from_setup(h, n, u) ==
    << When("host",
            <<Try(<<Call(clean_host_interfaces(h, n, u)), OrFalse>>,
                  AnyException, <<Ret("false")>>)>>, <<>>),
       When("all_net", <<Call(remove_all_networks(n))>>,
            <<Call(remove_networks(<<n>>))>>),
       OrFalse, Ret("true") >>

create_dummy_interfaces(d) ==
    << Exists(d), If(<<>>, <<Do(d, New), OrFalse>>), Ret("true") >>

\* The answer of the removal is not looked at.
delete_dummy_interfaces(h, d) ==
    get_host_name_from_engine(h)
    \o << Exists(d), If(<<Do(d, Drop)>>, <<>>) >> \o get_max_event_id("start")
    \o << Call(refresh_host_capabilities(h)), Ret("res") >>

get_ip_on_host_nic(h) ==
    get_host_object(h) \o get_host_nic(h, "nic")
    \o << If(<<Ret("true")>>, <<Ret("none")>>) >>

\* get_host_nic answers None for a VLAN that is missing, and the handler
\* waits for EntityNotFound: the VLAN is not checked.
check_host_nic_params(h) ==
    get_host_object(h) \o get_host_nic(h, "nic")
    \o << When("bridge", <<If(<<>>, <<Raise("Error")>>),
                           Check({"bridged"}, {"ok"}), Keep>>, <<>>),
          When("vlan", <<Try(get_host_nic(h, "vlannic"), {"EntityNotFound"},
                             <<Because, Keep>>)>>, <<>>),
          Ret("acc") >>

create_basic_setup(dc, c, h, g) ==
    << Call(addDataCenter(dc)), OrFalse,
       When("cluster",
            <<Call(addCluster(c)), OrFalse,
              When("host", <<Try(<<Call(add_hosts(h, g))>>, {"HostException"},
                                 <<Ret("false")>>)>>, <<>>)>>, <<>>),
       Ret("true") >>

remove_basic_setup(dc, c, h) ==
    << When("cluster",
            <<Pass(remove_host(h), {}, {"positive", "deactivate"}), OrFalse,
              Call(removeCluster(c)), OrFalse>>, <<>>),
       Call(remove_datacenter(dc)), OrFalse, Ret("true") >>

is_management_network(n) ==
    << Call(get_management_network(n)),
       If(<<Find("cluster")>>, <<Find("cluster"), Raise("Error")>>),
       Check({"samenet"}, {"ok"}), Ret("res") >>

get_nic_statistics(h, n) ==
    << Either(get_host_object(h) \o <<Call(get_host_nic_statistics(h, n))>>,
              get_vm_nic("vm", n)),
       Ret("true") >>

get_management_network_host_nic(h, n) ==
    << Call(get_management_network("mgmt")), Find(h), OrRaise("Error"),
       Check({n}, Statuses), Ret("res") >>

remove_unneeded_vnic_profiles(p) ==
    << Call(get_data_center("dc")) >> \o get_cluster_networks
    \o << Exists(p), If(<<Do(p, Drop), Keep>>, <<>>), Ret("acc") >>

get_vm_interface_by_vnic(v, n) ==
    << Call(get_vm_nic_mac_address(v, n)), OrFalse,
       Check({"interface"}, Statuses),
       Ret("res") >>

\* The connection need not be up for it to be taken down, and the answers of
\* the slaves are not looked at.
create_bond ==
    << When("nm",
            <<Shell, OrFalse, Shell, OrFalse, Shell, Shell, OrFalse,
              Do("slave", Act(Statuses)), Ret("true")>>,
            <<Shell, OrFalse, Shell, Ret("res")>>) >>

create_interface ==
    << Shell, OrFalse, When("nm", <<>>, <<Shell, OrFalse>>), Ret("true") >>

-----------------------------------------------------------------------------
(* mac_pool.py.  "macpool" is a pool of MAC addresses, r its ranges.          *)

get_mac_pool == << Find("macpool") >>

get_mac_pool_from_cluster(c) == << Find(c), Find("macpool"), Ret("true") >>

get_mac_pool_range_obj(r) == << Check({r}, Statuses) >>

remove_mac_pool == get_mac_pool \o << Do("macpool", Drop), Ret("res") >>

create_mac_pool == << Req("macpool", New), Ret("res") >>

update_mac_pool(r) == get_mac_pool \o << Do(r, Update), Ret("res") >>

get_default_mac_pool == First("macpool")

add_ranges_to_mac_pool(r) ==
    get_mac_pool \o << Call(update_mac_pool(r)), Ret("res") >>

\* Ranges that are not there are left out.
remove_ranges_from_mac_pool(r, q) ==
    get_mac_pool \o get_mac_pool_range_obj(q) \o << Do(r, Update), Ret("res") >>

update_ranges_on_mac_pool(r, q) ==
    get_mac_pool \o get_mac_pool_range_obj(q)
    \o << OrFalse, Do(r, Update), Ret("res") >>

\* Two requests: between them the pool has the old and the new ranges.
update_default_mac_pool(r, q) ==
    << When("mac_range",
            get_default_mac_pool
            \o <<Call(add_ranges_to_mac_pool(r)), OrFalse,
                 Call(remove_ranges_from_mac_pool(r, q)), OrFalse,
                 Ret("true")>>,
            <<Because, Ret("false")>>) >>

-----------------------------------------------------------------------------

NetworkFlowCalls ==
    LET OkOr(e) == e :> {"ok", "none"}
        Up == [host |-> {"up", "none"}]
        Net == OkOr("network")
        p == {"positive"}
    IN {
    Reads("get_management_network_host_nic",
          get_management_network_host_nic("host", "hostnic"),
          Up @@ OkOr("mgmt") @@ OkOr("hostnic"), "hostnic"),
    Reads("get_vm_interface_by_vnic",
          get_vm_interface_by_vnic("vm", "nic"),
          [vm |-> {"up"}] @@ OkOr("nic") @@ OkOr("interface"), "interface"),
    Proc("add_hosts", add_hosts("host", "host2"), {},
         [host |-> {"none"}, host2 |-> {"none"}],
         [host |-> {"up"}, host2 |-> {"up"}]),
    Fn("deactivate_hosts_if_up", deactivate_hosts_if_up("host", "host2"), {},
       [host |-> {"up", "maintenance"}, host2 |-> {"up"}],
       [host |-> {"maintenance"}, host2 |-> {"maintenance"}]),
    Fn("move_host_to_another_cluster", move_host_to_another_cluster("host"),
       {"activate"}, [host |-> {"up", "maintenance", "none"}],
       [host |-> {"up", "asked"}]),
    Fn("add_power_management", add_power_management("host"), {},
       Up @@ [agent |-> {"none"}],
       [host |-> {"asked"}, agent |-> {"asked"}]),
    Fn("remove_power_management", remove_power_management("host"), {},
       Up @@ OkOr("agent"), [host |-> {"asked"}, agent |-> {"asked", "none"}]),
    Fn("activate_host_if_not_up", activate_host_if_not_up("host"), {},
       [host |-> {"up", "maintenance", "none"}], [host |-> {"up"}]),
    Fn("restart_vdsm_and_wait_for_activation",
       restart_vdsm_and_wait_for_activation("host", "sd"), {},
       [host |-> {"up"}, sd |-> {"active", "inactive"}],
       [host |-> {"up"}, sd |-> {"active"}]),
    Asks("setup_networks", setup_networks("host", Changes("att")),
         {"retry", "persist"}, Up @@ [setup |-> {"ok"}], "setup"),
    Fn("clean_host_interfaces",
       clean_host_interfaces("host", "network", "unmanaged"),
       {"remove_gluster"}, OkOr("unmanaged") @@ OkOr("usage"),
       [unmanaged |-> {"asked", "none"}]),
    Asks("remove_networks_from_host", remove_networks_from_host("host", "att"),
         {}, Up @@ OkOr("att"), "att"),
    Asks("add_network_to_host", add_network_to_host("host", "att"), {},
         OkOr("nic") @@ [att |-> {"none"}], "att"),
    Asks("update_network_on_host", update_network_on_host("host", "att"), {},
         Up @@ OkOr("att"), "att"),
    Reads("check_network_on_nic", check_network_on_nic("host", "att"),
          OkOr("nic") @@ OkOr("att"), "att"),
    Fn("get_networks_unsync_reason", get_networks_unsync_reason("host", "att"),
       {}, [att |-> {"mixed", "ok", "none"}], [att |-> {"mixed"}]),
    Fn("remove_networks", remove_networks(<<"network", "network2">>), p,
       Net @@ OkOr("network2"),
       [network |-> {"asked"}, network2 |-> {"asked"}]),
    Asks("create_and_attach_networks",
         create_and_attach_networks("network", "clusternet"),
         {"data_center"}, Net @@ [clusternet |-> {"none"}], "clusternet"),
    Fn("remove_all_networks", remove_all_networks("network"),
       {"remove_gluster"}, Net @@ [usage |-> {"none"}],
       [network |-> {"asked", "none"}]),
    Fn("remove_net_from_setup",
       remove_net_from_setup("host", "network", "unmanaged"),
       {"host", "all_net"}, Net @@ [usage |-> {"none"}],
       [network |-> {"asked", "none"}]),
    Fn("create_dummy_interfaces", create_dummy_interfaces("dummy"), {},
       OkOr("dummy"), [dummy |-> {"asked", "ok"}]),
    Fn("delete_dummy_interfaces", delete_dummy_interfaces("host", "dummy"),
       {}, OkOr("dummy") @@ OkOr("event"), [event |-> {"ok"}]),
    Reads("get_ip_on_host_nic", get_ip_on_host_nic("host"), OkOr("nic"),
          "nic"),
    Fn("check_host_nic_params", check_host_nic_params("host"),
       {"bridge", "vlan"}, OkOr("nic") @@ OkOr("bridged") @@ OkOr("vlannic"),
       <<>>),
    Fn("create_basic_setup",
       create_basic_setup("dc", "cluster", "host", "host2"),
       {"cluster", "host"},
       [dc |-> {"none"}, cluster |-> {"none"}, host |-> {"none"}],
       [dc |-> {"uninitialized"}]),
    Asks("remove_basic_setup", remove_basic_setup("dc", "cluster", "host"),
         {"cluster"}, [dc |-> {"up"}, host |-> {"up", "maintenance"}], "dc"),
    Fn("is_management_network", is_management_network("mgmt"), {},
       OkOr("mgmt") @@ OkOr("samenet"), [samenet |-> {"ok"}]),
    Reads("get_nic_statistics", get_nic_statistics("host", "nic"),
          OkOr("nic"), "nic"),
    Fn("remove_unneeded_vnic_profiles",
       remove_unneeded_vnic_profiles("profile"), {}, OkOr("profile"),
       [profile |-> {"asked", "none"}]),
    Asks("create_bond", create_bond, {"nm"}, [shell |-> {"ok"}], "shell"),
    Asks("create_interface", create_interface, {"nm"}, [shell |-> {"ok"}],
         "shell"),
    Reads("get_mac_pool_from_cluster", get_mac_pool_from_cluster("cluster"),
          OkOr("macpool"), "macpool"),
    Asks("remove_mac_pool", remove_mac_pool, {}, OkOr("macpool"), "macpool"),
    Asks("create_mac_pool", create_mac_pool, p, OkOr("macpool"), "macpool"),
    Asks("update_ranges_on_mac_pool",
         update_ranges_on_mac_pool("ranges", "old"), {},
         OkOr("old") @@ [ranges |-> {"ok"}], "ranges"),
    Asks("update_default_mac_pool", update_default_mac_pool("ranges", "old"),
         {"mac_range"}, OkOr("macpool") @@ [ranges |-> {"ok"}], "ranges") }
=============================================================================
