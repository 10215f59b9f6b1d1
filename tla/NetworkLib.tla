----------------------------- MODULE NetworkLib -----------------------------
(***************************************************************************)
(* tests_lib/low_level/networks.py and host_network.py.  n is a network, p *)
(* a VNIC profile, l a label, a the attachment of a network to a host;     *)
(* "samedc" is "ok" when the cluster is one of the data center.            *)
(***************************************************************************)
EXTENDS HostLib, ClusterLib

-----------------------------------------------------------------------------
(* Networks of a data center *)

\* None when the caller names a cluster and a data center that it is not in
find_network(n, cluster) ==
    (IF cluster
     THEN <<Maybe(<<Find("cluster"), Find("dc"), Check({"samedc"}, {"ok"}),
                    If(<<>>, <<Ret("none")>>)>>)>>
     ELSE <<>>)
    \o << Maybe(<<Find("dc")>>), Find(n), Ret("true") >>

\* The network, of which an attribute is read.
NetworkOf(n) == << Call(find_network(n, TRUE)), OrRaise("Error") >>

\* What the request to add the QoS has answered is not looked at.
prepare_qos_on_net ==
    << Call(get_qos_from_datacenter("dc", "qos") \o <<Ret("res")>>),
       If(<<>>,
          <<Call(add_qos_to_datacenter("dc", "qos")),
            Call(get_qos_from_datacenter("dc", "qos") \o <<Ret("res")>>)>>) >>

prepare_network_object ==
    << Maybe(<<Find("dc")>>), Maybe(prepare_qos_on_net),
       Maybe(<<Find("provider")>>) >>

add_network(n) == prepare_network_object \o << Req(n, New), Ret("res") >>

update_network(n) ==
    << Call(find_network(n, FALSE)) >> \o prepare_network_object
    \o << Req(n, Update), Ret("res") >>

remove_network(n) ==
    << Call(find_network(n, FALSE)), Req(n, Drop), Ret("res") >>

get_networks_in_datacenter == << Find("dc") >>

get_network_in_datacenter(n) ==
    get_networks_in_datacenter \o << Check({n}, Statuses), Ret("res") >>

create_network_in_datacenter(n) ==
    << Find("dc") >> \o prepare_network_object \o << Req(n, New), Ret("res") >>

delete_network_in_datacenter(n) ==
    << Call(get_network_in_datacenter(n)), OrFalse, Req(n, Drop), Ret("res") >>

update_network_in_datacenter(n) ==
    << Call(get_network_in_datacenter(n)), OrRaise("Error") >>
    \o prepare_network_object \o << Req(n, Update), Ret("res") >>

\* Named networks are looked up first: one that is missing has no name.
delete_networks_in_datacenter(ns) ==
    ForEach(ns, LAMBDA n :
        <<Call(get_network_in_datacenter(n)), OrRaise("Error")>>)
    \o ForEach(ns, LAMBDA n :
        <<Call(delete_network_in_datacenter(n)), OrFalse>>)
    \o << Ret("true") >>

get_network_cluster(n) ==
    << Call(find_network(n, FALSE)), Call(get_data_center("dc")),
       Exists("cluster"), Ret("res") >>

-----------------------------------------------------------------------------
(* Networks of a cluster *)

get_cluster_network(n) ==
    << Try(<<Find("cluster"), Find(n)>>, {"EntityNotFound"}, <<Ret("none")>>),
       Ret("true") >>

get_cluster_networks == << Find("cluster") >>

add_network_to_cluster(n, cn) ==
    << Call(find_network(n, FALSE)) >> \o get_cluster_networks
    \o << Req(cn, New), Ret("res") >>

update_cluster_network(n) ==
    << Call(get_cluster_network(n)), OrRaise("Error"), Req(n, Update),
       Ret("res") >>

remove_network_from_cluster(n) ==
    << Call(get_cluster_network(n)), OrRaise("Error"), Req(n, Drop),
       Ret("res") >>

is_network_required(n) ==
    << Call(get_cluster_network(n)), OrRaise("Error"),
       Check({"required"}, {"ok"}), Ret("res") >>

check_network_usage(n) ==
    << Call(get_cluster_network(n)), OrFalse, Check({"usage"}, {"ok"}),
       OrFalse, Ret("true") >>

is_gluster_network(n) == << Call(check_network_usage(n)), Ret("res") >>

get_management_network(n) ==
    get_cluster_networks \o << Check({n}, Statuses), Ret("res") >>

-----------------------------------------------------------------------------
(* VNIC profiles *)

get_supported_network_filters == << Check({"filter"}, Statuses) >>

prepare_vnic_profile_object(n) ==
    << Maybe(<<Call(find_network(n, TRUE))>>),
       Maybe(get_supported_network_filters) >>

get_vnic_profile_objects(p) == << Check({p}, Statuses) >>

get_all_vnics_profiles(p) == << Check({p}, Statuses) >>

get_vnic_profile_from_network(n, p) ==
    NetworkOf(n) \o get_vnic_profile_objects(p) \o << Ret("res") >>

get_network_vnic_profiles(n) == NetworkOf(n)

get_vnic_profile_obj(n, p) ==
    get_network_vnic_profiles(n)
    \o << Check({p}, Statuses), OrRaise("EntityNotFound"), Ret("true") >>

get_vnic_profile_object(n, p) ==
    << Either(get_vnic_profile_obj(n, p),
              get_all_vnics_profiles(p) \o <<Ret("res")>>) >>

get_vnic_profile_attr(n, p) ==
    << Call(get_vnic_profile_obj(n, p)), Maybe(get_supported_network_filters),
       Ret("true") >>

is_vnic_profile_exist(p) == get_vnic_profile_objects(p) \o << Ret("res") >>

update_vnic_profile(n, p) ==
    << Call(get_vnic_profile_from_network(n, p)), OrFalse >>
    \o prepare_vnic_profile_object(n) \o << Do(p, Update), Ret("res") >>

add_vnic_profile(n, p) ==
    prepare_vnic_profile_object(n) \o << Req(p, New), Ret("res") >>

remove_vnic_profile(n, p) ==
    << Call(get_vnic_profile_object(n, p)), OrRaise("Error"), Req(p, Drop),
       Ret("res") >>

\* A QoS that is missing is left out.
update_qos_on_vnic_profile(n, p) ==
    get_qos_from_datacenter("dc", "qos")
    \o << Call(update_vnic_profile(n, p)), Ret("res") >>

prepare_vnic_profile_mappings_object(n, p) ==
    << Maybe(<<Call(get_vnic_profile_obj(n, p))>>), Ret("true") >>

-----------------------------------------------------------------------------
(* Labels *)

add_label(n, l, m) ==
    NetworkOf(n) \o << Do(l, New), OrFalse >>
    \o << Maybe(get_host_nic("host", "nic")
                \o <<OrRaise("Error"), Do(m, New), OrFalse>>),
          Ret("true") >>

get_host_nic_labels(l) == << Check({l}, Statuses) >>

get_host_nic_label_objs_by_id(l) == get_host_nic_labels(l)

get_label_objects(n) ==
    << Either(get_host_nic("host", "nic") \o <<OrRaise("Error")>>,
              NetworkOf(n)) >>

\* Labels that are not there are not removed.
remove_label(n, l) ==
    get_label_objects(n)
    \o << See({l}, Statuses), If(<<Do(l, Drop), Keep>>, <<>>), Ret("acc") >>

-----------------------------------------------------------------------------
(* On a host *)

check_ip_rule == << Shell, OrFalse, Check({"rules"}, {"ok"}), Ret("res") >>

is_host_network_is_vm == << Check({"file"}, {"ok"}), Ret("res") >>

is_vlan_on_host_network ==
    << Shell, OrFalse, Check({"value"}, {"ok"}), Ret("res") >>

check_bridge_opts ==
    << Shell, OrFalse, Check({"value"}, {"ok"}), OrFalse, Ret("true") >>

check_ethtool_opts ==
    << Shell, OrFalse, Check({"option"}, {"ok"}), OrFalse,
       Check({"value"}, {"ok"}), Ret("res") >>

check_bridge_file_exist ==
    << Check({"file"}, {"ok"}),
       When("positive", <<OrFalse>>, <<If(<<Ret("false")>>, <<>>)>>),
       Ret("true") >>

get_network_on_host_nic ==
    get_host_nic("host", "nic")
    \o << OrRaise("Error"), Find("network"), Ret("true") >>

get_bond_bonding_property ==
    get_host_nics_list("host")
    \o << Check({"bond"}, Statuses), If(<<>>, <<Ret("none")>>), Ret("true") >>

get_bond_active_slave_object ==
    get_host_nics_list("host")
    \o << Check({"bond"}, Statuses), If(<<>>, <<Ret("none")>>),
          Check({"slave"}, Statuses), If(<<>>, <<Ret("none")>>), Ret("true") >>

-----------------------------------------------------------------------------
(* host_network.py: attachments of networks to hosts *)

get_host_network_attachments == << Find("host") >>

get_host_nic_network_attachments == << Find("nic") >>

get_network_name_from_attachment == << Find("network") >>

get_networks_attachments(a) ==
    << Either(get_host_nic_network_attachments, get_host_network_attachments) >>
    \o get_network_name_from_attachment \o << Check({a}, Statuses) >>

\* No object for an update of a network that is not attached
prepare_network_attachment_obj(a, update) ==
    (IF update THEN <<Call(get_networks_attachments(a) \o <<Ret("res")>>),
                      If(<<>>, <<Ret("none")>>)>>
               ELSE <<>>)
    \o << Maybe(prepare_qos_obj), Maybe(get_host_nic("host", "nic")) >>
    \o (IF update THEN <<>> ELSE <<Call(find_network("network", TRUE))>>)
    \o << Ret("true") >>

prepare_bond_attachment_obj(update) ==
    (IF update THEN get_host_nic("host", "bond") \o <<OrRaise("Error")>>
               ELSE <<>>)
    \o << Maybe(get_host_nic("host", "slave")), Ret("true") >>

\* Attachments and labels that are not there are left out.
prepare_remove_for_setupnetworks(a) ==
    get_networks_attachments(a)
    \o << Maybe(get_host_nic("host", "bond")),
          Maybe(get_host_nics_list("host")
                \o get_host_nic_label_objs_by_id("label")) >>

prepare_add_for_setupnetworks(a, update) ==
    << Maybe(<<Call(prepare_bond_attachment_obj(update))>>),
       Maybe(<<Call(prepare_network_attachment_obj(a, update))>>),
       Maybe(get_host_nic("host", "nic")) >>

get_host_unmanaged_objects(u) == << Find("host"), See({u}, Statuses) >>

get_host_unmanaged_networks(u) == get_host_unmanaged_objects(u)

remove_unmanaged_networks(u) ==
    get_host_unmanaged_networks(u)
    \o << If(<<Do(u, Drop), OrFalse>>, <<>>), Ret("true") >>

-----------------------------------------------------------------------------

NetworkCalls ==
    LET Net == [network |-> {"ok", "none"}]
        InDcNet == Net @@ [dc |-> {"up", "none"}]
        InCluster == Net @@ [cluster |-> {"ok", "none"}]
        Both == InCluster @@ [samedc |-> {"ok", "none"}]
        With(e) == Both @@ (e :> {"ok", "none"})
        File(e) == e :> {"ok", "none"}
        p == {"positive"}
        Sees(name, body, given, e) == Fn(name, body, {}, given, e :> {"ok"})
    IN {
    Asks("add_network", add_network("network"), p,
         InDcNet @@ [qos |-> {"ok", "none"}], "network"),
    Asks("update_network", update_network("network"), p, InDcNet, "network"),
    Asks("remove_network", remove_network("network"), p, InDcNet, "network"),
    Asks("create_network_in_datacenter",
         create_network_in_datacenter("network"), p, InDcNet, "network"),
    Asks("delete_network_in_datacenter",
         delete_network_in_datacenter("network"), p, InDcNet, "network"),
    Asks("update_network_in_datacenter",
         update_network_in_datacenter("network"), p, InDcNet, "network"),
    Fn("delete_networks_in_datacenter",
       delete_networks_in_datacenter(<<"network", "network2">>), {},
       Net @@ [network2 |-> {"ok", "none"}],
       [network |-> {"asked"}, network2 |-> {"asked"}]),
    Reads("get_network_cluster", Direct(get_network_cluster("network")),
          InCluster, "cluster"),
    Asks("add_network_to_cluster",
         add_network_to_cluster("network", "clusternet"), p,
         InCluster @@ [clusternet |-> {"none", "ok"}], "clusternet"),
    Asks("update_cluster_network", update_cluster_network("network"), p,
         InCluster, "network"),
    Asks("remove_network_from_cluster",
         remove_network_from_cluster("network"), p, InCluster, "network"),
    Sees("is_network_required", is_network_required("network"),
         InCluster @@ [required |-> {"ok", "none"}], "required"),
    Sees("is_gluster_network", is_gluster_network("network"),
         InCluster @@ [usage |-> {"ok", "none"}], "usage"),
    Reads("get_management_network", get_management_network("network"),
          InCluster, "network"),
    Reads("get_vnic_profile_attr", get_vnic_profile_attr("network", "profile"),
          With("profile"), "profile"),
    Reads("is_vnic_profile_exist", is_vnic_profile_exist("profile"),
          File("profile"), "profile"),
    Asks("update_vnic_profile", update_vnic_profile("network", "profile"), {},
         With("profile"), "profile"),
    Asks("update_qos_on_vnic_profile",
         update_qos_on_vnic_profile("network", "profile"), {},
         Net @@ [profile |-> {"ok", "none"}, qos |-> {"ok", "none"}],
         "profile"),
    Asks("add_vnic_profile", add_vnic_profile("network", "profile"), p,
         With("profile"), "profile"),
    Asks("remove_vnic_profile", remove_vnic_profile("network", "profile"), p,
         With("profile"), "profile"),
    Fn("prepare_vnic_profile_mappings_object",
       prepare_vnic_profile_mappings_object("network", "profile"), {},
       With("profile"), <<>>),
    Asks("add_label", add_label("network", "label", "niclabel"), {},
         With("label") @@ [nic |-> {"ok", "none"}], "label"),
    Fn("remove_label", remove_label("network", "label"), {},
       With("label") @@ [nic |-> {"ok", "none"}],
       [label |-> {"asked", "none"}]),
    Sees("check_ip_rule", check_ip_rule, File("rules"), "rules"),
    Sees("is_host_network_is_vm", is_host_network_is_vm, File("file"), "file"),
    Sees("is_vlan_on_host_network", is_vlan_on_host_network, File("value"),
         "value"),
    Sees("check_bridge_opts", check_bridge_opts, File("value"), "value"),
    Sees("check_ethtool_opts", check_ethtool_opts,
         File("value") @@ File("option"), "value"),
    Sees("check_bridge_file_exist", check_bridge_file_exist, File("file"),
         "file"),
    Reads("get_network_on_host_nic", get_network_on_host_nic,
          Net @@ [nic |-> {"ok", "none"}], "network"),
    Reads("get_bond_bonding_property", get_bond_bonding_property,
          [host |-> {"up", "none"}, bond |-> {"ok", "none"}], "bond"),
    Reads("get_bond_active_slave_object", get_bond_active_slave_object,
          [bond |-> {"ok", "none"}, slave |-> {"ok", "none"}], "slave"),
    Fn("remove_unmanaged_networks", remove_unmanaged_networks("unmanaged"),
       {}, [host |-> {"up", "none"}, unmanaged |-> {"ok", "none"}],
       [unmanaged |-> {"asked", "none"}]) }
=============================================================================
