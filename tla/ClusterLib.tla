----------------------------- MODULE ClusterLib -----------------------------
(***************************************************************************)
(* tests_lib/low_level/datacenters.py and clusters.py.  dc is a data       *)
(* center, c a cluster; "qos", "quota", "limit" belong to the data center, *)
(* "group" (affinity), "profile" (CPU) and "level" ("ok": the CPU level of *)
(* the cluster is the one that is asked for) to the cluster.               *)
(***************************************************************************)
EXTENDS CommonLib

(* The engine's part (external) *)

dcCreate == Create(<<"uninitialized">>, "never")
levelSet == Updates({"ok", "mixed"}, <<"ok">>)

-----------------------------------------------------------------------------
(* Data centers *)

get_data_center(dc) == << Find(dc), Ret("true") >>

\* "versions" is "ok" when no supported version is below the version of dc.
checkSupportedVersions(dc) ==
    << Find(dc), Check({"versions"}, {"ok"}), Ret("res") >>

addDataCenter(dc) ==
    << Req(dc, dcCreate), Keep,
       When("positive", <<Call(checkSupportedVersions(dc)), Keep>>, <<>>),
       Ret("acc") >>

update_datacenter(dc) == << Find(dc), Req(dc, Update), Ret("res") >>

remove_datacenter(dc) == << Find(dc), Req(dc, Drop), Ret("res") >>

waitForDataCenterState(dc, state) ==
    << Find(dc), Query({dc}, {state}), Ret("res") >>

wait_for_datacenter_state_api(dc, status) ==
    << WatchQ(dc, {status}), OrRaise("Error"), Ret("none") >>

get_sd_datacenter(sd) ==
    << Find(sd), Check({"attachment"}, Statuses), Ret("res") >>

-----------------------------------------------------------------------------
(* Quality of service *)

\* An attribute that the data structure does not have
prepare_qos_obj == << When("bad_attribute", <<Raise("Error")>>, <<>>) >>

add_qos_to_datacenter(dc, q) ==
    prepare_qos_obj \o << Call(get_data_center(dc)), Do(q, New), Ret("res") >>

get_qoss_from_datacenter(dc) == << Call(get_data_center(dc)) >>

\* False when there is none
get_qos_from_datacenter(dc, q) ==
    get_qoss_from_datacenter(dc) \o << Check({q}, Statuses) >>

delete_qos_from_datacenter(dc, q) ==
    get_qos_from_datacenter(dc, q)
    \o << OrRaise("Error"), Do(q, Drop), Ret("res") >>

update_qos_in_datacenter(dc, q) ==
    get_qos_from_datacenter(dc, q)
    \o << OrFalse, Try(prepare_qos_obj, {"Error"}, <<Ret("false")>>),
          Do(q, Update), Ret("res") >>

-----------------------------------------------------------------------------
(* Quotas *)

\* None for an attribute that the data structure does not have
prepare_quota_obj == << When("bad_attribute", <<Ret("false")>>, <<>>) >>

get_quotas_obj_from_dc(dc) == << Call(get_data_center(dc)) >>

get_quotas_href(dc) == << Call(get_data_center(dc)) >>

get_quota_obj_from_dc(dc, q) ==
    get_quotas_obj_from_dc(dc) \o << Check({q}, Statuses) >>

get_quota_id_by_name(dc, q) ==
    get_quota_obj_from_dc(dc, q) \o << If(<<Ret("true")>>, <<Ret("none")>>) >>

create_dc_quota(dc, q) ==
    get_quotas_href(dc) \o prepare_quota_obj \o << Do(q, New), Ret("res") >>

update_dc_quota(dc, q) ==
    get_quota_obj_from_dc(dc, q)
    \o << OrFalse >> \o prepare_quota_obj \o << Do(q, Update), Ret("res") >>

delete_dc_quota(dc, q) ==
    get_quota_obj_from_dc(dc, q) \o << OrFalse, Do(q, Drop), Ret("res") >>

prepare_quota_limit_object ==
    << Maybe(<<Find("limited")>>),
       When("bad_attribute", <<Ret("false")>>, <<>>) >>

get_quota_limits_object(dc, q) == get_quota_obj_from_dc(dc, q)

get_quota_limits_href(dc, q) == get_quota_obj_from_dc(dc, q)

\* None when there is no quota, or no limit for the object
get_quota_limit(dc, q, l) ==
    get_quota_limits_object(dc, q)
    \o << If(<<Maybe(<<Find("limited")>>), Check({l}, Statuses)>>, <<>>) >>

create_quota_limits(dc, q, ls) ==
    get_quota_limits_href(dc, q)
    \o << OrFalse >>
    \o ForEach(ls, LAMBDA l :
            prepare_quota_limit_object \o << Do(l, New), OrFalse >>)
    \o << Ret("true") >>

delete_quota_limits(dc, q, ls) ==
    get_quota_limits_object(dc, q)
    \o << OrFalse >>
    \o ForEach(ls, LAMBDA l :
            get_quota_limit(dc, q, l) \o << OrFalse, Do(l, Drop), OrFalse >>)
    \o << Ret("true") >>

\* 0.0 when there is no limit
get_quota_limit_usage(dc, q, l) ==
    get_quota_limit(dc, q, l) \o << If(<<Ret("true")>>, <<Ret("none")>>) >>

-----------------------------------------------------------------------------
(* Clusters *)

get_cluster_object(c) == << Find(c) >>

\* A network, a data center, a provider and a policy that the caller names.
\* Their look-ups raise EntityNotFound.
prepareClusterObject ==
    << Maybe(<<Find("network")>>), Maybe(<<Find("dc")>>),
       Maybe(<<Find("provider")>>), Maybe(<<Find("policy")>>) >>

addCluster(c) == prepareClusterObject \o << Req(c, New), Ret("res") >>

updateCluster(c, what, op) ==
    << Find(c) >> \o prepareClusterObject \o << Req(what, op), Ret("res") >>

removeCluster(c) == << Find(c), Req(c, Drop), Ret("res") >>

\* The policy, its properties and the over-commitment are compared.
check_cluster_params(c, params) ==
    << Find(c), Check({params}, {"ok"}), Ret("same") >>

get_rng_sources_from_cluster(c) == get_cluster_object(c) \o << Ret("true") >>

get_all_vm_pools_in_cluster(c) == get_cluster_object(c) \o << Ret("true") >>

get_cluster_data_center_name(c) ==
    get_cluster_object(c) \o << Call(get_data_center("dc")), Ret("true") >>

get_cluster_cpu_level(c, level) ==
    get_cluster_object(c) \o << Check({level}, {"ok"}) >>

set_cluster_cpu_level(c, level) ==
    get_cluster_cpu_level(c, level)
    \o << If(<<Ret("true")>>, <<>>),
          Call(updateCluster(c, level, levelSet)), OrFalse >>
    \o get_cluster_cpu_level(c, level) \o << Ret("res") >>

-----------------------------------------------------------------------------
(* Affinity groups and CPU profiles *)

\* The VMs and hosts that the caller names; an attribute that the data
\* structure does not have.
prepare_affinity_group_object ==
    << Maybe(<<Find("member")>>),
       When("bad_attribute", <<Raise("Error")>>, <<>>) >>

\* None when there is none
get_affinity_group_obj(c, g) ==
    get_cluster_object(c) \o << Check({g}, Statuses) >>

get_affinity_groups_obj(c) == get_cluster_object(c)

create_affinity_group(c, g) ==
    get_affinity_groups_obj(c)
    \o << Try(prepare_affinity_group_object, {"Error"}, <<Ret("false")>>),
          Do(g, New), Ret("res") >>

update_affinity_group(c, g) ==
    get_affinity_group_obj(c, g)
    \o << Try(prepare_affinity_group_object, {"Error"}, <<Ret("false")>>),
          OrRaise("Error"), Do(g, Update), Ret("res") >>

remove_affinity_group(c, g) ==
    get_affinity_group_obj(c, g) \o << OrRaise("Error"), Do(g, Drop), Ret("res") >>

vm_exists_under_affinity_group(c, g, v) ==
    << Find(v) >> \o get_affinity_group_obj(c, g)
    \o << OrRaise("Error"), Check({"member"}, Statuses), Ret("res") >>

get_cpu_profile_obj(c, p) == get_cluster_object(c) \o << Check({p}, Statuses) >>

add_cpu_profile(c, p) ==
    get_cluster_object(c)
    \o << When("bad_attribute", <<Ret("false")>>, <<>>), Do(p, New),
          Ret("res") >>

remove_cpu_profile(c, p) ==
    get_cpu_profile_obj(c, p) \o << OrFalse, Do(p, Drop), Ret("res") >>

get_cpu_profile_id_by_name(c, p) ==
    get_cpu_profile_obj(c, p) \o << If(<<Ret("true")>>, <<Ret("none")>>) >>

-----------------------------------------------------------------------------

ClusterCalls ==
    LET Of(e) == [dc |-> {"up", "none"}] @@ (e :> {"ok", "none"})
        In(e) == [cluster |-> {"ok", "none"}] @@ (e :> {"ok", "none"})
        Quota(e) == [quota |-> {"ok", "none"}] @@ (e :> {"ok", "none"})
        p == {"positive"}
    IN {
    Reads("get_rng_sources_from_cluster",
          get_rng_sources_from_cluster("cluster"),
          [cluster |-> {"ok", "none"}], "cluster"),
    Reads("get_all_vm_pools_in_cluster",
          get_all_vm_pools_in_cluster("cluster"),
          [cluster |-> {"ok", "none"}], "cluster"),
    Fn("addDataCenter", addDataCenter("dc"), p,
       [dc |-> {"none", "up"}, versions |-> {"ok", "mixed"}],
       [dc |-> {"uninitialized"}, versions |-> {"ok"}]),
    Asks("update_datacenter", update_datacenter("dc"), p,
         [dc |-> {"up", "none"}], "dc"),
    Asks("remove_datacenter", remove_datacenter("dc"), p,
         [dc |-> {"up", "none"}], "dc"),
    Fn("waitForDataCenterState", waitForDataCenterState("dc", "up"), {},
       [dc |-> {"powering_up", "up", "problematic", "none"}],
       [dc |-> {"up"}]),
    Proc("wait_for_datacenter_state_api",
       wait_for_datacenter_state_api("dc", "up"), {},
       [dc |-> {"powering_up", "up", "problematic", "none"}],
       [dc |-> {"up"}]),
    Reads("get_sd_datacenter", get_sd_datacenter("sd"),
       [attachment |-> {"ok", "none"}], "attachment"),
    Asks("add_qos_to_datacenter", add_qos_to_datacenter("dc", "qos"), {},
         Of("qos"), "qos"),
    Asks("delete_qos_from_datacenter",
         delete_qos_from_datacenter("dc", "qos"), {}, Of("qos"), "qos"),
    Asks("update_qos_in_datacenter", update_qos_in_datacenter("dc", "qos"),
         {}, Of("qos"), "qos"),
    Reads("get_quota_id_by_name", get_quota_id_by_name("dc", "quota"),
          Of("quota"), "quota"),
    Asks("create_dc_quota", create_dc_quota("dc", "quota"), {}, Of("quota"),
         "quota"),
    Asks("update_dc_quota", update_dc_quota("dc", "quota"), {}, Of("quota"),
         "quota"),
    Asks("delete_dc_quota", delete_dc_quota("dc", "quota"), {}, Of("quota"),
         "quota"),
    Fn("create_quota_limits",
       create_quota_limits("dc", "quota", <<"limit", "limit2">>), {},
       Quota("limit") @@ [limit2 |-> {"none"}],
       [limit |-> {"asked"}, limit2 |-> {"asked"}]),
    Fn("delete_quota_limits",
       delete_quota_limits("dc", "quota", <<"limit", "limit2">>), {},
       Quota("limit") @@ [limit2 |-> {"ok"}],
       [limit |-> {"asked"}, limit2 |-> {"asked"}]),
    Reads("get_quota_limit_usage",
          get_quota_limit_usage("dc", "quota", "limit"), Quota("limit"),
          "limit"),
    Asks("addCluster", addCluster("cluster"), p,
         [cluster |-> {"ok", "none"}, dc |-> {"up", "none"}], "cluster"),
    Asks("updateCluster", updateCluster("cluster", "cluster", Update), p,
         [cluster |-> {"ok", "none"}], "cluster"),
    Asks("removeCluster", removeCluster("cluster"), p,
         [cluster |-> {"ok", "none"}], "cluster"),
    Fn("check_cluster_params", check_cluster_params("cluster", "params"), {},
       [params |-> {"ok", "mixed"}], [params |-> {"ok"}]),
    Reads("get_cluster_data_center_name",
          get_cluster_data_center_name("cluster"), In("dc"), "dc"),
    Fn("set_cluster_cpu_level", set_cluster_cpu_level("cluster", "level"), {},
       [cluster |-> {"ok", "none"}, level |-> {"ok", "mixed"}],
       [level |-> {"ok"}]),
    Asks("create_affinity_group", create_affinity_group("cluster", "group"),
         {}, In("group"), "group"),
    Asks("update_affinity_group", update_affinity_group("cluster", "group"),
         {}, In("group"), "group"),
    Asks("remove_affinity_group", remove_affinity_group("cluster", "group"),
         {}, In("group"), "group"),
    Reads("vm_exists_under_affinity_group",
          vm_exists_under_affinity_group("cluster", "group", "vm"),
          [group |-> {"ok", "none"}, member |-> {"ok", "none"}], "member"),
    Asks("add_cpu_profile", add_cpu_profile("cluster", "profile"), {},
         In("profile"), "profile"),
    Asks("remove_cpu_profile", remove_cpu_profile("cluster", "profile"), {},
         In("profile"), "profile"),
    Reads("get_cpu_profile_id_by_name",
          get_cpu_profile_id_by_name("cluster", "profile"), In("profile"),
          "profile") }
=============================================================================
