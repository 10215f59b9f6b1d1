----------------------------- MODULE StorageLib -----------------------------
(***************************************************************************)
(* tests_lib/low_level/storagedomains.py.  s is a storage domain; it is    *)
(* "unattached" when no data center has it.  "size" and "total" are what   *)
(* the engine says of its size, "master" the master domain.                *)
(***************************************************************************)
EXTENDS HostLib, ClusterLib

InDc == Statuses \ {"unattached"}

(* The engine's part (external) *)

sdCreate == Create(<<"unattached">>, "never")
sdCreateLocal == Create(<<"inactive">>, "never")
sdAttach == [Create(<<"active">>, "never") EXCEPT !.from = {"unattached"}]
sdAttachAsync == [Create(<<"locked", "active">>, "inactive")
                    EXCEPT !.from = {"unattached"}]
sdActivate ==
    Action({"maintenance", "inactive"}, <<"activating", "active">>, "inactive")
sdDeactivate ==
    Action({"active"}, <<"preparing_for_maintenance", "maintenance">>,
           "active")
sdDetach == Delete({"maintenance"}, <<"unattached">>)
sdDelete == Delete({"unattached"}, <<"none">>)
sdDestroy == Delete(InDc \ {"locked"}, <<"none">>)
imageImport == Create(<<"locked", "ok">>, "none")

-----------------------------------------------------------------------------
(* Look-ups *)

get_storage_domain_obj(s) == << Find(s) >>

getDCStorages(s) == << Find("dc") >>

getDCStorage(s) ==
    << Find("dc"), Check({s}, InDc), OrRaise("EntityNotFound") >>

findNonMasterStorageDomains(s) ==
    getDCStorages(s)
    \o << Check({s}, InDc), If(<<Ret("positive")>>, <<Ret("negative")>>) >>

findIsoStorageDomains(s) ==
    << Either(getDCStorages(s) \o <<Check({s}, InDc)>>, <<Check({s}, Statuses)>>),
       Ret("res") >>

findExportStorageDomains(s) == findIsoStorageDomains(s)

findMasterStorageDomain(s) == getDCStorages(s) \o << Check({s}, InDc) >>

get_master_storage_domain_name(s) ==
    findMasterStorageDomain(s) \o << OrRaise("Error"), Ret("true") >>

get_iso_domain_files(s) == get_storage_domain_obj(s) \o << Ret("true") >>

checkIfStorageDomainExist(s) == << Check({s}, Statuses), Ret("same") >>

checkStorageFormatVersion(s, version) ==
    get_storage_domain_obj(s) \o << Check({version}, {"ok"}), Ret("same") >>

is_storage_domain_active(s) ==
    << Try(<<Call(getDCStorage(s) \o <<See({s}, {"active"}), Ret("res")>>)>>,
           {"EntityNotFound"}, <<Ret("false")>>), Ret("res") >>

getConnectionsForStorageDomain(s) == get_storage_domain_obj(s)

get_allocated_size(s) == get_storage_domain_obj(s) \o << Ret("true") >>

get_free_space(s) == get_storage_domain_obj(s) \o << Ret("true") >>

get_used_size(s) == get_storage_domain_obj(s) \o << Ret("true") >>

get_unregistered_vms(s) == get_storage_domain_obj(s) \o << Ret("true") >>

get_unregistered_templates(s) == get_storage_domain_obj(s) \o << Ret("true") >>

get_storage_domain_storage_type(s) == get_storage_domain_obj(s)

\* a block domain only
get_storage_domain_logical_units(s) ==
    get_storage_domain_storage_type(s)
    \o << Check({"block"}, {"ok"}), OrRaise("Error") >>
    \o get_storage_domain_obj(s)

get_storage_domain_luns_ids(s) ==
    get_storage_domain_logical_units(s) \o << Ret("true") >>

get_iscsi_storage_domin_addresses(s) ==
    << Try(<<Find(s), Check({"block"}, {"ok"}),
             If(get_storage_domain_logical_units(s) \o <<Ret("true")>>,
                <<Ret("none")>>)>>,
           {"EntityNotFound"}, <<Ret("none")>>) >>

getDomainAddress(s) ==
    << Try(get_storage_domain_storage_type(s)
           \o <<See({"block"}, {"ok"}),
                If(get_storage_domain_logical_units(s), <<Find(s)>>)>>,
           {"EntityNotFound"}, <<Ret("negative")>>), Ret("positive") >>

get_nfs_version(s) ==
    get_storage_domain_storage_type(s)
    \o << Check({"nfs"}, {"ok"}), If(<<>>, <<Ret("none")>>) >>
    \o get_storage_domain_obj(s) \o << Ret("true") >>

get_posix_backend_type(s) == get_storage_domain_obj(s)

get_storage_domain_images(s) == get_storage_domain_obj(s)

verify_image_exists_in_storage_domain(s, i) ==
    get_storage_domain_images(s) \o << Check({i}, Statuses), Ret("res") >>

get_number_of_ovf_store_disks(s) == getStorageDomainDisks \o << Ret("true") >>

get_storage_domain_ovf_store_disks(s) ==
    getStorageDomainDisks \o << Ret("true") >>

-----------------------------------------------------------------------------
(* Waits *)

\* Nothing else than `positive` is ever answered.
wait_for_storage_domain_status(s, goal) ==
    << Find("dc"), Watch(s, goal), Ret("positive") >>

wait_storage_domain_status_is_unchanged(s, status) ==
    << Try(<<Find("dc"), Watch(s, Statuses \ {status}), Because, Ret("false")>>,
           {"APITimeout"}, <<Ret("true")>>) >>

wait_for_storage_domain_available_size(s) ==
    getDCStorage(s) \o << Sample({"size"}, {"ok"}), Ret("true") >>

get_total_size(s) ==
    << Maybe(<<Call(wait_for_storage_domain_available_size(s)),
               If(<<>>, <<Ret("none")>>)>>),
       Find(s), Ret("true") >>

\* The size that each sample computes is compared with the old one.
wait_for_change_total_size(s) ==
    << Call(get_total_size(s)), Sample({"total"}, {"ok"}), Ret("true") >>

\* A domain that is neither active nor in maintenance is waited for.
getStorageDomainNamesForType(s) ==
    getDCStorages(s)
    \o << Check({s}, InDc), If(<<>>, <<Ret("none")>>),
          Maybe(get_posix_backend_type(s)),
          See({s}, {"active"}), If(<<Ret("true")>>, <<>>),
          See({s}, {"maintenance"}), If(<<Because, Ret("none")>>, <<>>),
          Try(<<Call(wait_for_storage_domain_status(s, {"active"}))>>,
              {"APITimeout"}, <<Ret("none")>>),
          Ret("true") >>

-----------------------------------------------------------------------------
(* Requests *)

\* The format of a data domain follows from the version of the host; what
\* comes of a host without one is not a storage domain.
prepareStorageDomainObject ==
    << Maybe(<<Find("host"), Call(get_host_compatibility_version("host")),
               If(<<>>, <<Raise("Error")>>)>>) >>

\* create() of what is not a storage domain is a TypeError.
addStorageDomain(s, op) ==
    << Try(prepareStorageDomainObject \o <<Req(s, op)>>, {"Error"},
           <<Ret("negative")>>),
       Ret("res") >>

updateStorageDomain(s) ==
    get_storage_domain_obj(s) \o prepareStorageDomainObject
    \o << Req(s, Update), Ret("res") >>

extendStorageDomain(s) ==
    get_storage_domain_obj(s) \o prepareStorageDomainObject
    \o << Req(s, Update), Ret("res") >>

attachStorageDomain(s) ==
    get_storage_domain_obj(s) \o getDCStorages(s)
    \o << When("wait", <<Req(s, sdAttach)>>, <<Req(s, sdAttachAsync)>>) >>
    \o ThenWait(<< Find("dc"), Wait("dc", {"up"}) >>)

detachStorageDomain(s) ==
    getDCStorage(s) \o << Req(s, sdDetach), Ret("res") >>

activateStorageDomain(s) ==
    getDCStorage(s)
    \o << When("positive",
               <<Pass(validateElementStatus(s, {"active"}), {},
                      {"storagedomain"}),
                 If(<<Ret("true")>>, <<>>)>>, <<>>),
          Req(s, sdActivate) >>
    \o ThenWait(<< Call(wait_for_storage_domain_status(s, {"active"})) >>)

deactivateStorageDomain(s) ==
    getDCStorage(s) \o << Req(s, sdDeactivate) >>
    \o ThenWait(<< Call(wait_for_storage_domain_status(s, {"maintenance"})) >>)

removeStorageDomain(s, op) ==
    get_storage_domain_obj(s) \o << Req(s, op), Ret("res") >>

cleanExportDomainMetadata == << Shell, Ret("res") >>

\* A failed clean-up is only logged.
importStorageDomain(s) ==
    << Maybe(<<Call(cleanExportDomainMetadata)>>), Req(s, sdCreate),
       Ret("res") >>

iscsiDiscover(h) == << Find(h), Req(h, Act({"up"})), Ret("res") >>

iscsiLogin(h, targets) ==
    << Find(h) >>
    \o ForEach(targets, LAMBDA t : <<Req(h, Act({"up"})), OrFalse>>)
    \o << Ret("true") >>

\* Master domains stay; a domain that is not deactivated is not detached.
removeStorageDomains(ss) ==
    ForEach(ss, LAMBDA s :
        << See({s}, InDc),
           If(<<CallPos(deactivateStorageDomain(s)), Keep,
                If(<<CallPos(detachStorageDomain(s)), Keep>>, <<>>)>>,
              <<>>) >>)
    \o ForEach(ss, LAMBDA s :
        << See({s}, Statuses),
           If(<<CallPos(removeStorageDomain(s, sdDelete)), Keep>>, <<>>) >>)
    \o << Ret("acc") >>

remove_storage_domains(ss) ==
    ForEach(ss, LAMBDA s :
        << See({s}, Statuses),
           If(<<Call(removeStorageDomain(s, sdDelete)), OrFalse>>, <<>>) >>)
    \o << Ret("true") >>

\* None when all is well
remove_floating_disks(ds) ==
    getStorageDomainDisks
    \o ForEach(ds, LAMBDA d : <<Call(deleteDisk(d)), OrFalse>>)
    \o << Call(waitForDisksGone(ToSet(ds))), OrFalse >>

\* Without a master, the domain called ' ' is looked for.
deactivate_master_storage_domain(s) ==
    findMasterStorageDomain(s)
    \o << OrRaise("EntityNotFound"),
          Pass(validateElementStatus(s, {"active"}), {}, {"storagedomain"}),
          If(<<CallPos(deactivateStorageDomain(s)), Ret("res")>>, <<>>),
          Ret("true") >>

addConnectionToStorageDomain(s, c) ==
    get_storage_domain_obj(s) \o << Find("conn"), Do(c, New), Ret("res") >>

detachConnectionFromStorageDomain(s, c) ==
    get_storage_domain_obj(s)
    \o << Check({c}, Statuses), OrFalse, Do(c, Drop), Ret("res") >>

register_object(v) ==
    << Maybe(<<Find("profile")>>), Do(v, New), Ret("res") >>

reduce_storage_domain_luns(s) ==
    get_storage_domain_obj(s) \o << Do(s, Act({"maintenance"})), Ret("res") >>

refresh_storage_domain_luns(s) ==
    get_storage_domain_obj(s) \o << Do(s, Act(Statuses)), Ret("res") >>

update_ovf_store(s) ==
    get_storage_domain_obj(s) \o << Do(s, Act({"active"})), Ret("res") >>

remove_glance_image == << Shell, Ret("res") >>

is_import_success(d) ==
    << Call(wait_for_disks_status({d})), OrFalse, Ret("true") >>

\* The answer to the import is only looked at when there is nothing to wait
\* for.
import_image(i, d) ==
    << Find("sd") >> \o First(i)
    \o << Do(d, imageImport),
          When("wait", <<Call(is_import_success(d)), Ret("res")>>, <<>>),
          Ret("res") >>

import_glance_image(i, d) ==
    << Pass(import_image(i, d), {"wait"}, {}), Ret("res") >>

-----------------------------------------------------------------------------

StorageCalls ==
    LET Sd == [sd |-> {"active", "maintenance", "unattached", "none"}]
        SdAnd(e) == [sd |-> {"active", "unattached"}]
                    @@ (e :> {"ok", "none"})
        p == {"positive"}
        pw == {"positive", "wait"}
    IN {
    Reads("findExportStorageDomains", findExportStorageDomains("sd"), Sd, "sd"),
    Reads("get_iso_domain_files", get_iso_domain_files("sd"), Sd, "sd"),
    Fn("checkStorageFormatVersion", checkStorageFormatVersion("sd", "version"),
       {}, [sd |-> {"active", "none"}, version |-> {"ok", "mixed"}],
       [version |-> {"ok"}]),
    Reads("getConnectionsForStorageDomain",
          getConnectionsForStorageDomain("sd") \o <<Ret("true")>>, Sd, "sd"),
    Reads("get_allocated_size", get_allocated_size("sd"), Sd, "sd"),
    Reads("get_free_space", get_free_space("sd"), Sd, "sd"),
    Reads("get_used_size", get_used_size("sd"), Sd, "sd"),
    Reads("get_storage_domain_luns_ids", get_storage_domain_luns_ids("sd"),
          SdAnd("block"), "block"),
    Reads("get_number_of_ovf_store_disks", get_number_of_ovf_store_disks("sd"),
          Sd, "sd"),
    Reads("get_storage_domain_ovf_store_disks",
          get_storage_domain_ovf_store_disks("sd"), Sd, "sd"),
    Fn("remove_glance_image", remove_glance_image, {}, [shell |-> {"ok"}],
       [shell |-> {"asked"}]),
    Reads("findNonMasterStorageDomains", findNonMasterStorageDomains("sd"),
          Sd, "sd"),
    Reads("findIsoStorageDomains", findIsoStorageDomains("sd"), Sd, "sd"),
    Reads("get_master_storage_domain_name",
          get_master_storage_domain_name("sd"), Sd, "sd"),
    Reads("checkIfStorageDomainExist", checkIfStorageDomainExist("sd"), Sd,
          "sd"),
    Fn("is_storage_domain_active", Direct(is_storage_domain_active("sd")), {}, Sd,
       [sd |-> {"active"}]),
    Reads("getDomainAddress", getDomainAddress("sd"),
          SdAnd("block"), "sd"),
    Reads("get_iscsi_storage_domin_addresses",
          get_iscsi_storage_domin_addresses("sd"), SdAnd("block"), "sd"),
    Reads("get_nfs_version", get_nfs_version("sd"), SdAnd("nfs"), "nfs"),
    Reads("verify_image_exists_in_storage_domain",
          verify_image_exists_in_storage_domain("sd", "image"),
          SdAnd("image"), "image"),
    Fn("wait_for_storage_domain_status",
       wait_for_storage_domain_status("sd", {"ok"}), {},
       [sd |-> {"locked", "maintenance", "none"}], [sd |-> {"ok"}]),
    Fn("wait_storage_domain_status_is_unchanged",
       wait_storage_domain_status_is_unchanged("sd", "locked"), {},
       [sd |-> {"locked", "active", "none"}], [sd |-> {"locked"}]),
    Reads("wait_for_change_total_size", wait_for_change_total_size("sd"),
          [sd |-> {"active", "unattached"}, size |-> {"soon", "none"},
           total |-> {"soon", "mixed"}], "total"),
    Fn("getStorageDomainNamesForType", getStorageDomainNamesForType("sd"), {},
       [sd |-> {"active", "maintenance", "unattached", "inactive"}],
       [sd |-> {"active"}]),
    Asks("addStorageDomain", addStorageDomain("sd", sdCreate), p,
         [sd |-> {"none", "unattached"}, host |-> {"up", "none"}], "sd"),
    Asks("updateStorageDomain", updateStorageDomain("sd"), p, Sd, "sd"),
    Fn("attachStorageDomain", attachStorageDomain("sd"), pw,
       Sd @@ [dc |-> {"powering_up", "problematic"}],
       [sd |-> {"asked"}, dc |-> {"up"}]),
    Asks("detachStorageDomain", detachStorageDomain("sd"), p, Sd, "sd"),
    Fn("activateStorageDomain", activateStorageDomain("sd"), pw,
       [sd |-> {"active", "maintenance", "inactive", "unattached"}],
       [sd |-> {"active"}]),
    Fn("deactivateStorageDomain", deactivateStorageDomain("sd"), pw, Sd,
       [sd |-> {"maintenance"}]),
    Asks("removeStorageDomain", removeStorageDomain("sd", sdDelete), p, Sd, "sd"),
    Asks("importStorageDomain", importStorageDomain("sd"), p,
         [sd |-> {"none", "unattached"}], "sd"),
    Asks("iscsiDiscover", iscsiDiscover("host"), p,
         [host |-> {"up", "down", "none"}], "host"),
    Asks("iscsiLogin", iscsiLogin("host", <<"t1", "t2">>), p,
         [host |-> {"up", "down", "none"}], "host"),
    Fn("removeStorageDomains", removeStorageDomains(<<"sd", "sd2">>), {},
       [sd |-> {"active", "unattached"}, sd2 |-> {"active", "none"}],
       [sd |-> {"asked"}, sd2 |-> {"asked", "none"}]),
    Fn("remove_storage_domains", remove_storage_domains(<<"sd", "sd2">>), {},
       [sd |-> {"active", "unattached"}, sd2 |-> {"unattached", "none"}],
       [sd |-> {"asked"}, sd2 |-> {"asked", "none"}]),
    Proc("remove_floating_disks", remove_floating_disks(<<"disk", "disk2">>),
         {}, [disk |-> {"ok", "locked"}, disk2 |-> {"ok"}],
         [disk |-> {"none"}, disk2 |-> {"none"}]),
    Fn("deactivate_master_storage_domain",
       deactivate_master_storage_domain("sd"), {}, Sd,
       [sd |-> Statuses \ {"active"}]),
    Asks("addConnectionToStorageDomain",
         addConnectionToStorageDomain("sd", "link"), {}, SdAnd("link"),
         "link"),
    Asks("detachConnectionFromStorageDomain",
         detachConnectionFromStorageDomain("sd", "link"), {}, SdAnd("link"),
         "link"),
    Asks("register_object", register_object("vm"), {}, [vm |-> {"none"}],
         "vm"),
    Asks("reduce_storage_domain_luns", reduce_storage_domain_luns("sd"), {},
         Sd, "sd"),
    Asks("refresh_storage_domain_luns", refresh_storage_domain_luns("sd"), {},
         Sd, "sd"),
    Asks("update_ovf_store", update_ovf_store("sd"), {}, Sd, "sd") }

\* Answers True to an import that the engine has refused: see README.
ImportCalls ==
    { Fn("import_glance_image", import_glance_image("image", "disk"),
         {"wait"}, [image |-> {"ok"}, disk |-> {"none"}],
         [disk |-> {"ok"}]) }
=============================================================================
