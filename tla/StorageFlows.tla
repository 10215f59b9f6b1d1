---------------------------- MODULE StorageFlows ----------------------------
(***************************************************************************)
(* tests_lib/high_level/storagedomains.py: chains of calls of the          *)
(* low-level functions.                                                    *)
(***************************************************************************)
EXTENDS StorageLib

(* iSCSI *)

\* None, None when the command fails: the log-in cannot zip them.
discover_addresses_and_targets(h) == << Find(h), Shell >>

ISCSIdiscoverAndLogin(h) ==
    << Either(discover_addresses_and_targets(h) \o <<OrRaise("Error")>>,
              <<Call(iscsiDiscover(h)), OrFalse>>),
       Call(iscsiLogin(h, <<"target">>)), OrFalse, Ret("true") >>

import_block_storage_domain(ss) ==
    << OrFalse >>
    \o ForEach(ss, LAMBDA s : <<Do(s, sdCreate), Keep>>) \o << Ret("acc") >>

import_fcp_storage_domain(h, ss) ==
    << Find(h), Do(h, Act({"up"})) >> \o import_block_storage_domain(ss)

import_iscsi_storage_domain(h, ss) ==
    << Call(ISCSIdiscoverAndLogin(h)), OrFalse, Find(h), Do(h, Act({"up"})) >>
    \o import_block_storage_domain(ss)

-----------------------------------------------------------------------------
(* New domains *)

AttachAndActivate(s) ==
    << Call(attachStorageDomain(s)), OrFalse, Call(activateStorageDomain(s)),
       Ret("res") >>

addGlusterDomain(s) ==
    << Call(addStorageDomain(s, sdCreate)), OrFalse >> \o AttachAndActivate(s)

addNFSDomain(s) ==
    << Call(addStorageDomain(s, sdCreate)), OrFalse,
       When("activate", AttachAndActivate(s), <<>>), Ret("true") >>

\* The data center of the host has a local domain from the start.
addLocalDataDomain(s) ==
    << Call(addStorageDomain(s, sdCreateLocal)), OrFalse, Call(activateStorageDomain(s)),
       OrFalse, Ret("true") >>

addPosixfsDataDomain(s) ==
    << Call(addStorageDomain(s, sdCreate)), OrFalse, Call(attachStorageDomain(s)),
       OrFalse, Call(activateStorageDomain(s)), OrFalse, Ret("true") >>

add_fcp_data_domain(s) ==
    << Call(addStorageDomain(s, sdCreate)), OrFalse >> \o AttachAndActivate(s)

add_iscsi_data_domain(s) ==
    << Call(ISCSIdiscoverAndLogin("host")), OrFalse, Call(addStorageDomain(s, sdCreate)),
       OrFalse >> \o AttachAndActivate(s)

create_nfs_domain_with_options(s) ==
    << CallPos(addStorageDomain(s, sdCreate)), OrRaise("Error"),
       When("positive", <<Maybe(<<Call(attachStorageDomain(s)),
                                  OrRaise("Error")>>)>>, <<>>) >>

attach_and_activate_domain(s) ==
    getDCStorages(s)
    \o << See({s}, InDc),
          If(<<>>, <<Call(attachStorageDomain(s)), OrRaise("Error")>>),
          Call(activateStorageDomain(s)), OrRaise("Error"), Ret("true") >>

-----------------------------------------------------------------------------
(* class StorageAdder: all storages of a configuration *)

\* `activate` is given in the place of storage_format: it stays True.
add_nfs_domain(s) ==
    << Pass(addNFSDomain(s), {}, {"positive", "wait", "activate"}),
       OrRaise("Error") >>

add_export_domains(exports) == ForEach(exports, LAMBDA s : add_nfs_domain(s))

add_iso_domains(isos) == ForEach(isos, LAMBDA s : add_nfs_domain(s))

add_storages(ss, exports, isos) ==
    LET add(s) ==
            << Either(<<Call(add_fcp_data_domain(s))>>,
                      <<Pass(addNFSDomain(s), {},
                             {"positive", "wait", "activate"})>>),
               OrRaise("Error") >>
    IN add(Head(ss)) \o << Call(wait_for_spm("host")) >>
       \o ForEach(Tail(ss), LAMBDA s : add(s))
       \o add_export_domains(exports) \o add_iso_domains(isos)
       \o << Ret("true") >>

create_storages(ss, exports, isos) == add_storages(ss, exports, isos)

-----------------------------------------------------------------------------
(* Larger domains *)

extendISCSIDomain(s) ==
    << Call(ISCSIdiscoverAndLogin("host")), OrFalse,
       Call(extendStorageDomain(s)), Ret("res") >>

extendFCPDomain(s) == << Call(extendStorageDomain(s)), Ret("res") >>

extend_iscsi_domain(s) == << Call(extendISCSIDomain(s)), OrRaise("Error") >>

extend_fcp_domain(s) == << Call(extendFCPDomain(s)), OrRaise("Error") >>

extend_storage_domain(s) ==
    << Either(extend_iscsi_domain(s), extend_fcp_domain(s)) >>

-----------------------------------------------------------------------------
(* Removal *)

\* A domain that is not active when this looks is answered with False.  The
\* answers of deactivateStorageDomain are not looked at.
deactivate_domain(s) ==
    << Call(is_storage_domain_active(s)),
       If(<<Call(wait_for_tasks)>>
          \o Rounds(<<Call(deactivateStorageDomain(s)),
                      Call(is_storage_domain_active(s)),
                      If(<<>>, <<Ret("true")>>), Call(wait_for_tasks)>>),
          <<Because, Ret("false")>>) >>

\* Only an AttributeError (an object without a status) is followed by another
\* wait for the tasks; otherwise the detach is repeated at once.
detach_domain(s) ==
    << Call(wait_for_tasks) >>
    \o Rounds(<< Call(detachStorageDomain(s)), Look(s, {"unattached"}),
                 If(<<Ret("true")>>, <<Maybe(<<Call(wait_for_tasks)>>)>>) >>)

detach_and_deactivate_domain(s) ==
    << Call(is_storage_domain_active(s)),
       If(<<Call(deactivate_domain(s)), OrFalse>>, <<>>),
       Call(detach_domain(s)), OrFalse, Ret("true") >>

remove_storage_domain(s) ==
    << Maybe(getDCStorages(s)
             \o <<See({s}, InDc),
                  If(<<Call(detach_and_deactivate_domain(s)), OrFalse>>,
                     <<>>)>>),
       Call(removeStorageDomain(s, sdDelete)), OrFalse, Ret("true") >>

destroy_storage_domain(s) ==
    << Call(is_storage_domain_active(s)),
       If(<<Call(deactivate_domain(s))>>, <<>>),
       Call(removeStorageDomain(s, sdDestroy)), Ret("res") >>

-----------------------------------------------------------------------------
(* Addresses and registration *)

get_master_storage_domain_ip(s) ==
    findMasterStorageDomain(s)
    \o << OrRaise("Error"), Call(getDomainAddress(s)), OrRaise("Error"),
          Ret("true") >>

block_connection_to_iscsi_storage(s) ==
    << Call(get_iscsi_storage_domin_addresses(s)), OrRaise("Error"), Shell,
       OrRaise("Error") >>

get_file_storage_disks_paths(d, s) ==
    get_disk_obj(d) \o get_storage_domain_obj(s)
    \o << Check({s}, InDc), OrRaise("Error"), Ret("true") >>

get_storage_domain_addresses(s) ==
    get_storage_domain_obj(s)
    \o << Either(get_storage_domain_logical_units(s), <<>>), Ret("true") >>

register_vm_from_data_domain(s, u, v) ==
    << Call(get_unregistered_vms(s)) >> \o First(u)
    \o << Call(register_object(v)), OrRaise("Error") >>

register_templates_from_data_domain(s, u, t) ==
    << Call(get_unregistered_templates(s)) >> \o First(u)
    \o << Call(register_object(t)), OrRaise("Error") >>

-----------------------------------------------------------------------------

StorageFlowCalls ==
    LET New2 == [sd |-> {"none"}, host |-> {"up"},
                 dc |-> {"powering_up", "up"}]
        Old == [sd |-> {"active", "maintenance", "unattached", "locked"},
                tasks |-> {"none"}]
        Active == [sd |-> {"active"}]
    IN {
    Reads("get_storage_domain_addresses", get_storage_domain_addresses("sd"),
          [sd |-> {"active", "none"}, block |-> {"ok", "none"}], "sd"),
    Fn("import_iscsi_storage_domain",
       import_iscsi_storage_domain("host", <<"sd", "sd2">>), {},
       [host |-> {"up", "down"}, sd |-> {"none"}, sd2 |-> {"none"}],
       [sd |-> {"asked"}, sd2 |-> {"asked"}]),
    Asks("import_fcp_storage_domain",
         import_fcp_storage_domain("host", <<"sd">>), {},
         [host |-> {"up", "down"}, sd |-> {"none"}], "sd"),
    Fn("addGlusterDomain", addGlusterDomain("sd"), {}, New2, Active),
    Fn("addLocalDataDomain", addLocalDataDomain("sd"), {}, New2, Active),
    Fn("addPosixfsDataDomain", addPosixfsDataDomain("sd"), {}, New2, Active),
    Fn("add_iscsi_data_domain", add_iscsi_data_domain("sd"), {}, New2, Active),
    Proc("create_nfs_domain_with_options",
         create_nfs_domain_with_options("sd"), {}, New2,
         [sd |-> {"asked"}]),
    Fn("attach_and_activate_domain", attach_and_activate_domain("sd"), {},
       Old, Active),
    Fn("create_storages", create_storages(<<"sd", "sd2">>, <<>>, <<"iso">>),
       {}, [sd |-> {"none"}, sd2 |-> {"none"}, iso |-> {"none"},
            spm |-> {"soon", "none"}, dc |-> {"powering_up"}],
       [sd |-> {"active"}, sd2 |-> {"active"}, iso |-> {"active"}]),
    Proc("extend_storage_domain", extend_storage_domain("sd"), {},
         [sd |-> {"active", "none"}, host |-> {"up", "down"}],
         [sd |-> {"asked"}]),
    Fn("deactivate_domain", deactivate_domain("sd"), {}, Old,
       [sd |-> Statuses \ {"active"}]),
    Fn("detach_and_deactivate_domain", detach_and_deactivate_domain("sd"), {},
       Old, [sd |-> {"unattached"}]),
    Asks("remove_storage_domain", remove_storage_domain("sd"), {}, Old, "sd"),
    Asks("destroy_storage_domain", destroy_storage_domain("sd"), {}, Old,
         "sd"),
    Reads("get_master_storage_domain_ip", get_master_storage_domain_ip("sd"),
          [sd |-> {"active", "unattached", "none"}], "sd"),
    Proc("block_connection_to_iscsi_storage",
         block_connection_to_iscsi_storage("sd"), {},
         [sd |-> {"active", "none"}, block |-> {"ok", "none"},
          shell |-> {"ok"}], [shell |-> {"asked"}]),
    Reads("get_file_storage_disks_paths",
          get_file_storage_disks_paths("disk", "sd"),
          [sd |-> {"active", "unattached"}, disk |-> {"ok", "none"}], "sd"),
    Proc("register_vm_from_data_domain",
         register_vm_from_data_domain("sd", "ovf", "vm"), {},
         [ovf |-> {"ok", "none"}, vm |-> {"none"}], [vm |-> {"asked"}]),
    Proc("register_templates_from_data_domain",
         register_templates_from_data_domain("sd", "ovf", "template"), {},
         [ovf |-> {"ok", "none"}, template |-> {"none"}],
         [template |-> {"asked"}]) }
=============================================================================
