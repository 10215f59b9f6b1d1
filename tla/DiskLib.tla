------------------------------ MODULE DiskLib ------------------------------
(***************************************************************************)
(* tests_lib/low_level/disks.py.  v is a VM, d a disk, a the attachment of *)
(* d to v ("active" or "inactive").  A disk is "moved" when it is OK in    *)
(* the target storage domain.                                              *)
(***************************************************************************)
EXTENDS CommonLib

(* The engine's part (external) *)

diskCreate == Create(<<"locked", "ok">>, "illegal")
diskDelete == Delete({"ok", "moved", "illegal"}, <<"locked", "none">>)
diskMove == Action({"ok"}, <<"locked", "moved">>, "ok")
diskCopy == Create(<<"locked", "ok">>, "illegal")
diskSparsify == Action({"ok"}, <<"locked", "ok">>, "never")
diskExport == Act({"ok"})
attach == Create(<<"active">>, "never")
activate == Updates({"inactive", "active"}, <<"active">>)
deactivate == Updates({"inactive", "active"}, <<"inactive">>)

-----------------------------------------------------------------------------
(* Look-ups *)

getStorageDomainDisks == << Find("sd") >>

get_disk_attachments(v) == << Find(v) >>

\* None when v has no such disk
get_disk_attachment(v, a) == get_disk_attachments(v) \o << Check({a}, Statuses) >>

get_disk_obj(d) == << Find(d) >>

get_disk_obj_from_disk_attachment(d) == get_disk_obj(d)

get_disk_list_from_disk_attachments(d) == get_disk_obj_from_disk_attachment(d)

getObjDisks(v, d) ==
    get_disk_attachments(v) \o << Maybe(get_disk_list_from_disk_attachments(d)) >>

getVmDisk(v, a, d) ==
    get_disk_attachment(v, a)
    \o << OrRaise("Error") >> \o get_disk_obj_from_disk_attachment(d)

getTemplateDisk(t, d) ==
    << Find(t), Check({d}, Statuses), OrRaise("EntityNotFound") >>

get_read_only(v, a) ==
    get_disk_attachment(v, a) \o << OrRaise("Error"), Ret("true") >>

checkDiskExists(d) ==
    << Try(<<Find(d)>>, {"EntityNotFound"}, <<Ret("negative")>>),
       Ret("positive") >>

get_disk_storage_domain_name(v, a, d) ==
    << Either(<<Find(d)>>, getVmDisk(v, a, d)), Find("sd") >>

\* another active data domain of the data center, or None
get_other_storage_domain(v, a, d) ==
    << Either(<<Find(d)>>, getVmDisk(v, a, d)), Find("sd"), Find("dc"),
       Check({"sd2"}, {"active"}), If(<<Ret("true")>>, <<Ret("none")>>) >>

-----------------------------------------------------------------------------
(* Requests *)

\* A LUN and a storage connection do not go together: there is no object to
\* send then.
prepareDiskObject ==
    << When("lun_and_connection", <<Raise("Error")>>, <<>>),
       Maybe(<<Find("sd")>>) >>

add_disk(d) == prepareDiskObject \o << Req(d, diskCreate), Ret("res") >>

updateDisk(v, a, d, op) ==
    getVmDisk(v, a, d) \o get_disk_attachment(v, a) \o prepareDiskObject
    \o << Req(a, op), Ret("res") >>

deleteDisk(d) == << Find(d), Req(d, diskDelete), Ret("res") >>

attachDisk(v, a, d) ==
    get_disk_obj(d) \o prepareDiskObject \o getObjDisks(v, d)
    \o << Req(a, attach), Ret("res") >>

detachDisk(v, a) ==
    get_disk_attachment(v, a) \o << OrRaise("Error"), Req(a, Drop), Ret("res") >>

\* Disks that are not listed are not in a wrong status.
wait_for_disks_status(ds) == << Query(ds, {"ok", "moved", "none"}), Ret("res") >>

waitForDisksGone(ds) == waitUntilGone(ds)

\* The sampler's loop returns in its first round, whatever it has seen; for
\* other actions than a move, any disk of the domain that is OK will do.
do_disk_action(d, e, op, goal, others) ==
    << Find("sd"), Find(d), Req(e, op), OrFalse,
       When("wait",
            <<When("positive",
                   <<Find("sd"), See({e}, goal),
                     If(<<Ret("true")>>, others \o <<Ret("false")>>)>>,
                   <<>>)>>, <<>>),
       Ret("true") >>

OtherDisks == << Maybe(<<Ret("true")>>) >>

move_disk(d) == do_disk_action(d, d, diskMove, {"moved"}, <<>>)

copy_disk(d, c) == do_disk_action(d, c, diskCopy, {"ok"}, OtherDisks)

export_disk_to_glance(d) ==
    << Find("sd"), Find(d), Req(d, diskExport), OrFalse, Ret("true") >>

wait_for_disk_storage_domain(v, a, d) ==
    << Maybe(get_disk_obj(d)), Watch(d, {"moved"}), Ret("none") >>

wait_for_sparsify_event(d) ==
    get_disk_obj(d) \o << Query({"event"}, {"ok"}), Ret("res") >>

sparsify_disk(d) ==
    << Pass(do_disk_action(d, d, diskSparsify, {"ok"}, OtherDisks), {"wait"},
            {"positive"}),
       OrFalse,
       When("wait", <<Call(wait_for_sparsify_event(d)), Ret("res")>>, <<>>),
       Ret("true") >>

-----------------------------------------------------------------------------

DiskCalls ==
    LET Disk == [disk |-> {"ok", "locked", "none"}]
        Att == [vm |-> {"down"}, disk |-> {"ok"}, att |-> {"active", "none"}]
        p == {"positive"}
    IN {
    Reads("getTemplateDisk", getTemplateDisk("template", "disk") \o <<Ret("true")>>,
          [template |-> {"ok", "none"}, disk |-> {"ok", "none"}], "disk"),
    Fn("checkDiskExists", checkDiskExists("disk"), {}, Disk,
       [disk |-> Statuses]),
    Fn("get_other_storage_domain",
       get_other_storage_domain("vm", "att", "disk"), {},
       Att @@ [sd2 |-> {"active", "maintenance", "none"}],
       [sd2 |-> {"active"}]),
    Fn("get_read_only", get_read_only("vm", "att"), {}, Att,
       [att |-> {"active"}]),
    Fn("add_disk", add_disk("disk"), p, [disk |-> {"none"}],
       [disk |-> {"asked"}]),
    Fn("updateDisk", updateDisk("vm", "att", "disk", activate), p, Att,
       [att |-> {"asked"}]),
    Fn("deleteDisk", deleteDisk("disk"), p, Disk, [disk |-> {"asked"}]),
    Fn("attachDisk", attachDisk("vm", "att", "disk"), p, Att,
       [att |-> {"asked"}]),
    Fn("detachDisk", detachDisk("vm", "att"), p, Att, [att |-> {"asked"}]),
    Fn("wait_for_disks_status", wait_for_disks_status({"disk", "disk2"}), {},
       [disk |-> {"ok", "locked"}, disk2 |-> {"ok", "locked"}],
       [disk |-> {"ok"}, disk2 |-> {"ok"}]),
    Fn("waitForDisksGone", waitForDisksGone({"disk"}), {}, Disk,
       [disk |-> {"none"}]),
    Fn("export_disk_to_glance", export_disk_to_glance("disk"), p, Disk,
       [disk |-> {"asked"}]),
    Proc("wait_for_disk_storage_domain",
       wait_for_disk_storage_domain("vm", "att", "disk"), {},
       [disk |-> {"ok", "moving", "none"}], [disk |-> {"moved"}]) }

\* Answers "False" as soon as the engine has accepted: see README.
MoveCalls ==
    { Fn("move_disk", move_disk("disk"), {"positive", "wait"},
         [disk |-> {"ok"}], [disk |-> {"moved"}]),
      Fn("copy_disk", copy_disk("disk", "copy"), {"positive", "wait"},
         [disk |-> {"ok"}, copy |-> {"none"}], [copy |-> {"ok"}]),
      Fn("sparsify_disk", sparsify_disk("disk"), {"wait"},
         [disk |-> {"ok", "locked"}, event |-> {"ok", "none"}],
         [event |-> {"ok"}]) }
=============================================================================
