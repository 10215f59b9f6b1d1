---------------------------- MODULE TemplateLib ----------------------------
(***************************************************************************)
(* tests_lib/low_level/templates.py.  t is a template, d its disk, x the   *)
(* template in the export domain and y another one of the same version     *)
(* there.                                                                  *)
(***************************************************************************)
EXTENDS VmPartsLib

(* The engine's part (external) *)

templateCreate == Create(<<"locked", "ok">>, "illegal")
templateDelete == Delete({"ok", "illegal"}, <<"locked", "none">>)
templateExport == Create(<<"locked", "ok">>, "illegal")
exportedDelete == Delete({"ok", "illegal"}, <<"locked", "none">>)
templateDiskCopy == Action({"ok"}, <<"locked", "ok">>, "illegal")

-----------------------------------------------------------------------------
(* Look-ups *)

get_templates_obj(t) == << Check({t}, Statuses) >>

\* None when there is none
get_template_obj(t) == get_templates_obj(t)

validateTemplate(t) == get_template_obj(t) \o << Ret("same") >>

check_template_existence(t) == << Exists(t), Ret("res") >>

get_template_state(t) == << Find(t), Ret("true") >>

get_template_boot_sequence(t) ==
    get_template_obj(t) \o << OrRaise("Error"), Ret("true") >>

get_template_from_cluster(t) ==
    << Find("cluster"), Exists(t), Ret("res") >>

get_template_nics_objects(t) == << Find(t), Ret("true") >>

getTemplateDisks(t, d) ==
    get_disk_attachments(t) \o get_disk_list_from_disk_attachments(d)

getTemplateFirstDiskByName(t, d) == getTemplateDisks(t, d)

get_template_disk_by_id(t, d) == << Find(t), Check({d}, Statuses) >>

\* Any template of the version will do: its name is not compared.
get_template_obj_from_export_domain(y, useX, useY) ==
    << See({y}, Statuses), If(<<Either(useX, useY)>>, useX) >>

export_domain_template_exist(x) ==
    << Find("sd"), Check({x}, Statuses), Ret("same") >>

-----------------------------------------------------------------------------
(* Waits *)

waitForTemplatesStates(t, state) == << Watch(t, state), Ret("true") >>

wait_for_template_disks_state(t, d) ==
    getTemplateDisks(t, d) \o << Wait(d, {"ok"}), OrRaise("Error") >>

waitForTemplatesGone(ts) == waitUntilGone(ts)

wait_for_export_domain_template_state(x) ==
    << Find("sd"), Find(x), Wait(x, {"ok"}), Ret("res") >>

-----------------------------------------------------------------------------
(* Templates *)

prepareTemplateObject ==
    << Maybe(<<Find("cluster")>>), Maybe(<<Find("sd")>>) >>

createTemplate(t, v) ==
    << When("new_version",
            <<Call(validateTemplate(t)), If(<<Exists(t)>>, <<>>)>>, <<>>),
       Find(v) >>
    \o prepareTemplateObject
    \o << Maybe(getVmDisks(v)), Req(t, templateCreate) >>
    \o ThenWait(<<Wait(t, {"ok"})>>)

updateTemplate(t) ==
    get_template_obj(t)
    \o << OrFalse >> \o prepareTemplateObject \o << Req(t, Update), Ret("res") >>

remove_template(t) ==
    get_template_obj(t)
    \o << OrFalse, Req(t, templateDelete) >> \o ThenWait(<<Query({t}, {"none"})>>)

\* Each template is removed with positive=True.
remove_templates(t, u) ==
    << Fork(<<remove_template(t), remove_template(u)>>, {"positive", "wait"},
            "false"), Ret("res") >>

\* Templates that are missing are removed as well; the answer is not used.
safely_remove_templates(t, u) ==
    << Call(check_template_existence(t)), Call(check_template_existence(u)),
       See({t, u}, {"none"}), If(<<Ret("true")>>, <<>>),
       Call(remove_templates(t, u)), Call(waitForTemplatesGone({t, u})),
       Ret("res") >>

-----------------------------------------------------------------------------
(* NICs and watchdogs of templates *)

prepareTemplateNicObj == << Maybe(<<Find("cluster"), Find("profile")>>) >>

getTemplatesNics(t) == get_template_obj(t) \o << If(<<Find(t)>>, <<>>) >>

\* None without a template; EntityNotFound without the NIC
get_template_nic(t, n) == get_template_obj(t) \o << If(<<Find(n)>>, <<>>) >>

addTemplateNic(t, n) ==
    get_template_obj(t)
    \o << OrFalse >> \o prepareTemplateNicObj \o getTemplatesNics(t)
    \o << Req(n, New), Ret("res") >>

updateTemplateNic(t, n) ==
    get_template_obj(t)
    \o << OrFalse >> \o get_template_nic(t, n)
    \o prepareTemplateNicObj \o << Req(n, Update), Ret("res") >>

removeTemplateNic(t, n) ==
    get_template_nic(t, n)
    \o << OrRaise("Error"), Req(n, Drop), OrFalse, Ret("true") >>

get_template_watchdog_collection(t, w) ==
    get_template_obj(t) \o << If(<<Check({w}, Statuses)>>, <<>>) >>

add_watchdog_to_template(t, w) ==
    get_template_obj(t) \o << OrFalse, Do(w, New), Ret("res") >>

delete_watchdog_of_template(t, w) ==
    get_template_watchdog_collection(t, w)
    \o << OrFalse, Do(w, Drop), Ret("res") >>

-----------------------------------------------------------------------------
(* Export domains and disks *)

removeTemplateFromExportDomain(x, y) ==
    LET Discard(e) ==
            << Check({e}, Statuses), OrFalse, Req(e, exportedDelete), OrFalse,
               When("positive", <<Query({x, y}, {"none"}), Ret("res")>>, <<>>),
               Ret("true") >>
    IN << Find("sd") >> \o get_template_obj_from_export_domain(y, Discard(x), Discard(y))

exportTemplate(t, x) ==
    get_template_obj(t)
    \o << OrFalse, Req(x, templateExport),
          If(<<When("wait", <<Call(wait_for_export_domain_template_state(x)),
                              Ret("res")>>, <<>>)>>, <<>>),
          Ret("res") >>

import_template(t, x, y) ==
    LET Import(e) ==
            << Check({e}, Statuses), OrFalse, Req(t, templateCreate), Keep,
               When("wait", <<Call(wait_for_jobs)>>, <<>>), Ret("acc") >>
    IN << Find("sd") >> \o get_template_obj_from_export_domain(y, Import(x), Import(y))

copyTemplateDisk(t, d) ==
    getTemplateFirstDiskByName(t, d)
    \o << Find("sd"), Do(d, templateDiskCopy), OrRaise("Error") >>

\* to one domain that does not have the disk yet
copy_template_disks(t, d) ==
    getTemplateDisks(t, d)
    \o << Find("sd"), Call(wait_for_template_disks_state(t, d)),
          Call(copyTemplateDisk(t, d)),
          When("wait", <<Call(wait_for_template_disks_state(t, d))>>, <<>>) >>

remove_template_disk_from_storagedomain(t, d) ==
    get_template_disk_by_id(t, d)
    \o << OrRaise("Error"), Req(d, Drop), Ret("res") >>

-----------------------------------------------------------------------------

TemplateCalls ==
    LET T == [template |-> {"ok", "locked", "none"}]
        With(e) == [template |-> {"ok", "none"}] @@ (e :> {"ok", "none"})
        p == {"positive"}
        pw == {"positive", "wait"}
    IN {
    Reads("get_template_nics_objects", get_template_nics_objects("template"),
          T, "template"),
    Reads("validateTemplate", validateTemplate("template"), T, "template"),
    Reads("check_template_existence",
          Direct(check_template_existence("template")), T, "template"),
    Reads("get_template_boot_sequence", get_template_boot_sequence("template"),
          T, "template"),
    Reads("get_template_from_cluster",
          Direct(get_template_from_cluster("template")), T, "template"),
    Reads("get_template_state", get_template_state("template"), T, "template"),
    Fn("waitForTemplatesStates", waitForTemplatesStates("template", {"ok"}),
       {}, [template |-> {"ok", "locked", "illegal", "none"}],
       [template |-> {"ok"}]),
    Fn("waitForTemplatesGone", waitForTemplatesGone({"template"}), {}, T,
       [template |-> {"none"}]),
    Fn("createTemplate", createTemplate("template", "vm"),
       pw \cup {"new_version"},
       [template |-> {"none", "ok"}, vm |-> {"down", "none"}],
       [template |-> {"ok"}]),
    Asks("updateTemplate", updateTemplate("template"), p, T, "template"),
    Fn("remove_template", remove_template("template"), pw, T,
       [template |-> {"none"}]),
    Fn("remove_templates", remove_templates("template", "template2"), {},
       [template |-> {"ok"}, template2 |-> {"ok", "none"}],
       [template |-> {"none"}, template2 |-> {"none"}]),
    Fn("safely_remove_templates",
       safely_remove_templates("template", "template2"), {},
       [template |-> {"ok"}, template2 |-> {"none"}],
       [template |-> {"none"}, template2 |-> {"none"}]),
    Asks("addTemplateNic", addTemplateNic("template", "nic"), p, With("nic"),
         "nic"),
    Asks("updateTemplateNic", updateTemplateNic("template", "nic"), p,
         With("nic"), "nic"),
    Asks("removeTemplateNic", removeTemplateNic("template", "nic"), p,
         With("nic"), "nic"),
    Asks("add_watchdog_to_template",
         add_watchdog_to_template("template", "watchdog"), {},
         With("watchdog"), "watchdog"),
    Asks("delete_watchdog_of_template",
         delete_watchdog_of_template("template", "watchdog"), {},
         With("watchdog"), "watchdog"),
    Reads("export_domain_template_exist",
          export_domain_template_exist("exported"),
          [exported |-> {"ok", "none"}], "exported"),
    Fn("removeTemplateFromExportDomain",
       removeTemplateFromExportDomain("exported", "other"), p,
       [exported |-> {"ok", "none"}, other |-> {"ok", "none"}],
       [exported |-> {"none"}]),
    Fn("exportTemplate", exportTemplate("template", "exported"), pw,
       With("exported"), [exported |-> {"ok"}]),
    Fn("import_template", import_template("template", "exported", "other"), pw,
       [template |-> {"none"}, exported |-> {"ok", "none"},
        other |-> {"ok", "none"}, job |-> {"started", "finished"}],
       [template |-> {"asked"}, job |-> JobsDone]),
    Proc("copy_template_disks", copy_template_disks("template", "disk"),
         {"wait"}, [template |-> {"ok", "none"}, disk |-> {"ok", "locked"}],
         [disk |-> {"ok"}]),
    Asks("remove_template_disk_from_storagedomain",
         remove_template_disk_from_storagedomain("template", "disk"), p,
         With("disk"), "disk") }
=============================================================================
