----------------------------- MODULE CommonLib -----------------------------
(***************************************************************************)
(* Helpers of the library: rhevm_api/utils/test_utils.py and, of           *)
(* tests_lib/low_level, jobs.py, events.py and general.py.  The entity     *)
(* "job" stands for the jobs that the caller waits for.                    *)
(***************************************************************************)
EXTENDS Statements

JobsDone == {"ok", "finished", "failed", "none"}

\* A command on a machine (external): it may fail.
Shell == Do("shell", Act(Statuses))

-----------------------------------------------------------------------------
(* test_utils.py *)

waitUntilGone(es) == << Sample(es, {"none"}), Ret("positive") >>

\* updates the status in the database of the engine by psql
update_vm_status_in_database(v) ==
    << Find(v), Do(v, Action(Statuses, <<"down">>, "never")), Ret("res") >>

getStat(e) == << Find(e), Ret("true") >>

\* The status is a string and has no attribute `state`: only storage domains
\* are ever compared.
validateElementStatus(e, goal) ==
    << When("storagedomain",
            <<Try(<<Find("dc")>>, {"EntityNotFound"}, <<Ret("false")>>),
              Look(e, goal), Ret("res")>>,
            <<Try(<<Find(e)>>, AnyException, <<Ret("false")>>),
              Ret("false")>>) >>

startVdsmd == << Shell, Ret("res") >>

stopVdsmd == << Shell, Ret("res") >>

restartVdsmd ==
    << When("supervdsm", <<Shell, OrFalse>>, <<>>), Shell, Ret("res") >>

rebootMachine == << Try(<<Shell, Ret("res")>>, AnyException, <<Ret("false")>>) >>

isServiceRunning == << Check({"service"}, {"active"}), Ret("same") >>

searchElement(e) == << Check({e}, Statuses), Ret("res") >>

\* The number of objects is counted before the query.
searchForObj(e) ==
    << Maybe(<<Exists(e)>>), Check({e}, Statuses), Ret("res") >>

removeDirOnHost == << Check({"machine"}, {"ok"}), OrFalse, Shell, Ret("res") >>

setPersistentNetwork ==
    << Shell, OrFalse, Check({"ifcfg"}, {"ok"}), OrFalse, Shell, OrFalse,
       Ret("true") >>

\* A timeout is only logged.
wait_for_tasks ==
    << Find("dc"),
       Finally(<<Try(<<Sample({"tasks"}, {"none"}), Ret("none")>>,
                     {"APITimeout"}, <<>>)>>,
               <<Exists("tasks")>>),
       Ret("none") >>

restart_engine == << Shell, Sample({"engine"}, {"ok"}), Ret("none") >>

-----------------------------------------------------------------------------
(* jobs.py *)

\* the maximum of an empty list is an error
check_recent_job(states) == << Check({"job"}, states), OrRaise("Error"), Ret("true") >>

wait_for_jobs == << Sample({"job"}, JobsDone), Ret("none") >>

step_by_description == << Check({"step"}, Statuses) >>

wait_for_step_to_start == << Sample({"step"}, Statuses), Ret("none") >>

add_job == << Do("job", New), OrFalse, Ret("true") >>

\* The statuses are tried in order, but the first one that no job has raises.
add_step ==
    << Call(check_recent_job({"started"})), OrFalse,
       Maybe(step_by_description \o <<OrFalse>>),
       Do("newstep", New), OrFalse, Ret("true") >>

end_job(states) ==
    << Call(check_recent_job(states)), OrFalse,
       Do("job", Action({"started"}, <<"finished">>, "never")), OrFalse,
       Ret("true") >>

end_step(states) ==
    << Call(check_recent_job(states)), OrFalse >> \o step_by_description
    \o << OrRaise("Error"),
          Do("step", Action(Statuses, <<"finished">>, "never")), OrFalse,
          Ret("true") >>

-----------------------------------------------------------------------------
(* events.py *)

get_max_event_id(e) == << Check({e}, Statuses) >>

search_for_recent_event ==
    get_max_event_id("start") \o << OrFalse, Check({"event"}, {"ok"}), Ret("same") >>

search_for_recent_event_from_event_id == << Check({"event"}, {"ok"}), Ret("res") >>

\* Without any event there is no id to compare with.
wait_for_event ==
    get_max_event_id("start") \o << OrRaise("Error"), Query({"event"}, {"ok"}),
                                    Ret("res") >>

find_event == << Query({"event"}, {"ok"}), Ret("res") >>

-----------------------------------------------------------------------------
(* general.py *)

check_system_version_tag ==
    << When("positive", <<>>, <<Raise("Error")>>), Check({"version"}, {"ok"}),
       Ret("res") >>

\* The summary is read first, and every collection later.
checkSummary ==
    ForEach(<<"vms", "vmsup", "hosts", "hostsup", "users", "sds", "sdsactive">>,
            LAMBDA c : <<Check({c}, {"ok"}), Keep>>)
    \o << Ret("acc") >>

getProductName ==
    << Try(<<Check({"product"}, {"ok"}), OrRaise("Error")>>, {"Error"},
           <<Ret("false")>>), Ret("true") >>

checkProductName ==
    << Call(getProductName), OrFalse, Check({"name"}, {"ok"}), OrFalse,
       Ret("true") >>

-----------------------------------------------------------------------------

CommonCalls == {
    Reads("getStat", getStat("vm"), [vm |-> {"up", "none"}], "vm"),
    Fn("stopVdsmd", stopVdsmd, {}, [shell |-> {"ok"}], [shell |-> {"asked"}]),
    Reads("search_for_recent_event_from_event_id",
          search_for_recent_event_from_event_id, [event |-> {"ok", "none"}],
          "event"),
    Fn("restartVdsmd", restartVdsmd, {"supervdsm"}, [shell |-> {"ok"}],
       [shell |-> {"asked"}]),
    Fn("rebootMachine", rebootMachine, {}, [shell |-> {"ok"}],
       [shell |-> {"asked"}]),
    Fn("isServiceRunning", isServiceRunning, {},
       [service |-> {"active", "inactive"}], [service |-> {"active"}]),
    Reads("searchForObj", searchForObj("obj"), [obj |-> {"ok", "none"}], "obj"),
    Fn("removeDirOnHost", removeDirOnHost, {},
       [machine |-> {"ok", "none"}, shell |-> {"ok"}], [shell |-> {"asked"}]),
    Fn("setPersistentNetwork", setPersistentNetwork, {},
       [ifcfg |-> {"ok", "none"}, shell |-> {"ok"}], [shell |-> {"asked"}]),
    Proc("restart_engine", restart_engine, {}, [engine |-> {"soon", "none"}],
       [engine |-> {"ok"}]),
    Proc("wait_for_jobs", wait_for_jobs, {}, [job |-> {"started", "none"}],
       [job |-> JobsDone]),
    Proc("wait_for_step_to_start", wait_for_step_to_start, {},
       [step |-> {"soon", "none", "ok"}], [step |-> Statuses]),
    Asks("add_job", add_job, {}, [job |-> {"none"}], "job"),
    Asks("add_step", add_step, {},
       [job |-> {"started", "none"}, newstep |-> {"none"}], "newstep"),
    Asks("end_job", end_job({"started"}), {}, [job |-> {"started", "none"}], "job"),
    Asks("end_step", end_step({"started"}), {},
       [job |-> {"started", "none"}, step |-> {"started", "none"}], "step"),
    Fn("search_for_recent_event", search_for_recent_event, {},
       [start |-> {"ok", "none"}, event |-> {"ok", "none"}], [event |-> {"ok"}]),
    Fn("wait_for_event", wait_for_event, {},
       [start |-> {"ok", "none"}, event |-> {"soon", "none"}],
       [event |-> {"ok"}]),
    Fn("find_event", find_event, {}, [event |-> {"soon", "none"}],
       [event |-> {"ok"}]),
    Fn("check_system_version_tag", check_system_version_tag, {},
       [version |-> {"ok", "none"}], [version |-> {"ok"}]),
    Fn("checkSummary", checkSummary, {},
       [vms |-> {"ok", "failed"}, sdsactive |-> {"ok", "soon"}],
       [vms |-> {"ok"}, sdsactive |-> {"ok"}]),
    Fn("checkProductName", checkProductName, {},
       [product |-> {"ok", "none"}, name |-> {"ok", "none"}],
       [name |-> {"ok"}]) }
=============================================================================
