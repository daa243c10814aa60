--------------------------- MODULE SystemInventories ---------------------------
(***************************************************************************)
(* What the four inventory pages read and show: the autostart entries      *)
(* (src/startup_backend_linux.c, src/startup.c), the systemd services      *)
(* (src/service_backend_linux.c, src/services.c), the login sessions       *)
(* (src/user_backend_linux.c, src/users.c), the mounts                     *)
(* (src/mountinfo.c, src/filesystem_inventory.c, src/filesystems.c), and   *)
(* the catalog of installed applications (src/application_catalog.c).      *)
(* InventoryPage has the life of their tasks, with a version number for    *)
(* the inventory; here the inventory has its contents, a collection reads  *)
(* it call by call, and the page has its rows, selection and controls.     *)
(*                                                                         *)
(* One record variable per part; "study" says which part a behaviour is    *)
(* about.  Directories are numbered by precedence, 1 being the user's own. *)
(***************************************************************************)
EXTENDS Naturals, Sequences, FiniteSets

CONSTANTS
    Studies,        \* The parts looked at.
    Ids,            \* Desktop-file names.
    AutostartFiles, \* Initial contents of the autostart directories.
    Units,          \* Services.
    Sessions,       \* Login sessions.
    AccountOf,      \* The account of a session.
    Mounts,         \* Mounts: a function to what is known of each.
    ApplicationFiles,\* Contents of the application directories.
    MaxChanges      \* Bound: changes from outside, toggles, and service
                    \* requests but one.

None == "none"
(* A search box: empty, or with the text of one row.                        *)
SearchTexts(names) == {None, CHOOSE x \in names : TRUE}

Parts == {"startup", "services", "users", "filesystems", "catalog"}

(* What can be wrong with a line of /proc/self/mountinfo.                   *)
Defects == {"no newline", "field missing", "id not a number", "relative path",
            "no separator", "extra field", "device number", "bad escape"}

InventoriesAssumption ==
    /\ Studies \subseteq Parts
    /\ \A x \in {Ids, Units, Sessions} : IsFiniteSet(x) /\ None \notin x
    /\ DOMAIN AccountOf = Sessions
    /\ \A m \in DOMAIN Mounts : Mounts[m].defects \subseteq Defects
    /\ MaxChanges \in Nat

VARIABLES
    study,
    startup,    \* Startup Apps: files, collection, page and action.
    services,   \* Services: the manager, collection, page and actions.
    users,      \* Users: sessions, collection, page and dialog.
    mounts,     \* File Systems: the mounts, snapshot, page and layout.
    catalog     \* The application catalog while it is being built.

vars == <<study, startup, services, users, mounts, catalog>>

-----------------------------------------------------------------------------
(* Startup Apps.  A desktop file: whether it can be loaded and is an        *)
(* application, the two keys that switch it off, whether OnlyShowIn,        *)
(* NotShowIn and TryExec let this desktop run it, and where its text came   *)
(* from.                                                                    *)
NoFile == [kind |-> "absent", hidden |-> FALSE, gnome |-> TRUE,
           allows |-> TRUE, text |-> 0]

(* desktop_environment_allows and try_exec_available.                       *)
Allowed(file) == file.allows

load_startup_entry(file, id, dir) ==
    IF file.kind # "application"
    THEN {}
    ELSE {[id |-> id, source |-> dir, text |-> file.text,
           enabled |-> ~file.hidden /\ file.gnome /\ Allowed(file)]}

(* Mutant: a file that cannot be loaded does not count as seen.             *)
Mut_Seen(dir, files) == {id \in Ids : files[dir][id].kind = "application"}

(* File-name precedence applies to the physical entry.                      *)
Seen(dir, files) == {id \in Ids : files[dir][id].kind # "absent"}

NoEntry == [id |-> None, source |-> 1, text |-> 0, enabled |-> FALSE]
NoToggle == [row |-> NoEntry, enable |-> FALSE, state |-> None]

InitStartup ==
    [files |-> CHOOSE f \in AutostartFiles : TRUE,
     task |-> None, at |-> 1, seen |-> {}, found |-> {},
     again |-> FALSE, timer |-> FALSE, search |-> None,
     rows |-> {}, shown |-> "nothing", selected |-> NoEntry,
     action |-> NoToggle, button |-> "Enable", sensitive |-> FALSE,
     changes |-> 0, requests |-> 0, stale |-> FALSE,
     wish |-> [id \in Ids |-> None]]

(* lsm_startup_refresh: one collection at a time, the next remembered.      *)
Refreshed(s) ==
    IF s.task # None THEN [s EXCEPT !.again = TRUE]
    ELSE [s EXCEPT !.task = "scan", !.again = FALSE, !.at = 1, !.seen = {},
                   !.found = {}, !.stale = FALSE]

startup_refresh_clicked == startup' = Refreshed(startup)

startup_search_changed(text) ==
    /\ text # startup.search
    /\ startup' = [startup EXCEPT !.search = text, !.timer = TRUE]

startup_search_timeout ==
    /\ startup.timer
    /\ startup' = Refreshed([startup EXCEPT !.timer = FALSE])

(* One directory of lsm_startup_backend_collect.  A directory that is not   *)
(* there is empty; any other failure gives the collection up.               *)
scan_directory ==
    /\ startup.task = "scan"
    /\ LET dir == startup.at
           new == Seen(dir, startup.files) \ startup.seen
       IN  startup' = [startup EXCEPT
               !.seen = @ \cup new,
               !.found = @ \cup UNION {load_startup_entry(startup.files[dir][id],
                                                          id, dir) : id \in new},
               !.at = @ + 1,
               !.task = IF dir = Len(startup.files) THEN "done" ELSE "scan"]

ScanFails ==
    /\ startup.task = "scan"
    /\ startup' = [startup EXCEPT !.task = "failed", !.found = {}]

(* startup_refresh_complete with startup_present_refresh: the list is       *)
(* cleared, which clears the selection, and filled with what matches.       *)
startup_refresh_complete ==
    /\ startup.task \in {"done", "failed"}
    /\ LET presented == [startup EXCEPT
               !.task = None, !.again = FALSE, !.at = 1, !.seen = {}, !.found = {},
               !.selected = NoEntry, !.sensitive = FALSE,
               !.shown = IF startup.task = "done" THEN "list" ELSE "unavailable",
               !.rows = {r \in startup.found : startup.search \in {None, r.id}}]
       IN  startup' = IF startup.again THEN Refreshed(presented) ELSE presented

(* startup_selection_changed.                                               *)
SelectStartup(row) ==
    /\ startup.selected # row
    /\ startup' = [startup EXCEPT
           !.selected = row,
           !.sensitive = startup.action = NoToggle,
           !.button = IF startup.action # NoToggle THEN @
                      ELSE IF row.enabled THEN "Disable" ELSE "Enable"]

startup_toggle ==
    /\ startup.sensitive /\ startup.action = NoToggle
    /\ startup.requests < MaxChanges
    /\ startup' = [startup EXCEPT !.requests = @ + 1,
           !.action = [row |-> startup.selected,
                       enable |-> ~startup.selected.enabled, state |-> "run"],
           !.sensitive = FALSE, !.button = "Working"]

(* write_startup_override: the source is loaded again and written, with     *)
(* both switches set, over the user's file of the same name.                *)
Override(file, enable) == [file EXCEPT !.hidden = ~enable, !.gnome = enable]

lsm_startup_backend_set_enabled ==
    /\ startup.action.state = "run"
    /\ LET row == startup.action.row
           enable == startup.action.enable
           source == startup.files[row.source][row.id]
       IN  /\ source.kind \in {"application", "other"}
           /\ startup' = [startup EXCEPT
                  !.files[1][row.id] = Override(source, enable),
                  !.wish[row.id] = IF enable THEN "on" ELSE "off",
                  !.action.state = "over"]

OverrideFails ==
    /\ startup.action.state = "run"
    /\ startup' = [startup EXCEPT !.action.state = "over"]

startup_action_complete ==
    /\ startup.action.state = "over"
    /\ startup' = Refreshed([startup EXCEPT !.action = NoToggle])

(* Somebody else replaces or removes a desktop file.                        *)
FileChanges(dir, id) ==
    /\ startup.changes < MaxChanges
    /\ \E file \in {NoFile, [NoFile EXCEPT !.kind = "broken"]} :
           startup' = [startup EXCEPT !.files[dir][id] = file, !.stale = TRUE,
                                      !.wish[id] = None, !.changes = @ + 1]

StartupStep ==
    \/ startup_refresh_clicked \/ startup_search_timeout
    \/ \E text \in SearchTexts(Ids) : startup_search_changed(text)
    \/ scan_directory \/ ScanFails \/ startup_refresh_complete
    \/ \E row \in startup.rows : SelectStartup(row)
    \/ startup_toggle \/ lsm_startup_backend_set_enabled \/ OverrideFails
    \/ startup_action_complete
    \/ \E dir \in 1 .. Len(startup.files), id \in Ids : FileChanges(dir, id)

-----------------------------------------------------------------------------
(* Services.  A unit: whether the manager has loaded it, whether it is      *)
(* active, and the enablement of its file if it has one.                    *)
NoRow == [active |-> None, startup |-> None]
Bare == [active |-> "inactive", startup |-> "unknown"]
Buttons == [start |-> FALSE, stop |-> FALSE, enable |-> FALSE, label |-> "Enable"]

NoRequest == [unit |-> None, what |-> None, state |-> None]

(* One service that is installed and one without a unit file.  The row the  *)
(* page shows instead of the list.                              *)
Placeholder == "systemd services unavailable"

(* One service that is installed only, the others loaded without a file.    *)
InitServices ==
    [unit |-> [u \in Units |->
                  IF u = CHOOSE v \in Units : TRUE
                  THEN [loaded |-> FALSE, active |-> FALSE, file |-> "disabled"]
                  ELSE [loaded |-> TRUE, active |-> TRUE, file |-> None]],
     task |-> None, found |-> [u \in Units |-> NoRow], preserve |-> None,
     partial |-> FALSE, stale |-> FALSE,
     rows |-> [u \in Units |-> NoRow], whole |-> TRUE, shown |-> "nothing",
     search |-> None, timer |-> FALSE, selected |-> None,
     controls |-> Buttons, action |-> NoRequest, requests |-> 0,
     pressed |-> [unit |-> None, button |-> None], changed |-> NoRequest]

lsm_service_backend_state_is_enabled(state) == state = "enabled"

(* service_selection_changed.                                               *)
Controls(v, name) ==
    IF name = None
    THEN [v.controls EXCEPT !.start = FALSE, !.stop = FALSE, !.enable = FALSE]
    ELSE LET row == IF name = Placeholder THEN NoRow ELSE v.rows[name]
         IN  [start |-> row.active # "active", stop |-> row.active = "active",
              enable |-> TRUE,
              label |-> IF lsm_service_backend_state_is_enabled(row.startup)
                        THEN "Disable" ELSE "Enable"]

(* lsm_services_refresh: dropped while another is out.                      *)
ServicesRefreshed(v) ==
    IF v.task # None THEN v
    ELSE [v EXCEPT !.task = "units", !.preserve = v.selected, !.partial = FALSE,
                   !.stale = FALSE, !.found = [u \in Units |-> NoRow]]

service_refresh_clicked == services' = ServicesRefreshed(services)

service_search_changed(text) ==
    /\ text # services.search
    /\ services' = [services EXCEPT !.search = text, !.timer = TRUE]

service_search_timeout ==
    /\ services.timer
    /\ services' = ServicesRefreshed([services EXCEPT !.timer = FALSE])

(* ListUnits; a failure is the collection's.                                *)
merge_loaded_units ==
    /\ services.task = "units"
    /\ \/ services' = [services EXCEPT !.task = "failed"]
       \/ services' = [services EXCEPT !.task = "files",
              !.found = [u \in Units |->
                  IF services.unit[u].loaded
                  THEN [Bare EXCEPT !.active = IF services.unit[u].active
                                               THEN "active" ELSE "inactive"]
                  ELSE NoRow]]

(* The row of a name, made on demand with its defaults.                     *)
service_get(row) == IF row = NoRow THEN Bare ELSE row

(* ListUnitFiles; a failure only leaves the enablement unknown.             *)
merge_unit_files ==
    /\ services.task = "files"
    /\ \/ services' = [services EXCEPT !.task = "done", !.partial = TRUE]
       \/ services' = [services EXCEPT !.task = "done",
              !.found = [u \in Units |->
                  IF services.unit[u].file = None THEN services.found[u]
                  ELSE [service_get(services.found[u]) EXCEPT
                            !.startup = services.unit[u].file]]]

Matches(v, u) == v.found[u] # NoRow /\ v.search \in {None, u}

(* service_refresh_complete with apply_service_refresh and                  *)
(* restore_service_selection.                                               *)
apply_service_refresh ==
    /\ services.task \in {"done", "failed"}
    /\ LET done == services.task = "done"
           cleared == [services EXCEPT
               !.task = None, !.selected = None, !.preserve = None,
               !.found = [u \in Units |-> NoRow], !.partial = FALSE,
               !.controls = Controls(services, None),
               !.shown = IF done THEN "list" ELSE "unavailable",
               !.whole = ~services.partial,
               !.rows = [u \in Units |-> IF done /\ Matches(services, u)
                                         THEN services.found[u] ELSE NoRow]]
           again == services.preserve
       IN  services' =
               IF done /\ again \in Units /\ Matches(services, again)
               THEN [cleared EXCEPT !.selected = again,
                                    !.controls = Controls(cleared, again)]
               ELSE cleared

SelectService(name) ==
    /\ IF name = Placeholder THEN services.shown = "unavailable"
       ELSE services.rows[name] # NoRow
    /\ services' = [services EXCEPT !.selected = name,
                                    !.controls = Controls(services, name)]

(* What is written on the button that is pressed.                           *)
Button(v, what) ==
    IF what \in {"EnableUnitFiles", "DisableUnitFiles"} THEN v.controls.label ELSE what

(* service_start, service_stop, service_restart and service_enable_disable: *)
(* what a button does is decided by the row that is selected now.           *)
perform_service_action(what) ==
    /\ services.action = NoRequest /\ services.requests <= MaxChanges
    /\ services.selected # None
    /\ LET row == IF services.selected = Placeholder THEN NoRow
                  ELSE services.rows[services.selected]
       IN  CASE what = "StartUnit" -> services.controls.start
             [] what \in {"StopUnit", "RestartUnit"} -> services.controls.stop
             [] what = "EnableUnitFiles" ->
                    ~lsm_service_backend_state_is_enabled(row.startup)
             [] OTHER -> lsm_service_backend_state_is_enabled(row.startup)
    /\ services' = [services EXCEPT !.requests = @ + 1,
           !.action = [unit |-> services.selected, what |-> what, state |-> "call"],
           !.pressed = [unit |-> services.selected, button |-> Button(services, what)],
           !.changed = NoRequest]

Effect(unit, what) ==
    CASE what = "StartUnit"       -> [unit EXCEPT !.loaded = TRUE, !.active = TRUE]
      [] what = "StopUnit"        -> [unit EXCEPT !.active = FALSE]
      [] what = "RestartUnit"     -> [unit EXCEPT !.loaded = TRUE, !.active = TRUE]
      [] what = "EnableUnitFiles" -> [unit EXCEPT !.file = "enabled"]
      [] OTHER                    -> [unit EXCEPT !.file = "disabled"]

(* lsm_service_backend_action: the call, then Reload for a change of        *)
(* enablement; a Reload that fails is reported although the change stands.  *)
ManagerCall ==
    /\ services.action.state = "call"
    /\ \/ services' = [services EXCEPT !.action.state = "failure"]
       \/ /\ services.action.unit \in Units
          /\ services.action.what \in {"EnableUnitFiles", "DisableUnitFiles"} =>
                 services.unit[services.action.unit].file # None
          /\ LET u == services.action.unit
                 what == services.action.what
             IN  services' = [services EXCEPT
                     !.unit[u] = Effect(services.unit[u], what), !.stale = TRUE,
                     !.changed = [unit |-> u, what |-> what, state |-> "success"],
                     !.action.state =
                         IF what \in {"EnableUnitFiles", "DisableUnitFiles"}
                         THEN "reload" ELSE "success"]

ManagerReload ==
    /\ services.action.state = "reload"
    /\ \E result \in {"success", "failure"} :
           services' = [services EXCEPT !.action.state = result]

(* service_action_complete.                                                 *)
service_action_complete ==
    /\ services.action.state \in {"success", "failure"}
    /\ LET over == [services EXCEPT !.action = NoRequest]
       IN  services' = IF services.action.state = "success"
                       THEN ServicesRefreshed(over) ELSE over

ServiceActions == {"StartUnit", "StopUnit", "RestartUnit", "EnableUnitFiles",
                   "DisableUnitFiles"}

ServicesStep ==
    \/ service_refresh_clicked \/ service_search_timeout
    \/ \E text \in SearchTexts(Units) : service_search_changed(text)
    \/ merge_loaded_units \/ merge_unit_files \/ apply_service_refresh
    \/ \E name \in Units \cup {Placeholder} : SelectService(name)
    \/ \E what \in ServiceActions : perform_service_action(what)
    \/ ManagerCall \/ ManagerReload \/ service_action_complete

-----------------------------------------------------------------------------
(* Users; one of the sessions begins later.  Histories: the "answers" of    *)
(* login1 to the collection under way and those the tree was last filled    *)
(* from ("collected"), whether memory ran out then; the session the button  *)
(* was pressed on, the one a Yes was given for, and whether the program has *)
(* ever ended another.                                                      *)
Accounts == {AccountOf[x] : x \in Sessions}
Nobody == [kind |-> None, key |-> None]

InitUsers ==
    [session |-> [x \in Sessions |->
                     IF x = CHOOSE y \in Sessions : TRUE THEN "never" ELSE "alive"],
     task |-> None, listed |-> {}, left |-> {}, state |-> [x \in Sessions |-> None],
     preserve |-> Nobody, tree |-> {}, shown |-> "nothing", selected |-> Nobody,
     signout |-> FALSE, dialog |-> None, terminating |-> None,
     answers |-> {}, collected |-> {}, unallocated |-> FALSE,
     asked |-> None, agreed |-> None, strayed |-> FALSE]

(* lsm_users_refresh.                                                       *)
UsersRefreshed(u) ==
    IF u.task # None THEN u
    ELSE [u EXCEPT !.task = "list", !.preserve = u.selected, !.answers = {}]

(* The main loop runs the other handlers under the modal dialog too, but    *)
(* the user can only answer the dialog.                                     *)
users_refresh_clicked ==
    /\ users.dialog = None
    /\ users' = UsersRefreshed(users)

(* lsm_users_update.                                                        *)
lsm_users_update == users.task = None /\ users' = UsersRefreshed(users)

(* ListSessions, parsed into records.                                       *)
parse_session_list ==
    /\ users.task = "list"
    /\ \/ users' = [users EXCEPT !.task = "failed", !.listed = {}]
       \/ LET now == {x \in Sessions : users.session[x] = "alive"}
          IN  users' = [users EXCEPT !.listed = now, !.left = now,
                            !.task = IF now = {} THEN "done" ELSE "properties"]

(* The properties of one session; the call may fail, and does for one that  *)
(* has ended since.  Bound: one that is there fails to answer only after    *)
(* others that did.                                                         *)
session_properties_on_bus(answers) ==
    /\ users.task = "properties"
    /\ LET x == CHOOSE y \in users.left : TRUE
       IN  /\ answers => users.session[x] = "alive"
           /\ answers \/ users.session[x] # "alive"
                      \/ \A a \in users.answers : a.answered
           /\ users' = [users EXCEPT
                  !.state[x] = IF answers THEN "online" ELSE "unavailable",
                  !.answers = @ \cup {[id |-> x, answered |-> answers]},
                  !.left = @ \ {x},
                  !.task = IF users.left = {x} THEN "done" ELSE "properties"]

(* aggregate_users: one header per account, by identity.                    *)
aggregate_users(u) ==
    {[account |-> a,
      sessions |-> {[id |-> x, state |-> u.state[x]] :
                       x \in {y \in u.listed : AccountOf[y] = a}}] :
        a \in {AccountOf[x] : x \in u.listed}}

InTree(tree, row) ==
    CASE row.kind = "account" -> \E h \in tree : h.account = row.key
      [] row.kind = "session" -> \E h \in tree : \E s \in h.sessions : s.id = row.key
      [] OTHER                -> FALSE

(* user_refresh_complete with apply_user_refresh and restore_user_selection.*)
(* Where the table of the sessions or of the users cannot be allocated, the *)
(* list is left empty without a word.                                       *)
apply_user_refresh(allocated) ==
    /\ users.task \in {"done", "failed"}
    /\ allocated \/ (users.task = "done" /\ users.listed # {})
    /\ LET done == users.task = "done"
           tree == IF done /\ allocated THEN aggregate_users(users) ELSE {}
           row == IF InTree(tree, users.preserve) THEN users.preserve ELSE Nobody
       IN  users' = [users EXCEPT
               !.task = None, !.tree = tree, !.listed = {}, !.preserve = Nobody,
               !.state = [x \in Sessions |-> None],
               !.shown = IF done THEN "list" ELSE "unavailable",
               !.selected = row, !.signout = row.kind = "session",
               !.answers = {},
               !.collected = IF done /\ allocated THEN users.answers ELSE {},
               !.unallocated = ~allocated]

(* users_selection_changed.                                                 *)
SelectUserRow(row) ==
    /\ users.dialog = None
    /\ InTree(users.tree, row)
    /\ users' = [users EXCEPT !.selected = row, !.signout = row.kind = "session"]

(* user_signout: the identity is copied before the question is asked.       *)
(* Bound: one sign-out at a time.                                           *)
user_signout ==
    /\ users.dialog = None /\ users.signout /\ users.terminating = None
    /\ users' = [users EXCEPT !.dialog = users.selected.key,
                              !.asked = users.selected.key]

Answered(u) == u.dialog

AnswerDialog(yes) ==
    /\ users.dialog # None
    /\ users' = IF yes
                THEN [users EXCEPT !.dialog = None, !.asked = None,
                                   !.agreed = users.asked,
                                   !.terminating = Answered(users)]
                ELSE [users EXCEPT !.dialog = None, !.asked = None]

(* user_action_worker and user_action_complete.                             *)
lsm_user_backend_terminate_session ==
    /\ users.terminating # None
    /\ LET x == users.terminating
           over == [users EXCEPT !.terminating = None, !.agreed = None]
       IN  \/ users' = over
           \/ /\ users.session[x] = "alive"
              /\ users' = UsersRefreshed([over EXCEPT !.session[x] = "gone",
                                 !.strayed = @ \/ x # users.agreed])

SessionBegins(x) ==
    /\ users.session[x] = "never"
    /\ users' = [users EXCEPT !.session[x] = "alive"]

(* Bound: a session ends by itself as long as none has ended.               *)
SessionEnds(x) ==
    /\ users.session[x] = "alive"
    /\ \A y \in Sessions : users.session[y] # "gone"
    /\ users' = [users EXCEPT !.session[x] = "gone"]

UsersStep ==
    \/ users_refresh_clicked \/ lsm_users_update
    \/ parse_session_list
    \/ \E answers \in BOOLEAN : session_properties_on_bus(answers)
    \/ \E allocated \in BOOLEAN : apply_user_refresh(allocated)
    \/ \E a \in Accounts : SelectUserRow([kind |-> "account", key |-> a])
    \/ \E x \in Sessions : SelectUserRow([kind |-> "session", key |-> x])
    \/ user_signout \/ \E yes \in BOOLEAN : AnswerDialog(yes)
    \/ lsm_user_backend_terminate_session
    \/ \E x \in Sessions : SessionBegins(x) \/ SessionEnds(x)

-----------------------------------------------------------------------------
(* File Systems.  Histories: the mounts there were when the collection      *)
(* under way read them ("met") and when the last one to succeed did         *)
(* ("last").  Mounts[m] has what is wrong with its line in              *)
(* /proc/self/mountinfo ("defects", most often nothing), whether it is      *)
(* shown by default ("desktop"), and the answers statvfs may give.          *)
(* next_field, parse_device_number and decode_mount_field are each as       *)
(* strict: a record is taken whole or not at all.                           *)
parse_mount_line(m) == Mounts[m].defects = {}

MinOf(a, b) == IF a < b THEN a ELSE b

(* collect_capacity: nothing where statvfs fails or a product overflows.    *)
Unknown == [known |-> FALSE, total |-> 0, free |-> 0, available |-> 0, used |-> 0]

collect_capacity(stat) ==
    IF ~stat.answers THEN Unknown
    ELSE LET free == MinOf(stat.free, stat.total)
         IN  [known |-> TRUE, total |-> stat.total, free |-> free,
              available |-> MinOf(stat.available, stat.total),
              used |-> stat.total - free]

FsColumns == {"source", "free"}
MinimumWidth == [source |-> 140, free |-> 90]
DefaultLayout == [visible |-> [col \in FsColumns |-> col # "free"],
                  width |-> MinimumWidth, sort |-> None]

InitMounts ==
    [mounted |-> {}, task |-> None, again |-> FALSE, read |-> {},
     snapshot |-> {}, show_all |-> FALSE, saved_show_all |-> FALSE,
     search |-> None, rows |-> {}, label |-> "count", met |-> {}, last |-> {},
     layout |-> DefaultLayout, file |-> DefaultLayout, running |-> TRUE, changes |-> 0]

(* filesystem_default_visible and filesystem_matches_search.                *)
Visible(f, item) ==
    /\ f.show_all \/ Mounts[item.mount].desktop
    /\ f.search \in {None, item.mount}

(* present_filesystem_snapshot.                                             *)
Presented(f) ==
    [f EXCEPT !.rows = {item \in f.snapshot : Visible(f, item)}, !.label = "count"]

lsm_filesystems_refresh ==
    /\ mounts.running
    /\ mounts' = IF mounts.task # None THEN [mounts EXCEPT !.again = TRUE]
                 ELSE [mounts EXCEPT !.task = "read"]

(* lsm_mountinfo_visit_file_checked with append_mount: one malformed line   *)
(* or a failed allocation, and there is no inventory.                       *)
lsm_filesystem_inventory_collect ==
    /\ mounts.task = "read"
    /\ \/ mounts' = [mounts EXCEPT !.task = "failed"]
       \/ /\ \A m \in mounts.mounted : parse_mount_line(m)
          /\ \E stat \in [mounts.mounted -> UNION {Mounts[m].stats : m \in DOMAIN Mounts}] :
                 /\ \A m \in mounts.mounted : stat[m] \in Mounts[m].stats
                 /\ mounts' = [mounts EXCEPT !.task = "done", !.met = mounts.mounted,
                        !.read = {[mount |-> m, capacity |-> collect_capacity(stat[m])] :
                                     m \in mounts.mounted}]

(* filesystem_refresh_complete after a failure.                             *)
Kept(f) == [f EXCEPT !.label = "keeping previous snapshot"]

filesystem_refresh_complete ==
    /\ mounts.task \in {"done", "failed"}
    /\ LET over == IF mounts.task = "done"
                   THEN Presented([mounts EXCEPT !.snapshot = mounts.read,
                                                 !.last = mounts.met])
                   ELSE Kept(mounts)
       IN  mounts' = [over EXCEPT !.read = {}, !.met = {}, !.again = FALSE,
                          !.task = IF mounts.again /\ mounts.running
                                   THEN "read" ELSE None]

search_changed(text) ==
    /\ mounts.running /\ text # mounts.search
    /\ mounts' = Presented([mounts EXCEPT !.search = text])

show_all_toggled ==
    /\ mounts.running
    /\ mounts' = Presented([mounts EXCEPT !.show_all = ~@,
                                          !.saved_show_all = ~mounts.show_all])

(* A column that is hidden has no width; the value is out of range when it  *)
(* is read back.                                                            *)
Saved(layout) ==
    [layout EXCEPT !.width = [col \in FsColumns |->
         IF layout.visible[col] THEN layout.width[col] ELSE 0]]

(* filesystem_columns_dialog, accepted, with filesystem_columns_save.       *)
filesystem_columns_dialog ==
    /\ mounts.running
    /\ \E visible \in [FsColumns -> BOOLEAN], written \in BOOLEAN :
           LET layout == [mounts.layout EXCEPT !.visible = visible]
           IN  /\ visible["source"]
               /\ mounts' = [mounts EXCEPT
                      !.layout = layout,
                      !.file = IF written THEN Saved(layout) ELSE @]

ArrangeColumns ==
    /\ mounts.running
    /\ \/ mounts' = [mounts EXCEPT !.layout.sort = "free"]
       \/ mounts' = [mounts EXCEPT !.layout.width["free"] = 120]

(* filesystem_columns_load; a file that is not there loads as the defaults. *)
filesystem_columns_load(file) ==
    [file EXCEPT !.width = [col \in FsColumns |->
        IF file.width[col] \in 40 .. 2000 THEN file.width[col]
        ELSE MinimumWidth[col]]]

lsm_filesystems_destroy ==
    /\ mounts.running
    /\ mounts' = [mounts EXCEPT !.running = FALSE, !.snapshot = {}, !.rows = {},
                                !.task = None, !.again = FALSE, !.read = {},
                                !.met = {}, !.last = {},
                                !.search = None, !.label = "count"]

(* The program is started again and the page built.                         *)
lsm_filesystems_build ==
    /\ ~mounts.running
    /\ mounts' = [mounts EXCEPT !.running = TRUE, !.show_all = mounts.saved_show_all,
                                !.layout = filesystem_columns_load(mounts.file)]

MountsChange(m) ==
    /\ mounts.changes < MaxChanges + 1
    /\ mounts' = [mounts EXCEPT !.changes = @ + 1,
                      !.mounted = IF m \in @ THEN @ \ {m} ELSE @ \cup {m}]

FilesystemsStep ==
    \/ lsm_filesystems_refresh \/ lsm_filesystem_inventory_collect
    \/ filesystem_refresh_complete \/ show_all_toggled
    \/ \E text \in SearchTexts(DOMAIN Mounts) : search_changed(text)
    \/ filesystem_columns_dialog \/ ArrangeColumns
    \/ lsm_filesystems_destroy \/ lsm_filesystems_build
    \/ \E m \in DOMAIN Mounts : MountsChange(m)

-----------------------------------------------------------------------------
(* The application catalog.  A file has the words of its command in "exec"  *)
(* and the other identities it would register (its desktop ID, the aliases  *)
(* of that, its StartupWMClass) in "names", in that order.  An identity is  *)
(* a sequence of the parts a "-" separates; "org.app" is one with a ".".    *)
InitCatalog(files) ==
    [files |-> files, at |-> 1, seen |-> {}, left |-> Ids, entries |-> {},
     by_executable |-> <<>>, complete |-> TRUE, state |-> "scan"]

(* executable_from_command: the first word that is neither a wrapper nor    *)
(* one of the words that belong to it.                                      *)
RECURSIVE Executable(_, _, _)
Executable(words, wrapped, flatpak) ==
    IF words = <<>> THEN <<>>
    ELSE LET word == Head(words)
             rest == Tail(words)
         IN  CASE word = <<"%U">> -> Executable(rest, wrapped, flatpak)
               [] ~wrapped /\ word = <<"env">> -> Executable(rest, TRUE, flatpak)
               [] ~wrapped /\ word = <<"flatpak">> -> Executable(rest, TRUE, TRUE)
               [] wrapped /\ word \in {<<"A=b">>, <<"--option">>} ->
                      Executable(rest, wrapped, flatpak)
               [] flatpak /\ word = <<"run">> -> Executable(rest, wrapped, flatpak)
               [] OTHER -> word

executable_from_command(words) == Executable(words, FALSE, FALSE)

Names(file) == <<executable_from_command(file.exec)>> \o file.names

Registered(map, name) == \E k \in DOMAIN map : map[k].name = name

(* register_identity: the first to claim a name keeps it.                   *)
RECURSIVE register_identities(_, _, _)
register_identities(map, names, entry) ==
    IF names = <<>> THEN map
    ELSE register_identities(
             IF Registered(map, Head(names)) THEN map
             ELSE Append(map, [name |-> Head(names), entry |-> entry]),
             Tail(names), entry)

(* load_desktop_file: an application with a command, and not Hidden.        *)
Loads(file) ==
    /\ file.kind = "application" /\ ~file.hidden
    /\ executable_from_command(file.exec) # <<>>

(* One name of scan_application_directory, in the order readdir gives them. *)
ScanApplication(id) ==
    /\ catalog.state = "scan" /\ id \in catalog.left
    /\ LET file == catalog.files[catalog.at][id]
           new == file.kind # "absent" /\ id \notin catalog.seen
           entry == [id |-> id, dir |-> catalog.at]
           last == catalog.left = {id}
       IN  catalog' = [catalog EXCEPT
               !.seen = IF new THEN @ \cup {id} ELSE @,
               !.entries = IF new /\ Loads(file) THEN @ \cup {entry} ELSE @,
               !.by_executable = IF new /\ Loads(file)
                                 THEN register_identities(@, Names(file), entry) ELSE @,
               !.left = IF last THEN Ids ELSE @ \ {id},
               !.at = IF last THEN @ + 1 ELSE @,
               !.state = IF last /\ catalog.at = Len(catalog.files)
                         THEN "built" ELSE "scan"]

(* A directory that cannot be read, and the catalog is given up.            *)
CatalogFails ==
    /\ catalog.state = "scan"
    /\ catalog' = [catalog EXCEPT !.state = "given up", !.complete = FALSE,
                                  !.entries = {}, !.by_executable = <<>>]

lookup_identity(name) ==
    IF Registered(catalog.by_executable, name)
    THEN catalog.by_executable[CHOOSE k \in DOMAIN catalog.by_executable :
             catalog.by_executable[k].name = name].entry
    ELSE [id |-> None, dir |-> 0]

(* lsm_application_catalog_lookup: by the process name, then by its command *)
(* with and without a last part "bin".                                      *)
lsm_application_catalog_lookup(process, words) ==
    LET name == executable_from_command(words)
        n == Len(name)
    IN  IF lookup_identity(process).id # None THEN lookup_identity(process)
        ELSE IF lookup_identity(name).id # None THEN lookup_identity(name)
        ELSE IF n > 1 /\ name[n] = "bin" THEN lookup_identity(SubSeq(name, 1, n - 1))
        ELSE [id |-> None, dir |-> 0]

Dotted(name) == \E k \in DOMAIN name : name[k] = "org.app"

(* The names lookup_application_unit_payload tries from one start on: a     *)
(* scope gives up its parts from the right while a "." is left before.      *)
Variants(name, first, scope) ==
    LET whole == SubSeq(name, first, Len(name))
        tried(k) == SubSeq(whole, 1, Len(whole) - k + 1)
        n == IF ~Dotted(whole) THEN 0
             ELSE IF ~scope THEN 1
             ELSE Cardinality({k \in 1 .. Len(whole) : k = 1 \/ Dotted(tried(k - 1))})
    IN  [k \in 1 .. n |-> tried(k)]

RECURSIVE FirstFound(_)
FirstFound(names) ==
    IF names = <<>> THEN [id |-> None, dir |-> 0]
    ELSE IF lookup_identity(Head(names)).id # None THEN lookup_identity(Head(names))
    ELSE FirstFound(Tail(names))

RECURSIVE UnitPayload(_, _, _)
UnitPayload(name, first, scope) ==
    IF first > Len(name) THEN [id |-> None, dir |-> 0]
    ELSE LET entry == FirstFound(Variants(name, first, scope))
         IN  IF entry.id # None THEN entry ELSE UnitPayload(name, first + 1, scope)

(* lookup_application_unit_payload, called with the name of an "app-" unit. *)
lsm_application_catalog_lookup_cgroup(name, scope) == UnitPayload(name, 1, scope)

CatalogStep == (\E id \in Ids : ScanApplication(id)) \/ CatalogFails

-----------------------------------------------------------------------------
Init ==
    /\ study \in Studies
    /\ startup \in {[InitStartup EXCEPT !.files = f] :
                       f \in IF study = "startup" THEN AutostartFiles
                             ELSE {InitStartup.files}}
    /\ services = InitServices
    /\ users = InitUsers
    /\ mounts = InitMounts
    /\ catalog \in {InitCatalog(f) : f \in IF study = "catalog" THEN ApplicationFiles
                       ELSE {CHOOSE f \in ApplicationFiles : TRUE}}

Next ==
    /\ UNCHANGED study
    /\ \/ study = "startup" /\ StartupStep
          /\ UNCHANGED <<services, users, mounts, catalog>>
       \/ study = "services" /\ ServicesStep
          /\ UNCHANGED <<startup, users, mounts, catalog>>
       \/ study = "users" /\ UsersStep
          /\ UNCHANGED <<startup, services, mounts, catalog>>
       \/ study = "filesystems" /\ FilesystemsStep
          /\ UNCHANGED <<startup, services, users, catalog>>
       \/ study = "catalog" /\ CatalogStep
          /\ UNCHANGED <<startup, services, users, mounts>>

Spec == Init /\ [][Next]_vars

-----------------------------------------------------------------------------
TypeOK ==
    /\ study \in Studies
    /\ startup.task \in {None, "scan", "done", "failed"}
    /\ startup.rows \subseteq [id : Ids, source : 1 .. Len(startup.files),
                               text : 0 .. 3, enabled : BOOLEAN]
    /\ services.task \in {None, "units", "files", "done", "failed"}
    /\ services.selected \in Units \cup {None, Placeholder}
    /\ users.task \in {None, "list", "properties", "done", "failed"}
    /\ mounts.task \in {None, "read", "done", "failed"}
    /\ catalog.state \in {"scan", "built", "given up"}

(* The reference: the first directory that has the name decides alone.      *)
Decides(files, id) ==
    {d \in 1 .. Len(files) : /\ files[d][id].kind # "absent"
                             /\ \A e \in 1 .. d - 1 : files[e][id].kind = "absent"}

AutostartRows(files) ==
    UNION {UNION {load_startup_entry(files[d][id], id, d) : d \in Decides(files, id)} :
             id \in Ids}

StartupIdle ==
    /\ startup.task = None /\ startup.action = NoToggle /\ ~startup.timer
    /\ startup.shown = "list"

(* Once Startup Apps has come to rest it shows what the next login will     *)
(* run: for every name the entry of the first directory that has it, also   *)
(* where that one is broken and nothing is shown, whatever a collection,    *)
(* a toggle and the search have overlapped; an entry the user has switched  *)
(* off is never shown as enabled again, and one switched on is, unless the  *)
(* file itself excludes this desktop.  The button acts on the row under it. *)
StartupShowsLogin ==
    /\ StartupIdle /\ ~startup.stale =>
           startup.rows = {r \in AutostartRows(startup.files) :
                             startup.search \in {None, r.id}}
    /\ StartupIdle =>
           \A r \in startup.rows :
               /\ startup.wish[r.id] = "off" => ~r.enabled
               /\ startup.wish[r.id] = "on" /\ ~startup.stale =>
                      r.enabled = Allowed(startup.files[1][r.id])
    /\ startup.sensitive =>
           /\ startup.action = NoToggle /\ startup.selected \in startup.rows
           /\ startup.button = IF startup.selected.enabled THEN "Disable" ELSE "Enable"

(* A finished Services page has one row for every service that is loaded or *)
(* has a unit file, and only a failed file list leaves its enablement       *)
(* unknown; after every refresh, search and restored selection the buttons  *)
(* offer exactly what the selected row allows.  The manager is asked to     *)
(* change only the unit that was selected when the button was pressed, in   *)
(* the way that was written on it, whatever a refresh has done to the rows  *)
(* and the selection until the call is made.                                *)
ServicesTrue ==
    /\ services.changed # NoRequest =>
           /\ services.changed.unit = services.pressed.unit
           /\ services.changed.what =
                  CASE services.pressed.button = "Enable"  -> "EnableUnitFiles"
                    [] services.pressed.button = "Disable" -> "DisableUnitFiles"
                    [] OTHER -> services.pressed.button
    /\ services.task = None /\ services.shown = "list" /\ ~services.stale
           /\ ~services.timer =>
       \A u \in Units :
           LET unit == services.unit[u]
               known == unit.loaded \/ (unit.file # None /\ services.whole)
           IN  /\ services.rows[u] # NoRow <=> known /\ services.search \in {None, u}
               /\ services.rows[u] # NoRow =>
                      /\ services.rows[u].startup = "unknown" <=>
                             unit.file = None \/ ~services.whole
                      /\ services.rows[u].active = "active" <=>
                             unit.loaded /\ unit.active
    /\ services.selected = None =>
           ~services.controls.start /\ ~services.controls.stop
               /\ ~services.controls.enable
    /\ services.selected \in Units =>
           /\ services.rows[services.selected] # NoRow
           /\ services.controls = Controls(services, services.selected)

(* The program ends only the session that was selected when Sign out was    *)
(* pressed and the user then agreed to, whatever a refresh did to the rows  *)
(* and the selection while the question was on the screen or the call under *)
(* way.  The tree has exactly the sessions that login1 named at the last    *)
(* collection, each once, below its own account, and as unavailable where   *)
(* its properties could not be read; after a failure it has none.  The      *)
(* exception: where memory runs out it is empty and does not say so         *)
(* (user_backend_linux.c:272, users.c:90).  The button signs out only where *)
(* a session is selected.                                                   *)
UsersTrue ==
    /\ ~users.strayed
    /\ UNION {h.sessions : h \in users.tree} =
           IF users.shown # "list" \/ users.unallocated THEN {}
           ELSE {[id |-> a.id, state |-> IF a.answered THEN "online"
                                         ELSE "unavailable"] : a \in users.collected}
    /\ \A h \in users.tree :
           /\ h.sessions # {}
           /\ \A s \in h.sessions : AccountOf[s.id] = h.account
           /\ \A g \in users.tree : g = h \/ g.account # h.account
    /\ users.signout <=> users.selected.kind = "session"
    /\ users.selected # Nobody => InTree(users.tree, users.selected)

(* File Systems shows, at every moment, the part of the last complete       *)
(* inventory that the filter lets through: every mount there was when the   *)
(* last collection to succeed read them, and no other, for a failure, or    *)
(* any number of them, replaces nothing.  What is used and free makes up    *)
(* the total, and a column that is visible comes back with its width after  *)
(* a restart.                                                               *)
FilesystemsTrue ==
    /\ {item.mount : item \in mounts.snapshot} = mounts.last
    /\ Cardinality(mounts.snapshot) = Cardinality(mounts.last)
    /\ mounts.rows = {item \in mounts.snapshot : Visible(mounts, item)}
    /\ \A item \in mounts.snapshot :
           LET c == item.capacity
           IN  /\ c.known => c.used + c.free = c.total /\ c.available <= c.total
               /\ parse_mount_line(item.mount)
    /\ LET loaded == filesystem_columns_load(mounts.file)
       IN  \A col \in FsColumns : mounts.file.visible[col] =>
               loaded.width[col] = mounts.file.width[col]

(* The catalog knows an application by the file that decides its name, so   *)
(* that a withdrawn application is not resurrected from a lower directory;  *)
(* a name belongs to the first directory that claims it; a process started  *)
(* by a listed command is recognised through wrappers and a "-bin" suffix;  *)
(* and the unit of a scope leads to the application however long its random *)
(* suffix, unless the launcher before it is itself a registered name.       *)
CatalogTrue ==
    catalog.state = "built" =>
        /\ \A e \in catalog.entries :
               e.dir \in Decides(catalog.files, e.id)
        /\ \A j \in DOMAIN catalog.by_executable :
               LET b == catalog.by_executable[j]
               IN  \A e \in catalog.entries :
                       e.dir < b.entry.dir =>
                           \A k \in DOMAIN Names(catalog.files[e.dir][e.id]) :
                               Names(catalog.files[e.dir][e.id])[k] # b.name
        /\ \A e \in catalog.entries :
               LET words == catalog.files[e.dir][e.id].exec
                   name == executable_from_command(words)
               IN  /\ name \notin {<<"env">>, <<"flatpak">>, <<"A=b">>, <<"%U">>}
                   /\ \A w \in {words, <<<<"env">>, name \o <<"bin">>>>} :
                          lsm_application_catalog_lookup(<<"thread">>, w) =
                              lookup_identity(name)
                   /\ lookup_identity(name).dir \in 1 .. e.dir
        /\ \A e \in catalog.entries :
               LET name == <<"org.app">>
                   unit == <<"launcher", "org.app", "1a", "2b">>
               IN  Registered(catalog.by_executable, name) =>
                       lsm_application_catalog_lookup_cgroup(unit, TRUE) \in
                           {lookup_identity(name), lookup_identity(<<"launcher">>)}

=============================================================================
