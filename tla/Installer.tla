------------------------------ MODULE Installer ------------------------------
(***************************************************************************)
(* The hardware-native installer: the script that build_native_installer   *)
(* writes (support/tools/build_native_installer.c), which downloads the    *)
(* pinned source, the engine that builds and installs it                   *)
(* (support/tools/native_installer.c) and the package builder it runs      *)
(* (support/tools/build_deb_package.c).                                    *)
(*                                                                         *)
(* The three are one sequence of steps.  Each may fail, the programs give  *)
(* up at the first that does, and the whole may be killed at any moment.   *)
(* Paths, texts and the options of compilers are left out.                 *)
(***************************************************************************)
EXTENDS Integers, Sequences, FiniteSets, SequencesExt

CONSTANTS
    Profiles,   \* --profile: "native", "aggressive", "portable".
    Versions    \* Versions a downloaded source may carry.

InstallerAssumption == Profiles \subseteq {"native", "aggressive", "portable"}

VARIABLES
    request,    \* The options and the account, and the version to install.
    source,     \* The version of the source tree, "" before it is there.
    at,         \* Steps done, and how the run ended.
    directories,\* Temporary directories that exist.
    build,      \* build/: the binary, how it was made, and BUILD-INFO.
    training,   \* Profile data of the training run.
    staged,     \* The package's files, and those with the common timestamp.
    package,    \* The package built.
    installed   \* What dpkg has installed: "old", or a package.

vars == <<request, source, at, directories, build, training, staged, package,
          installed>>

Requests ==
    [profile : Profiles, root : BOOLEAN, system_package_mode : BOOLEAN,
     run_tests : BOOLEAN, dry_run : BOOLEAN,
     version : Versions]

NoBuild == [binary |-> "none", info |-> "none", packager |-> FALSE]
NoPackage == [binary |-> "none", info |-> "none", files |-> {}, stamped |-> {}, version |-> ""]
NotStaged == [files |-> {}, stamped |-> {}, binary |-> "none"]

-----------------------------------------------------------------------------
(* The steps, in the order of the three programs.                           *)

installer_body ==
    <<"account", "work", "download source", "match version", "download common",
      "bootstrap">>

(* main removes the bootstrap's own binary before it can fail.              *)
Preparation ==
    <<"refuse root", "bootstrap binary", "options", "requirements">>

(* The compiler tries each set of flags on an empty program.                *)
probe_compiler(r) ==
    <<"probe", "optimisation flags">>
    \o (IF r.profile = "aggressive" THEN <<"profile flags">> ELSE <<>>)

(* Two passes train an aggressive build; the clean between them takes the   *)
(* instrumented objects away.                                               *)
Passes(r) ==
    IF r.profile = "aggressive"
    THEN <<"instrument", "train", "clean", "rebuild">> ELSE <<"compile">>

(* The package builder's own order: what is staged, then one timestamp for  *)
(* all of it, then the archive.                                             *)
build_deb_package ==
    <<"deb-root", "native directories", "copy binary", "strip", "glibc baseline",
      "documents", "changelog", "desktop", "control", "postinst", "timestamps",
      "dpkg-deb">>

Installation == <<"install", "verify">>

Plan(r) ==
    installer_body \o Preparation \o probe_compiler(r)
    \o (IF r.dry_run THEN <<>>
        ELSE <<"clean">>
             \o (IF r.run_tests /\ ~r.system_package_mode
                 THEN <<"build-check", "clean">> ELSE <<>>)
             \o Passes(r) \o <<"stage", "build info", "package builder">>
             \o build_deb_package \o Installation)

Done == SubSeq(Plan(request), 1, at.step)
Now == Plan(request)[at.step + 1]
Running == at.outcome = "running" /\ at.step < Len(Plan(request))

-----------------------------------------------------------------------------
Init ==
    /\ request \in Requests
    /\ source = ""
    /\ at = [step |-> 0, outcome |-> "running"]
    /\ directories = {}
    /\ build = NoBuild
    /\ training = FALSE
    /\ staged = NotStaged
    /\ package = NoPackage
    /\ installed = [NoPackage EXCEPT !.version = "old"]

(* The version that build_native_installer writes into its script, beside   *)
(* the two revisions to download.                                           *)
Pinned == request.version

(* Conditions under which a step cannot succeed, whatever the system does:  *)
(* main's refusals, and the checks of earlier steps' products.              *)
Possible(step) ==
    CASE step \in {"account", "refuse root", "options"} ->
            request.root = request.system_package_mode
      [] step = "match version" -> source = Pinned
      [] step = "train" -> build.binary = "instrumented"
      [] step = "rebuild" -> training
      [] step = "build info" -> build.info = "none"
      [] step = "copy binary" -> build.binary # "none"
      [] step = "install" -> package.binary # "none"
      [] OTHER -> TRUE

(* Steps in which nothing else can go wrong.                                *)
Certain == {"account", "refuse root", "bootstrap binary"}

(* Directories that mkdtemp makes in a step, and the one that main removes. *)
mkdtemp(step) ==
    CASE step = "work" -> directories \cup {"work"}
      [] step = "bootstrap" -> directories \cup {"bootstrap"}
      [] step = "bootstrap binary" -> directories \ {"bootstrap"}
      [] step = "probe" -> directories \cup {"probe"}
      [] step = "stage" -> directories \cup {"stage"}
      [] step = "deb-root" -> directories \cup {"deb-root"}
      [] step = "dpkg-deb" -> directories \ {"deb-root"}
      [] OTHER -> directories

(* make: the binary is built anew when the flags differ from those of the   *)
(* objects that are there.                                                  *)
run_make(step) ==
    CASE step = "clean" -> NoBuild
      [] step = "build-check" -> [build EXCEPT !.binary = "tests"]
      [] step = "instrument" -> [build EXCEPT !.binary = "instrumented"]
      [] step = "rebuild" -> [build EXCEPT !.binary = "trained"]
      [] step = "compile" -> [build EXCEPT !.binary = request.profile]
      [] step = "build info" ->
            [build EXCEPT !.info = IF request.profile = "aggressive" THEN "trained"
                                   ELSE request.profile]
      [] step = "package builder" -> [build EXCEPT !.packager = TRUE]
      [] OTHER -> build

(* copy_staged, write_staged: files put into the package's tree.            *)
copy_staged(files) == [staged EXCEPT !.files = @ \cup files]
(* The text is written, compressed beside itself and removed.               *)
install_release_changelog == copy_staged({"changelog.gz"})
normalise_tree_timestamps == [staged EXCEPT !.stamped = staged.files]

(* What each step of the package builder does to the tree.                  *)
Stage(step) ==
    CASE step = "deb-root" -> NotStaged
      [] step = "native directories" -> copy_staged({"directories", "path profile"})
      [] step = "copy binary" ->
            [copy_staged({"Programs/system-monitor"}) EXCEPT !.binary = build.binary]
      [] step = "documents" ->
            copy_staged({"fonts", "icons", "LICENSE", "README.md", "BUILD-INFO"})
      [] step = "changelog" -> install_release_changelog
      [] step = "desktop" -> copy_staged({"desktop"})
      [] step = "control" -> copy_staged({"control"})
      [] step = "postinst" -> copy_staged({"postinst"})
      [] step = "timestamps" -> normalise_tree_timestamps
      [] OTHER -> staged

(* dpkg-deb takes the tree as it then is.                                   *)
Archive ==
    [binary |-> staged.binary, info |-> build.info, files |-> staged.files,
     stamped |-> staged.stamped, version |-> source]

(* The next step succeeds.                                                  *)
StepDone ==
    /\ Running /\ Possible(Now)
    /\ at' = [at EXCEPT !.step = @ + 1]
    /\ source' \in IF Now = "download source" THEN Versions ELSE {source}
    /\ directories' = mkdtemp(Now)
    /\ build' = run_make(Now)
    /\ training' = (training \/ Now = "train")
    /\ staged' = Stage(Now)
    /\ package' = IF Now = "dpkg-deb" THEN Archive ELSE package
    /\ installed' = IF Now = "install" THEN package ELSE installed
    /\ UNCHANGED request

(* cleanup_paths and cleanup, which exit runs, and the script's trap.       *)
cleanup_paths == directories' = directories \ {"work", "probe", "stage", "deb-root"}

(* dpkg, failing, may have unpacked the package or not.                     *)
fail ==
    /\ Running /\ (Now \in Certain => ~Possible(Now))
    /\ at' = [at EXCEPT !.outcome = "failed"]
    /\ cleanup_paths
    /\ installed' \in IF Now = "install" THEN {installed, package} ELSE {installed}
    /\ UNCHANGED <<request, source, build, training, staged, package>>

Finish ==
    /\ at.outcome = "running" /\ at.step = Len(Plan(request))
    /\ at' = [at EXCEPT !.outcome = "done"]
    /\ cleanup_paths
    /\ UNCHANGED <<request, source, build, training, staged, package, installed>>

(* No handler of the programs runs.                                         *)
Killed ==
    /\ Running
    /\ at' = [at EXCEPT !.outcome = "killed"]
    /\ installed' \in IF Now = "install" THEN {installed, package} ELSE {installed}
    /\ UNCHANGED <<request, source, directories, build, training, staged, package>>

Next == StepDone \/ fail \/ Finish \/ Killed

Spec == Init /\ [][Next]_vars

-----------------------------------------------------------------------------
TypeOK ==
    /\ request \in Requests
    /\ at.outcome \in {"running", "done", "failed", "killed"}
    /\ directories \subseteq {"work", "bootstrap", "probe", "stage", "deb-root"}
    /\ build.packager \in BOOLEAN
    /\ staged.stamped \subseteq staged.files

(* What replaces the old package is always the last pass of the build that  *)
(* was asked for: never the instrumented binary or that of the tests, never *)
(* another version than the installer's, described by a BUILD-INFO of the   *)
(* same pass, and complete.  Until dpkg runs the old one is untouched.      *)
InstalledIsFinal ==
    IF installed.version = "old" THEN at.outcome = "done" => request.dry_run
    ELSE /\ installed.binary = IF request.profile = "aggressive" THEN "trained"
                               ELSE request.profile
         /\ installed.info = installed.binary
         /\ installed.version = request.version
         /\ {"Programs/system-monitor", "control", "postinst"} \subseteq installed.files
         /\ (request.run_tests /\ ~request.system_package_mode)
                => Contains(Done, "build-check")

(* Every file of a package carries the one timestamp, so that two builds of *)
(* one tree are equal.                                                      *)
PackageReproducible == package.files = package.stamped

(* A run that ends by itself, at whichever step, leaves no directory.       *)
NothingLeft == at.outcome \in {"done", "failed"} => directories = {}

=============================================================================
