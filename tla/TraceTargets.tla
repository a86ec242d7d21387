---------------------------- MODULE TraceTargets ----------------------------
(***************************************************************************)
(* How osdtrace starts: which ceph-osd processes it selects, whose debug   *)
(* information it loads, and which files it plants its probes in, while    *)
(* the processes exit and start and packages are replaced under them.      *)
(*                                                                         *)
(* A mount namespace is the host or a container; the ceph-osd of its n-th  *)
(* package is a file of its own, <<ns, n>>, and a process keeps running    *)
(* the file it was started from.  A file is known by its build, which      *)
(* stands for the build-id.  osdtrace runs as root on the host.            *)
(***************************************************************************)
EXTENDS FieldAccess, FiniteSetsExt

CONSTANTS
  Build, Debug,   \* Debug[b]: the debug information and the ABI of a build
  Embedded,       \* builds with data compiled in
  Symbols,        \* builds with debug symbols to be had on the host
  VersionOf,      \* the package version of a build
  Ns, Host,
  Installed,      \* Installed[ns]: the builds installed one after the other
  PathOf,         \* PathOf[ns]: the path of ceph-osd in it
  Pid, Running,   \* process ids; those that run at first
  NsOf, OsdOf, Daemon, \* a process's namespace and OSD id; the processes of ceph-osd
  Options, None,
  Regs            \* the registers at the probe

AnyProcess == 0   \* process_id -1
Tables == {"func2vf", "type_sizes", "member_offsets"}
OpMembers == << << "indata", "_carriage" >>, << "op", "cls", "class_len" >>,
                << "op", "cls", "method_len" >> >>

ASSUME TargetAssumption ==
  /\ Embedded \subseteq Build /\ Symbols \subseteq Build
  /\ Host \in Ns /\ Pid \subseteq Nat \ {AnyProcess} /\ Pid # {} /\ Running \subseteq Pid /\ Daemon \subseteq Pid
  /\ \A ns \in Ns : Installed[ns] \in Seq(Build)
  /\ \A ns \in Ns : Len(Installed[ns]) > 0
  /\ \A p \in Pid : NsOf[p] \in Ns
  /\ None \notin Build /\ \A ns \in Ns : PathOf[ns] # None
  /\ \A o \in Options : /\ o.import # None => /\ o.import.build \in Build /\ o.import.tables \subseteq Tables
                                              /\ o.import.version = VersionOf[o.import.build]
                        /\ o.ps \subseteq Pid

VARIABLES
  options,   \* [all, ids, ps, import, skip, export]: ids of --id, ps of -p
  pc,
  disk,      \* disk[ns]: the package that is installed, 0 for none
  image,     \* image[p]: the package p runs the ceph-osd of, 0 if it does not run
  started,
  todo,      \* processes the scan or the loop has not come to
  seen,      \* discover_ceph_osd_processes
  build_id,  \* what annotate_traceability read for each of them
  pids, osd_path,   \* TraceTarget
  parser,    \* the build each table of DwarfParser is filled from, or None
  planted,   \* <<p, file>>: the probes of p are in the file
  json,      \* the exported file
  replaced   \* a package was replaced since the program looked for old images

env == <<disk, image, started>>
target == <<pids, osd_path>>
vars == <<options, pc, env, todo, seen, build_id, target, parser, planted, json, replaced>>

PCs == {"discover", "annotate", "all", "ids", "host", "validate", "deleted",
        "load", "version", "export", "attach", "tracing", "exported", "failed"}

IsRunning(p) == image[p] # 0
File(p) == << NsOf[p], image[p] >>
BuildOf(file) == Installed[file[1]][file[2]]
OnDisk(ns) == << ns, disk[ns] >>
exe(p) == IF p \in Daemon THEN PathOf[NsOf[p]] ELSE "other"   \* get_exe_path_for_pid

\* The build-id of the file a path leads to in a namespace.
get_elf_build_id(ns, path) ==
  IF disk[ns] > 0 /\ path = PathOf[ns] THEN BuildOf(OnDisk(ns)) ELSE None

\* The namespace of /proc/<first pid>/root.
FirstRoot == IF pids = {} THEN Host ELSE NsOf[Min(pids)]

NoData == [t \in Tables |-> None]
Fail == pc' = "failed" /\ UNCHANGED <<options, env, todo, seen, build_id, target, parser, planted, json, replaced>>

TypeOK ==
  /\ options \in Options /\ pc \in PCs
  /\ \A ns \in Ns : disk[ns] \in 0 .. Len(Installed[ns])
  /\ image \in [Pid -> Nat] /\ started \subseteq Pid
  /\ todo \subseteq Pid /\ seen \subseteq Daemon /\ pids \subseteq Pid
  /\ build_id \in [Pid -> Build \cup {None}]
  /\ pc \in {"load", "attach", "tracing"} => osd_path \in {PathOf[ns] : ns \in Ns}
  /\ parser \in [Tables -> Build \cup {None}]
  /\ \A x \in planted : BuildOf(x[2]) \in Build
  /\ replaced \in BOOLEAN

-----------------------------------------------------------------------------
(* The host                                                                *)

Exit(p) ==
  /\ IsRunning(p)
  /\ image' = [image EXCEPT ![p] = 0]
  /\ UNCHANGED <<options, pc, disk, started, todo, seen, build_id, target, parser, planted, json, replaced>>

StartOsd(p) ==
  /\ p \in Daemon \ started /\ disk[NsOf[p]] > 0
  /\ started' = started \cup {p}
  /\ image' = [image EXCEPT ![p] = disk[NsOf[p]]]
  /\ UNCHANGED <<options, pc, disk, todo, seen, build_id, target, parser, planted, json, replaced>>

Replace(ns) ==
  /\ disk[ns] < Len(Installed[ns])
  /\ disk' = [disk EXCEPT ![ns] = @ + 1]
  /\ replaced' = TRUE
  /\ UNCHANGED <<options, pc, image, started, todo, seen, build_id, target, parser, planted, json>>

-----------------------------------------------------------------------------
(* The program                                                             *)

\* What resolve_trace_targets does first with the options.
FirstStep(o) ==
  LET conflict == \/ o.all /\ (o.ps # {} \/ o.ids # {} \/ o.export \/ o.import # None)
                  \/ o.ids # {} /\ o.ps # {}
  IN IF conflict THEN "failed" ELSE IF o.ps # {} THEN "validate" ELSE "discover"

\* There may be no ceph-osd on the host at first.
Init ==
  /\ options \in Options /\ pc = FirstStep(options)
  /\ disk \in [Ns -> {0, 1}] /\ \A ns \in Ns \ {Host} : disk[ns] = 1
  /\ started = {p \in Running : p \in Daemon => disk[NsOf[p]] = 1}
  /\ image = [p \in Pid |-> IF p \in started THEN 1 ELSE 0]
  /\ todo = Pid /\ seen = {} /\ build_id = [p \in Pid |-> None]
  /\ pids = options.ps /\ osd_path = None
  /\ parser = NoData /\ planted = {} /\ json = None /\ replaced = FALSE

AfterDiscovery ==
  IF options.all THEN "annotate" ELSE IF options.ids # {} THEN "ids" ELSE "host"

\* One entry of /proc.
discover_ceph_osd_processes ==
  /\ pc = "discover" /\ todo # {}
  /\ LET p == Min(todo)
     IN /\ seen' = IF IsRunning(p) /\ p \in Daemon THEN seen \cup {p} ELSE seen
        /\ IF todo = {p} THEN todo' = seen' /\ pc' = AfterDiscovery
                         ELSE todo' = todo \ {p} /\ UNCHANGED pc
  /\ UNCHANGED <<options, env, build_id, target, parser, planted, json, replaced>>

find_embedded_match(build) == IF build \in Embedded THEN build ELSE None

\* The file is read through /proc/<pid>/root, which a process that is gone has
\* no more.
annotate_traceability ==
  /\ pc = "annotate"
  /\ IF todo = {} THEN pc' = "all" /\ UNCHANGED <<todo, build_id>>
     ELSE LET p == Min(todo)
          IN /\ todo' = todo \ {p}
             /\ build_id' = [build_id EXCEPT ![p] =
                  IF IsRunning(p) THEN get_elf_build_id(NsOf[p], exe(p)) ELSE None]
             /\ UNCHANGED pc
  /\ UNCHANGED <<options, env, seen, target, parser, planted, json, replaced>>

SomeBuild(traceable) == traceable # {}   \* mutant

OneBuild(traceable) ==
  traceable # {} /\ \A p, q \in traceable : build_id[p] = build_id[q]

select_all_traceable_osds ==
  /\ pc = "all"
  /\ LET traceable == {p \in seen : find_embedded_match(build_id[p]) # None}
     IN IF OneBuild(traceable)
          THEN /\ pids' = traceable /\ pc' = "validate"
               /\ UNCHANGED <<options, env, todo, seen, build_id, osd_path, parser, planted, json, replaced>>
          ELSE Fail

resolve_requested_osd_ids ==
  /\ pc = "ids"
  /\ LET matches(want) == {p \in seen : OsdOf[p] = want}
     IN IF \A want \in options.ids : Cardinality(matches(want)) = 1
          THEN /\ pids' = UNION {matches(want) : want \in options.ids} /\ pc' = "validate"
               /\ UNCHANGED <<options, env, todo, seen, build_id, osd_path, parser, planted, json, replaced>>
          ELSE Fail

\* The processes exist, the first one's path is one of ceph-osd, and the others
\* have the same path.
SameExecutable ==
  /\ \A p \in pids : IsRunning(p) /\ exe(p) = exe(Min(pids))
  /\ Min(pids) \in Daemon

Resolved(path) ==
  /\ osd_path' = path /\ pc' = "deleted" /\ todo' = Pid /\ replaced' = FALSE
  /\ UNCHANGED <<options, env, seen, build_id, pids, parser, planted, json>>

Validate ==
  /\ pc = "validate"
  /\ IF SameExecutable THEN Resolved(exe(Min(pids))) ELSE Fail

find_executable_path == IF disk[Host] > 0 THEN PathOf[Host] ELSE None

Anyway(path) == TRUE   \* mutant

HostBinary(path) == path # None

ResolveHost ==
  /\ pc = "host"
  /\ IF HostBinary(find_executable_path) THEN Resolved(find_executable_path) ELSE Fail

Unmarked(p) == FALSE   \* mutant: as get_exe_path_for_pid

\* The link /proc/<pid>/exe ends in "(deleted)".
Deleted(p) == image[p] # disk[NsOf[p]]

\* One entry of /proc; not for an export.
check_executable_deleted ==
  /\ pc = "deleted"
  /\ LET p == Min(todo)
     IN IF options.export THEN todo' = {} /\ pc' = "load"
        ELSE IF IsRunning(p) /\ p \in Daemon /\ Deleted(p)
          THEN pc' = "failed" /\ UNCHANGED todo
          ELSE /\ todo' = todo \ {p}
               /\ pc' = IF todo' = {} THEN "load" ELSE pc
  /\ UNCHANGED <<options, env, seen, build_id, target, parser, planted, json, replaced>>

\* The host's package database, asked by the base name of the path.
get_package_version ==
  IF disk[Host] > 0 THEN VersionOf[BuildOf(OnDisk(Host))] ELSE None

AnyVersion(file) == TRUE   \* mutant

VersionFits(file) ==
  options.skip \/ (get_package_version # None /\ file.version = get_package_version)

Loaded == IF options.export THEN "version" ELSE "attach"

\* The file's tables; osdtrace's parser is empty before, so that
\* member_offsets, which is not cleared, is empty if the file has none.
import_from_json(file) ==
  /\ options.import = file /\ file # None
  /\ IF VersionFits(file)
       THEN parser' = [t \in Tables |-> IF t \in file.tables THEN file.build ELSE parser[t]]
            /\ pc' = Loaded
       ELSE pc' = "failed" /\ UNCHANGED parser

\* The build-id is read through the first process's root.
EmbeddedMatch ==
  IF pids # {} /\ ~IsRunning(Min(pids)) THEN None
  ELSE find_embedded_match(get_elf_build_id(FirstRoot, osd_path))

import_from_embedded(build) == [t \in Tables |-> build]

\* add_module and parse, of the file at that path on the host.
LiveParse ==
  LET build == get_elf_build_id(Host, osd_path)
  IN IF build \in Symbols THEN [t \in Tables |-> build] ELSE NoData

load_dwarf_data ==
  /\ pc = "load"
  /\ \/ \E file \in {o.import : o \in Options} : import_from_json(file)
     \/ /\ options.import = None
        /\ parser' = IF ~options.export /\ EmbeddedMatch # None
                       THEN import_from_embedded(EmbeddedMatch) ELSE LiveParse
        /\ pc' = Loaded
  /\ UNCHANGED <<options, env, todo, seen, build_id, target, planted, json, replaced>>

\* do_export_json asks for the version, then export_to_json reads the build-id
\* and writes.  A module without tables leaves no entry, and one that was imported
\* no build-id, for want of a path.
ExportVersion ==
  /\ pc = "version"
  /\ json' = [version |-> get_package_version, tables |-> None, build |-> None]
  /\ pc' = "export"
  /\ UNCHANGED <<options, env, todo, seen, build_id, target, parser, planted, replaced>>

TargetBuild == get_elf_build_id(FirstRoot, osd_path)   \* mutant

ModuleBuild == get_elf_build_id(Host, osd_path)

export_to_json ==
  /\ pc = "export"
  /\ json' = IF parser = NoData THEN json
             ELSE [json EXCEPT !.tables = parser["func2vf"], 
                                       !.build = IF options.import = None THEN ModuleBuild ELSE None]
  /\ pc' = "exported"
  /\ UNCHANGED <<options, env, todo, seen, build_id, target, parser, planted, replaced>>

\* run_tracer: each process gets its probes, in the file its path leads to in its
\* own namespace.  With no process selected the probes are in the host's file,
\* for all that run it.
Left == {p \in pids : \A x \in planted : x[1] # p}
Plant(who, ns) == planted' = planted \cup {<< who, OnDisk(ns) >>}

\* Without the size of OSDOp the program ends.  A process that is gone fails
\* every row of ATTACH_LIST.
Attachable ==
  /\ parser["type_sizes"] # None /\ parser["func2vf"] # None
  /\ IF pids = {} THEN disk[Host] > 0
                  ELSE IsRunning(Min(Left)) /\ disk[NsOf[Min(Left)]] > 0

attach_probes ==
  /\ pc = "attach"
  /\ \/ ~Attachable /\ pc' = "failed" /\ UNCHANGED planted
     \/ Attachable /\ pids = {} /\ Plant(AnyProcess, Host) /\ pc' = "tracing"
     \/ /\ Attachable /\ pids # {} /\ Plant(Min(Left), NsOf[Min(Left)])
        /\ pc' = IF Left = {Min(Left)} THEN "tracing" ELSE pc
  /\ UNCHANGED <<options, env, todo, seen, build_id, target, parser, json, replaced>>

Main ==
  \/ discover_ceph_osd_processes \/ annotate_traceability
  \/ select_all_traceable_osds \/ resolve_requested_osd_ids
  \/ Validate \/ ResolveHost \/ check_executable_deleted
  \/ load_dwarf_data \/ ExportVersion \/ export_to_json \/ attach_probes

\* Once the probes are in place nothing here changes them.
Next ==
  /\ pc \notin {"tracing", "exported", "failed"}
  /\ Main \/ (\E p \in Pid : Exit(p) \/ StartOsd(p)) \/ (\E ns \in Ns : Replace(ns))

Spec == Init /\ [][Next]_vars

-----------------------------------------------------------------------------
(* What the start has to get right                                         *)

\* The handlers of a process of build b, with data of build d, read every field
\* where the process keeps it, and find the members of OSDOp.
FieldsRight(d, b) ==
  LET hprobes == fill_map_hprobes(Debug[d])
  IN \A f \in Probed : \A read \in Reads[f] :
       LET wanted == CHOOSE path \in Range(osd_probes[f]) : Last(path) = read[2]
       IN /\ read[1] \in DOMAIN hprobes
          /\ read_hprobe_varfield(hprobes, read[1], Regs)
               = FieldAddress(Debug[b], f, wanted, Regs)

OpsRight(d, b) ==
  \A i \in DOMAIN OpMembers :
    resolve_member_offset(Debug[d], "OSDOp", OpMembers[i]).offset = Debug[b].offsetof[i]

RightFor == {x \in Build \X Build : FieldsRight(x[1], x[2]) /\ OpsRight(x[1], x[2])}

\* The data describes the file of every probe planted.
DataFits == \A x \in planted : \A t \in Tables : << parser[t], BuildOf(x[2]) >> \in RightFor

Tracing == pc = "tracing" /\ ~replaced

\* -a: "The BPF probe offsets are version-specific ... so -a assumes every
\* traceable OSD shares a single build" (osdtrace.cc:1286).  Whichever processes
\* exit and start while they are discovered, annotated and selected, and
\* whichever packages are replaced up to the check for old images, the handlers
\* read every field where the traced process keeps it.
AllReadOwnFields == Tracing /\ options.all => DataFits

\* The other modes, on processes of one namespace: the same, if the build is
\* compiled in or the processes run on the host; and with -i if they run on the
\* host, the version was compared, the file has all tables, and packages of one
\* version hold one build (import_from_json).  A live parse reads the host's file
\* also for a container, and -p and --id let containers with different builds
\* through.
OneTargetReadsOwnFields ==
  /\ Tracing /\ ~options.all /\ ~options.skip
  /\ options.import # None => options.import.tables = Tables
  /\ \E ns \in Ns : \A x \in planted :
       /\ x[2][1] = ns
       /\ ns = Host \/ (options.import = None /\ BuildOf(x[2]) \in Embedded)
  => DataFits

\* A selected process that still runs maps the file its probes are in: it is not
\* silent because its package was replaced before osdtrace was started.
SelectedAreSeen ==
  Tracing => \A x \in planted, p \in Pid :
    /\ IsRunning(p) /\ p \in Daemon
    /\ p = x[1] \/ (x[1] = AnyProcess /\ NsOf[p] = Host)
    => File(p) = x[2]

\* -j: the version, the build-id and the tables of the file describe one build,
\* also when it is the path of a container's process that is exported, or what
\* was imported with the version check (export_to_json).
ExportedTogether ==
  pc = "exported" /\ ~replaced /\ ~options.skip /\ json.tables # None =>
    /\ json.version = VersionOf[json.tables]
    /\ options.import = None => json.build = json.tables
=============================================================================
