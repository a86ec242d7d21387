------------------------- MODULE TraceTargetsProofs -------------------------
(***************************************************************************)
(* What the start of osdtrace gets right, for any processes, namespaces,   *)
(* builds and options: the data loaded describes the files planted in, and *)
(* the processes selected map them.                                        *)
(***************************************************************************)
EXTENDS TraceTargets, TLAPS, NaturalsInduction, WellFoundedInduction, FiniteSetTheorems

LEMMA MinIn ==
  ASSUME NEW S \in SUBSET Nat, S # {}
  PROVE  Min(S) \in S
<1> DEFINE less == {ss \in Nat \X Nat : ss[1] < ss[2]}
<1>1. PICK x \in S : \A y \in S : <<y, x>> \notin less
  BY NatLessThanWellFounded, WFMin DEF OpToRel
<1>2. ASSUME NEW y \in S  PROVE x <= y
  <2>1. x \in Nat /\ y \in Nat /\ <<y, x>> \notin less
    BY <1>1
  <2>2. <<y, x>> \in Nat \X Nat /\ <<y, x>>[1] = y /\ <<y, x>>[2] = x
    BY <2>1
  <2>3. ~ (y < x)
    BY <2>1, <2>2, Zenon
  <2> QED
    BY <2>1, <2>3
<1> QED
  BY <1>2 DEF Min

-----------------------------------------------------------------------------
(* Types                                                                   *)

Choosing == {"discover", "annotate", "all", "ids", "host"}
Chosen == {"deleted", "load", "version", "export", "attach", "tracing", "exported"}

Plants == {x \in (Pid \cup {AnyProcess}) \X (Ns \X Nat) :
             x[2][2] \in 1 .. Len(Installed[x[2][1]])}

HostInv ==
  /\ disk \in [Ns -> Nat] /\ \A ns \in Ns : disk[ns] \in 0 .. Len(Installed[ns])
  /\ image \in [Pid -> Nat] /\ started \subseteq Pid
  /\ \A p \in Pid : IsRunning(p) => p \in started
  /\ \A p \in Daemon : image[p] <= disk[NsOf[p]]

ProgramInv ==
  /\ options \in Options /\ pc \in PCs
  /\ todo \subseteq Pid /\ seen \subseteq Daemon /\ pids \subseteq Pid
  /\ build_id \in [Pid -> Build \cup {None}]
  /\ parser \in [Tables -> Build \cup {None}]
  /\ planted \subseteq Plants
  /\ replaced \in BOOLEAN

\* What is known where the program is.
PlaceInv ==
  /\ pc \in {"discover", "deleted"} => todo # {}
  /\ pc = "annotate" => todo \subseteq seen
  /\ pc \in Choosing => pids = {}
  /\ pc = "ids" => options.ids # {}
  /\ pc = "validate" => pids # {}
  /\ pc \in Chosen => osd_path = PathOf[FirstRoot]
  /\ pc \in {"attach", "tracing"} => ~options.export
  /\ planted # {} => pc \in {"attach", "tracing", "failed"}
  /\ pc = "attach" /\ pids # {} => Left # {}

TypeInv == HostInv /\ ProgramInv /\ PlaceInv

LEMMA Constants ==
  /\ Build \subseteq Build \cup {None} /\ None \notin Build
  /\ Embedded \subseteq Build /\ Symbols \subseteq Build
  /\ Host \in Ns /\ Pid \in SUBSET Nat /\ Pid # {} /\ AnyProcess \notin Pid
  /\ Daemon \subseteq Pid /\ AnyProcess = 0
  /\ \A p \in Pid : NsOf[p] \in Ns
  /\ \A ns \in Ns : Len(Installed[ns]) \in Nat \ {0}
  /\ \A ns \in Ns : \A n \in 1 .. Len(Installed[ns]) : Installed[ns][n] \in Build
  /\ \A o \in Options : o.ps \subseteq Pid
<1>1. \A ns \in Ns : Installed[ns] \in Seq(Build)
  BY TargetAssumption DEF TargetAssumption
<1>2. \A ns \in Ns : Len(Installed[ns]) \in Nat \ {0}
  BY <1>1, TargetAssumption DEF TargetAssumption
<1>3. \A ns \in Ns : \A n \in 1 .. Len(Installed[ns]) : Installed[ns][n] \in Build
  BY <1>1
<1>4. Pid \in SUBSET Nat /\ AnyProcess \notin Pid
  BY TargetAssumption DEF TargetAssumption
<1> QED
  BY <1>2, <1>3, <1>4, TargetAssumption DEF TargetAssumption, AnyProcess

LEMMA InitTyped == Init => TypeInv
<1> SUFFICES ASSUME Init  PROVE TypeInv
  OBVIOUS
<1> USE Constants
<1>1. HostInv
  <2>1. disk \in [Ns -> Nat] /\ \A ns \in Ns : disk[ns] \in 0 .. Len(Installed[ns])
    BY DEF Init
  <2>2. image = [p \in Pid |-> IF p \in started THEN 1 ELSE 0] /\ started \subseteq Pid
    BY TargetAssumption DEF Init, TargetAssumption
  <2>3. \A p \in Daemon : p \in started => disk[NsOf[p]] = 1
    BY DEF Init
  <2>4. \A p \in Daemon : image[p] <= disk[NsOf[p]]
    BY <2>1, <2>2, <2>3
  <2> QED
    BY <2>1, <2>2, <2>4 DEF HostInv, IsRunning
<1>2. options \in Options /\ pc = FirstStep(options) /\ options.ps \subseteq Pid /\ pids = options.ps
  BY DEF Init
<1>3. pc \in {"failed", "validate", "discover"}
      /\ (pc = "validate" => pids # {}) /\ (pc = "discover" => pids = {})
  BY <1>2 DEF FirstStep
<1>4. ProgramInv
  BY <1>2, <1>3 DEF Init, ProgramInv, PCs, NoData
<1>5. PlaceInv
  BY <1>3 DEF Init, PlaceInv, Choosing, Chosen
<1> QED
  BY <1>1, <1>4, <1>5 DEF TypeInv

-----------------------------------------------------------------------------
(* Steps                                                                   *)

LEMMA MinOfPids ==
  ASSUME NEW S \in SUBSET Pid, S # {}
  PROVE  Min(S) \in S
BY MinIn, Constants

LEMMA RootTyped ==
  ASSUME pids \subseteq Pid
  PROVE  FirstRoot \in Ns /\ (pids # {} => Min(pids) \in pids /\ FirstRoot = NsOf[Min(pids)])
BY MinOfPids, Constants DEF FirstRoot

\* The file of a path in a namespace is of a build, or there is none.
LEMMA BuildRead ==
  ASSUME HostInv, NEW ns \in Ns, NEW path
  PROVE  /\ get_elf_build_id(ns, path) \in Build \cup {None}
         /\ disk[ns] > 0 => BuildOf(OnDisk(ns)) \in Build
         /\ get_elf_build_id(ns, path) # None =>
              disk[ns] > 0 /\ path = PathOf[ns] /\ get_elf_build_id(ns, path) = BuildOf(OnDisk(ns))
         /\ disk[ns] > 0 => get_elf_build_id(ns, PathOf[ns]) = BuildOf(OnDisk(ns))
<1>1. disk[ns] \in Nat /\ (disk[ns] > 0 => disk[ns] \in 1 .. Len(Installed[ns]))
  BY Constants DEF HostInv
<1>2. disk[ns] > 0 => BuildOf(OnDisk(ns)) \in Build
  BY <1>1, Constants DEF BuildOf, OnDisk
<1> QED
  BY <1>2 DEF get_elf_build_id

LEMMA HostKept ==
  ASSUME HostInv, UNCHANGED env
  PROVE  HostInv'
BY DEF HostInv, env, IsRunning

LEMMA ExitTyped ==
  ASSUME HostInv, NEW p \in Pid, Exit(p)
  PROVE  HostInv'
<1>1. image' \in [Pid -> Nat] /\ \A q \in Pid : image'[q] = 0 \/ image'[q] = image[q]
  BY DEF HostInv, Exit
<1>2. disk' = disk /\ started' = started
  BY DEF Exit
<1>3. \A q \in Daemon : image'[q] <= disk'[NsOf[q]]
  BY <1>1, <1>2, Constants DEF HostInv
<1> QED
  BY <1>1, <1>2, <1>3 DEF HostInv, IsRunning

LEMMA StartTyped ==
  ASSUME HostInv, NEW p \in Pid, StartOsd(p)
  PROVE  HostInv'
<1>1. p \in Daemon /\ NsOf[p] \in Ns /\ disk[NsOf[p]] \in Nat
  BY Constants DEF StartOsd, HostInv
<1>2. image' \in [Pid -> Nat] /\ image'[p] = disk[NsOf[p]]
      /\ \A q \in Pid \ {p} : image'[q] = image[q]
  BY <1>1 DEF HostInv, StartOsd
<1>3. disk' = disk /\ started' = started \cup {p}
  BY DEF StartOsd
<1>4. \A q \in Daemon : image'[q] <= disk'[NsOf[q]]
  BY <1>1, <1>2, <1>3, Constants DEF HostInv
<1> QED
  BY <1>1, <1>2, <1>3, <1>4, Constants DEF HostInv, IsRunning

LEMMA ReplaceTyped ==
  ASSUME HostInv, NEW ns \in Ns, Replace(ns)
  PROVE  HostInv'
<1>1. disk' = [disk EXCEPT ![ns] = @ + 1] /\ image' = image /\ started' = started
      /\ disk[ns] < Len(Installed[ns]) /\ disk[ns] \in Nat
  BY DEF Replace, HostInv
<1>2. disk' \in [Ns -> Nat] /\ \A m \in Ns : disk'[m] \in 0 .. Len(Installed[m]) /\ disk[m] <= disk'[m]
  BY <1>1, Constants DEF HostInv
<1>3. \A p \in Daemon : image'[p] <= disk'[NsOf[p]]
  <2> SUFFICES ASSUME NEW p \in Daemon
               PROVE  image[p] <= disk'[NsOf[p]]
    BY <1>1
  <2>1. NsOf[p] \in Ns /\ image[p] \in Nat /\ image[p] <= disk[NsOf[p]]
    BY Constants DEF HostInv
  <2>2. disk[NsOf[p]] \in Nat /\ disk'[NsOf[p]] \in Nat /\ disk[NsOf[p]] <= disk'[NsOf[p]]
    BY <2>1, <1>2 DEF HostInv
  <2> QED
    BY <2>1, <2>2
<1> QED
  BY <1>1, <1>2, <1>3 DEF HostInv, IsRunning

\* The host's steps leave the program alone.
LEMMA HostLeavesProgram ==
  ASSUME TypeInv,
         UNCHANGED <<options, pc, todo, seen, build_id, target, parser, planted, json>>,
         replaced' \in BOOLEAN
  PROVE  ProgramInv' /\ PlaceInv'
BY DEF TypeInv, ProgramInv, PlaceInv, FirstRoot, Left, target

LEMMA DiscoverTyped ==
  ASSUME TypeInv, discover_ceph_osd_processes
  PROVE  ProgramInv' /\ PlaceInv'
<1> DEFINE p == Min(todo)
<1>1. p \in todo /\ todo \subseteq Pid
  BY MinOfPids DEF TypeInv, ProgramInv, PlaceInv, discover_ceph_osd_processes
<1> HIDE DEF p
<1>2. seen' = IF IsRunning(p) /\ p \in Daemon THEN seen \cup {p} ELSE seen
  BY DEF discover_ceph_osd_processes, p
<1>3. seen' \subseteq Daemon
  BY <1>2 DEF TypeInv, ProgramInv
<1>4. \/ todo' = seen' /\ pc' = AfterDiscovery
      \/ todo' = todo \ {p} /\ todo' # {} /\ pc' = "discover"
  BY <1>1 DEF discover_ceph_osd_processes, p
<1>5. AfterDiscovery \in {"annotate", "ids", "host"} /\ (AfterDiscovery = "ids" => options.ids # {})
  BY DEF AfterDiscovery
<1>6. pc = "discover" /\ UNCHANGED <<options, env, build_id, target, parser, planted, json, replaced>>
  BY DEF discover_ceph_osd_processes
<1>7. pc' \in {"discover", "annotate", "ids", "host"} /\ todo' \subseteq Pid
      /\ (pc' = "discover" => todo' # {}) /\ (pc' = "annotate" => todo' \subseteq seen')
      /\ (pc' = "ids" => options.ids # {})
  BY <1>1, <1>3, <1>4, <1>5, Constants
<1>8. ProgramInv'
  BY <1>3, <1>6, <1>7 DEF TypeInv, ProgramInv, PCs, target
<1>9. PlaceInv'
  BY <1>6, <1>7 DEF TypeInv, PlaceInv, Choosing, Chosen, target
<1> QED
  BY <1>8, <1>9

LEMMA AnnotateTyped ==
  ASSUME TypeInv, annotate_traceability
  PROVE  ProgramInv' /\ PlaceInv'
<1>1. pc = "annotate" /\ UNCHANGED <<options, env, seen, target, parser, planted, json, replaced>>
  BY DEF annotate_traceability
<1>2. CASE todo = {}
  <2>1. pc' = "all" /\ UNCHANGED <<todo, build_id>>
    BY <1>2 DEF annotate_traceability
  <2> QED
    BY <1>1, <2>1 DEF TypeInv, ProgramInv, PlaceInv, PCs, Choosing, Chosen, target
<1>3. CASE todo # {}
  <2> DEFINE p == Min(todo)
             read == IF IsRunning(p) THEN get_elf_build_id(NsOf[p], exe(p)) ELSE None
  <2>1. p \in todo /\ p \in Pid
    BY <1>3, MinOfPids DEF TypeInv, ProgramInv
  <2>2. pc' = pc /\ todo' = todo \ {p} /\ build_id' = [build_id EXCEPT ![p] = read]
    BY <1>3 DEF annotate_traceability
  <2>3. read \in Build \cup {None}
    BY <2>1, BuildRead, Constants DEF TypeInv
  <2> HIDE DEF p, read
  <2> QED
    BY <1>1, <2>1, <2>2, <2>3 DEF TypeInv, ProgramInv, PlaceInv, PCs, Choosing, Chosen, target
<1> QED
  BY <1>2, <1>3

LEMMA FailTyped ==
  ASSUME TypeInv, Fail
  PROVE  ProgramInv' /\ PlaceInv'
BY DEF TypeInv, ProgramInv, PlaceInv, Fail, PCs, Choosing, Chosen, target

LEMMA SelectAllTyped ==
  ASSUME TypeInv, select_all_traceable_osds
  PROVE  ProgramInv' /\ PlaceInv'
<1> DEFINE traceable == {p \in seen : find_embedded_match(build_id[p]) # None}
<1>1. CASE ~ OneBuild(traceable)
  BY <1>1, FailTyped DEF select_all_traceable_osds
<1>2. CASE OneBuild(traceable)
  <2>1. traceable \subseteq Pid /\ traceable # {}
    BY <1>2, Constants DEF TypeInv, ProgramInv, OneBuild
  <2>2. pids' = traceable /\ pc' = "validate" /\ pc = "all"
        /\ UNCHANGED <<options, env, todo, seen, build_id, osd_path, parser, planted, json, replaced>>
    BY <1>2 DEF select_all_traceable_osds
  <2> HIDE DEF traceable
  <2> QED
    BY <2>1, <2>2 DEF TypeInv, ProgramInv, PlaceInv, PCs, Choosing, Chosen
<1> QED
  BY <1>1, <1>2

LEMMA RequestedTyped ==
  ASSUME TypeInv, resolve_requested_osd_ids
  PROVE  ProgramInv' /\ PlaceInv'
<1> DEFINE matches(want) == {p \in seen : OsdOf[p] = want}
           found == UNION {matches(want) : want \in options.ids}
<1>1. CASE ~ \A want \in options.ids : Cardinality(matches(want)) = 1
  BY <1>1, FailTyped DEF resolve_requested_osd_ids
<1>2. CASE \A want \in options.ids : Cardinality(matches(want)) = 1
  <2>1. pids' = found /\ pc' = "validate" /\ pc = "ids"
        /\ UNCHANGED <<options, env, todo, seen, build_id, osd_path, parser, planted, json, replaced>>
    BY <1>2 DEF resolve_requested_osd_ids
  <2>2. PICK want \in options.ids : TRUE
    BY <2>1 DEF TypeInv, PlaceInv
  <2>3. matches(want) # {}
    <3>1. Cardinality(matches(want)) = 1
      BY <1>2
    <3> QED
      BY <3>1, FS_EmptySet
  <2>4. found \subseteq Pid
    <3>1. found \subseteq seen
      OBVIOUS
    <3>2. seen \subseteq Pid
      BY Constants DEF TypeInv, ProgramInv
    <3> QED
      BY <3>1, <3>2
  <2>5. found # {}
    <3>1. matches(want) \subseteq found
      BY <2>2
    <3> QED
      BY <2>3, <3>1
  <2> HIDE DEF found
  <2> QED
    BY <2>1, <2>4, <2>5 DEF TypeInv, ProgramInv, PlaceInv, PCs, Choosing, Chosen
<1> QED
  BY <1>1, <1>2

LEMMA ResolvedTyped ==
  ASSUME TypeInv, pc \in {"validate", "host"}, Resolved(PathOf[FirstRoot])
  PROVE  ProgramInv' /\ PlaceInv'
BY Constants DEF TypeInv, ProgramInv, PlaceInv, Resolved, PCs, Choosing, Chosen, FirstRoot, Left

LEMMA ValidateTyped ==
  ASSUME TypeInv, Validate
  PROVE  ProgramInv' /\ PlaceInv'
<1>1. CASE SameExecutable
  <2>1. pids # {} /\ Min(pids) \in Daemon
    BY <1>1 DEF Validate, SameExecutable, TypeInv, PlaceInv
  <2>2. exe(Min(pids)) = PathOf[FirstRoot]
    BY <2>1, RootTyped DEF TypeInv, ProgramInv, exe
  <2> QED
    BY <1>1, <2>2, ResolvedTyped DEF Validate
<1>2. CASE ~ SameExecutable
  BY <1>2, FailTyped DEF Validate
<1> QED
  BY <1>1, <1>2

LEMMA HostTyped ==
  ASSUME TypeInv, ResolveHost
  PROVE  ProgramInv' /\ PlaceInv'
<1>1. CASE HostBinary(find_executable_path)
  <2>1. find_executable_path = PathOf[Host]
    BY <1>1 DEF HostBinary, find_executable_path
  <2>2. pids = {} /\ FirstRoot = Host
    BY DEF ResolveHost, TypeInv, PlaceInv, Choosing, FirstRoot
  <2> QED
    BY <1>1, <2>1, <2>2, ResolvedTyped DEF ResolveHost
<1>2. CASE ~ HostBinary(find_executable_path)
  BY <1>2, FailTyped DEF ResolveHost
<1> QED
  BY <1>1, <1>2

LEMMA DeletedTyped ==
  ASSUME TypeInv, check_executable_deleted
  PROVE  ProgramInv' /\ PlaceInv'
<1>1. pc = "deleted" /\ UNCHANGED <<options, env, seen, build_id, target, parser, planted, json, replaced>>
  BY DEF check_executable_deleted
<1>2. /\ todo' \subseteq todo
      /\ pc' \in {"load", "failed", "deleted"}
      /\ pc' = "deleted" => todo' # {}
  BY <1>1 DEF check_executable_deleted, TypeInv, PlaceInv
<1> QED
  BY <1>1, <1>2 DEF TypeInv, ProgramInv, PlaceInv, PCs, Choosing, Chosen, target, FirstRoot

\* What load_dwarf_data leaves: the parser is filled from builds.
LEMMA LoadCases ==
  ASSUME TypeInv, load_dwarf_data
  PROVE  /\ pc = "load" /\ planted = {}
         /\ UNCHANGED <<options, env, todo, seen, build_id, target, planted, json, replaced>>
         /\ parser' \in [Tables -> Build \cup {None}]
         /\ pc' \in {Loaded, "failed"}
<1>1. pc = "load" /\ planted = {}
      /\ UNCHANGED <<options, env, todo, seen, build_id, target, planted, json, replaced>>
  BY DEF load_dwarf_data, TypeInv, PlaceInv
<1>2. CASE \E file \in {o.import : o \in Options} : import_from_json(file)
  <2>1. PICK file \in {o.import : o \in Options} : import_from_json(file)
    BY <1>2
  <2>2. file.build \in Build
    BY <2>1, TargetAssumption DEF TargetAssumption, import_from_json
  <2>3. parser \in [Tables -> Build \cup {None}]
    BY DEF TypeInv, ProgramInv
  <2> QED
    BY <1>1, <2>1, <2>2, <2>3 DEF import_from_json
<1>3. CASE /\ options.import = None
           /\ parser' = IF ~options.export /\ EmbeddedMatch # None
                          THEN import_from_embedded(EmbeddedMatch) ELSE LiveParse
           /\ pc' = Loaded
  <2>1. EmbeddedMatch # None => EmbeddedMatch \in Build
    BY Constants DEF EmbeddedMatch, find_embedded_match
  <2>2. LiveParse \in [Tables -> Build \cup {None}]
    BY Constants DEF LiveParse, NoData
  <2> QED
    BY <1>1, <1>3, <2>1, <2>2 DEF import_from_embedded
<1> QED
  BY <1>2, <1>3 DEF load_dwarf_data

LEMMA LoadTyped ==
  ASSUME TypeInv, load_dwarf_data
  PROVE  ProgramInv' /\ PlaceInv'
<1>1. pc' \in {"attach", "version", "failed"} /\ (pc' = "attach" => ~options.export)
  BY LoadCases DEF Loaded
<1>2. ProgramInv'
  BY <1>1, LoadCases DEF TypeInv, ProgramInv, PCs, target
<1>3. PlaceInv'
  BY <1>1, LoadCases DEF TypeInv, PlaceInv, Choosing, Chosen, target, FirstRoot, Left
<1> QED
  BY <1>2, <1>3

LEMMA VersionTyped ==
  ASSUME TypeInv, ExportVersion
  PROVE  ProgramInv' /\ PlaceInv'
BY DEF TypeInv, ProgramInv, PlaceInv, ExportVersion, PCs, Choosing, Chosen, target, FirstRoot

LEMMA ExportTyped ==
  ASSUME TypeInv, export_to_json
  PROVE  ProgramInv' /\ PlaceInv'
BY DEF TypeInv, ProgramInv, PlaceInv, export_to_json, PCs, Choosing, Chosen, target, FirstRoot

\* The ways run_tracer goes on: it ends, or it plants in the host's file, or in
\* the file of the next process.
LEMMA AttachCases ==
  ASSUME TypeInv, attach_probes
  PROVE  /\ pc = "attach"
         /\ UNCHANGED <<options, env, todo, seen, build_id, target, parser, json, replaced>>
         /\ pc' = "failed" \/ Attachable
         /\ \/ pc' = "failed" /\ planted' = planted
            \/ /\ pids = {} /\ disk[Host] > 0 /\ pc' = "tracing"
               /\ planted' = planted \cup {<< AnyProcess, OnDisk(Host) >>}
            \/ \E p \in Left :
                 /\ planted = {} => p = Min(pids)
                 /\ p \in pids /\ IsRunning(p) /\ disk[NsOf[p]] > 0
                 /\ planted' = planted \cup {<< p, OnDisk(NsOf[p]) >>}
                 /\ Left' = Left \ {p}
                 /\ pc' = IF Left = {p} THEN "tracing" ELSE "attach"
<1>1. pc = "attach" /\ UNCHANGED <<options, env, todo, seen, build_id, target, parser, json, replaced>>
  BY DEF attach_probes
<1>0. pc' = "failed" \/ Attachable
  BY DEF attach_probes
<1> DEFINE p == Min(Left)
<1>2. \/ pc' = "failed" /\ planted' = planted
      \/ /\ pids = {} /\ disk[Host] > 0 /\ pc' = "tracing"
         /\ planted' = planted \cup {<< AnyProcess, OnDisk(Host) >>}
      \/ /\ pids # {} /\ IsRunning(p) /\ disk[NsOf[p]] > 0
         /\ planted' = planted \cup {<< p, OnDisk(NsOf[p]) >>}
         /\ pc' = IF Left = {p} THEN "tracing" ELSE "attach"
  BY <1>1 DEF attach_probes, Attachable, Plant
<1>3. CASE /\ pids # {} /\ IsRunning(p) /\ disk[NsOf[p]] > 0
           /\ planted' = planted \cup {<< p, OnDisk(NsOf[p]) >>}
           /\ pc' = IF Left = {p} THEN "tracing" ELSE "attach"
  <2>1. Left # {} /\ Left \subseteq pids /\ pids \subseteq Pid
    BY <1>1, <1>3 DEF TypeInv, PlaceInv, ProgramInv, Left
  <2>2. p \in Left
    BY <2>1, MinOfPids
  <2>4. planted = {} => p = Min(pids)
    <3>1. planted = {} => Left = pids
      BY DEF Left
    <3> QED
      BY <3>1
  <2> HIDE DEF p
  <2>3. Left' = Left \ {p}
    <3>1. pids' = pids /\ << p, OnDisk(NsOf[p]) >>[1] = p
      BY <1>1 DEF target
    <3>2. ASSUME NEW q
          PROVE  (\A x \in planted' : x[1] # q) <=> (\A x \in planted : x[1] # q) /\ q # p
      BY <1>3, <3>1
    <3> QED
      BY <3>1, <3>2 DEF Left
  <2> QED
    BY <1>0, <1>1, <1>3, <2>1, <2>2, <2>3, <2>4
<1> QED
  BY <1>0, <1>1, <1>2, <1>3

LEMMA AttachTyped ==
  ASSUME TypeInv, attach_probes
  PROVE  ProgramInv' /\ PlaceInv'
<1>1. pc = "attach" /\ ~options.export /\ osd_path = PathOf[FirstRoot]
      /\ UNCHANGED <<options, env, todo, seen, build_id, target, parser, json, replaced>>
  BY AttachCases DEF TypeInv, PlaceInv, Chosen
<1>2. FirstRoot' = FirstRoot
  BY <1>1 DEF FirstRoot, target
<1>3. CASE pc' = "failed" /\ planted' = planted
  BY <1>1, <1>3 DEF TypeInv, ProgramInv, PlaceInv, PCs, Choosing, Chosen, target
<1>4. CASE /\ pids = {} /\ disk[Host] > 0 /\ pc' = "tracing"
           /\ planted' = planted \cup {<< AnyProcess, OnDisk(Host) >>}
  <2>1. << AnyProcess, OnDisk(Host) >> \in Plants
    BY <1>4, Constants DEF Plants, OnDisk, TypeInv, HostInv
  <2> QED
    BY <1>1, <1>2, <1>4, <2>1 DEF TypeInv, ProgramInv, PlaceInv, PCs, Choosing, Chosen, target
<1>5. CASE \E p \in Left :
             /\ p \in pids /\ IsRunning(p) /\ disk[NsOf[p]] > 0
             /\ planted' = planted \cup {<< p, OnDisk(NsOf[p]) >>}
             /\ Left' = Left \ {p}
             /\ pc' = IF Left = {p} THEN "tracing" ELSE "attach"
  <2>1. PICK p \in Left :
             /\ p \in pids /\ IsRunning(p) /\ disk[NsOf[p]] > 0
             /\ planted' = planted \cup {<< p, OnDisk(NsOf[p]) >>}
             /\ Left' = Left \ {p}
             /\ pc' = IF Left = {p} THEN "tracing" ELSE "attach"
    BY <1>5
  <2>2. p \in Pid /\ NsOf[p] \in Ns
    BY <2>1, Constants DEF TypeInv, ProgramInv
  <2>3. << p, OnDisk(NsOf[p]) >> \in Plants
    BY <2>1, <2>2 DEF Plants, OnDisk, TypeInv, HostInv
  <2>4. pc' = "attach" => Left' # {}
    BY <2>1
  <2>5. ProgramInv'
    BY <1>1, <2>1, <2>3 DEF TypeInv, ProgramInv, PCs, target
  <2>6. PlaceInv'
    BY <1>1, <1>2, <2>1, <2>4 DEF PlaceInv, Choosing, Chosen, target
  <2> QED
    BY <2>5, <2>6
<1> QED
  BY <1>3, <1>4, <1>5, AttachCases

LEMMA TypeStep ==
  ASSUME TypeInv, [Next]_vars
  PROVE  TypeInv'
<1>1. CASE UNCHANGED vars
  BY <1>1 DEF vars, env, target, TypeInv, HostInv, ProgramInv, PlaceInv, IsRunning, FirstRoot, Left
<1>2. CASE Main
  <2>1. UNCHANGED env
    BY <1>2 DEF Main, discover_ceph_osd_processes, annotate_traceability, select_all_traceable_osds,
         resolve_requested_osd_ids, Validate, ResolveHost, Resolved, Fail, check_executable_deleted,
         load_dwarf_data, ExportVersion, export_to_json, attach_probes
  <2>2. ProgramInv' /\ PlaceInv'
    BY <1>2, DiscoverTyped, AnnotateTyped, SelectAllTyped, RequestedTyped, ValidateTyped, HostTyped,
       DeletedTyped, LoadTyped, VersionTyped, ExportTyped, AttachTyped DEF Main
  <2> QED
    BY <2>1, <2>2, HostKept DEF TypeInv
<1>3. ASSUME NEW p \in Pid, Exit(p)
      PROVE  TypeInv'
  BY <1>3, ExitTyped, HostLeavesProgram DEF TypeInv, ProgramInv, Exit
<1>4. ASSUME NEW p \in Pid, StartOsd(p)
      PROVE  TypeInv'
  BY <1>4, StartTyped, HostLeavesProgram DEF TypeInv, ProgramInv, StartOsd
<1>5. ASSUME NEW ns \in Ns, Replace(ns)
      PROVE  TypeInv'
  BY <1>5, ReplaceTyped, HostLeavesProgram DEF TypeInv, Replace
<1> QED
  BY <1>1, <1>2, <1>3, <1>4, <1>5 DEF Next

\* Every variable of the start has its type; what is traced is the path of a
\* ceph-osd of some namespace, and every probe is in a file of a build that was
\* installed, whatever exits, starts and is replaced (resolve_trace_targets to
\* run_tracer).
THEOREM TypeCorrect == Spec => []TypeOK
<1>1. ASSUME TypeInv
      PROVE  TypeOK
  <2>1. pc \in {"load", "attach", "tracing"} => osd_path \in {PathOf[ns] : ns \in Ns}
    BY <1>1, RootTyped DEF TypeInv, ProgramInv, PlaceInv, Chosen
  <2>2. \A x \in planted : BuildOf(x[2]) \in Build
    BY <1>1, Constants DEF TypeInv, ProgramInv, Plants, BuildOf
  <2> QED
    BY <1>1, <2>1, <2>2 DEF TypeInv, HostInv, ProgramInv, TypeOK
<1> QED
  BY <1>1, InitTyped, TypeStep, PTL DEF Spec
-----------------------------------------------------------------------------
(* What holds on the way                                                   *)

Before == Choosing \cup {"validate", "deleted", "load"}
After == {"attach", "tracing", "version", "export", "exported"}

\* The build-id read for a process that still runs is that of the package it was
\* started from or of one installed after it.
ReadInv ==
  /\ pc \in Chosen => pids \subseteq started
  /\ \A p \in Daemon : build_id[p] # None =>
       /\ p \in started
       /\ IsRunning(p) => \E n \in image[p] .. disk[NsOf[p]] : build_id[p] = BuildOf(<< NsOf[p], n >>)

\* With -a the processes selected are of one build that is compiled in.
ChoiceInv ==
  options.all =>
    /\ pc # "failed" => options.import = None /\ ~options.export
    /\ pc \notin {"ids", "host"}
    /\ pc \in Chosen \cup {"validate"} =>
         /\ pids # {} /\ pids \subseteq Daemon
         /\ \A p \in pids : build_id[p] \in Embedded
         /\ \A p, q \in pids : build_id[p] = build_id[q]

\* The processes the loop has come to run the package that is installed.
FreshInv ==
  ~replaced /\ ~options.export =>
    /\ pc = "deleted" => \A p \in Daemon \ todo : IsRunning(p) => image[p] = disk[NsOf[p]]
    /\ pc \in {"load", "attach", "tracing"} =>
         \A p \in Daemon : IsRunning(p) => image[p] = disk[NsOf[p]]

PlaceOf(who) == IF who = AnyProcess THEN Host ELSE NsOf[who]

PlantedInv ==
  pc \in {"attach", "tracing"} =>
    /\ planted # {} => parser["type_sizes"] # None
    /\ pc = "tracing" => Left = {}
    /\ \A x \in planted : IF pids = {} THEN x[1] = AnyProcess ELSE x[1] \in pids
    /\ ~replaced => \A x \in planted : x[2] = OnDisk(PlaceOf(x[1]))
    /\ ~replaced /\ options.all => \A x \in planted : BuildOf(x[2]) = build_id[x[1]]

FirstBuild == find_embedded_match(get_elf_build_id(FirstRoot, osd_path))

DataInv ==
  /\ pc \in Before => parser = NoData
  /\ pc \in After /\ ~replaced /\ options.import # None /\ ~options.skip =>
       /\ get_package_version = VersionOf[options.import.build]
       /\ parser = [t \in Tables |-> IF t \in options.import.tables THEN options.import.build ELSE None]
  /\ /\ pc \in {"attach", "tracing"} /\ ~replaced /\ options.import = None
     /\ pids = {} \/ planted # {} \/ IsRunning(Min(pids))
     => parser = IF FirstBuild # None THEN import_from_embedded(FirstBuild) ELSE LiveParse

JsonInv ==
  /\ pc \in {"version", "export", "exported"} => options.export
  /\ pc \in {"version", "export", "exported"} /\ ~replaced /\ options.import = None =>
       parser = LiveParse
  /\ pc = "export" /\ ~replaced =>
       json = [version |-> get_package_version, tables |-> None, build |-> None]
  /\ ExportedTogether

Inv == TypeInv /\ ReadInv /\ ChoiceInv /\ FreshInv /\ PlantedInv /\ DataInv /\ JsonInv

HostStep == (\E p \in Pid : Exit(p) \/ StartOsd(p)) \/ (\E ns \in Ns : Replace(ns))

\* What the host does to the files and the processes.
LEMMA HostMoves ==
  ASSUME TypeInv, HostStep
  PROVE  /\ UNCHANGED <<options, pc, todo, seen, build_id, target, parser, planted, json>>
         /\ replaced' = TRUE \/ (replaced' = replaced /\ disk' = disk)
         /\ \A ns \in Ns : disk[ns] \in Nat /\ disk'[ns] \in Nat /\ disk[ns] <= disk'[ns]
         /\ started \subseteq started'
         /\ \A p \in Pid : p \in started /\ image'[p] # 0 => image[p] = image'[p]
         /\ \A p \in Daemon : p \notin started /\ image'[p] # 0 => image'[p] = disk'[NsOf[p]]
<1>0. HostInv
  BY DEF TypeInv
<1>1. ASSUME NEW q \in Pid, Exit(q)
      PROVE  /\ UNCHANGED <<options, pc, todo, seen, build_id, target, parser, planted, json>>
             /\ replaced' = replaced /\ disk' = disk /\ started' = started
             /\ \A p \in Pid : image'[p] # 0 => image[p] = image'[p] /\ p \in started
  BY <1>0, <1>1 DEF Exit, HostInv, IsRunning
<1>2. ASSUME NEW q \in Pid, StartOsd(q)
      PROVE  /\ UNCHANGED <<options, pc, todo, seen, build_id, target, parser, planted, json>>
             /\ replaced' = replaced /\ disk' = disk /\ started \subseteq started'
             /\ \A p \in Pid : p \in started => image[p] = image'[p]
             /\ \A p \in Pid : p \notin started /\ image'[p] # 0 => image'[p] = disk[NsOf[p]]
  BY <1>0, <1>2 DEF StartOsd, HostInv, IsRunning
<1>3. ASSUME NEW ns \in Ns, Replace(ns)
      PROVE  /\ UNCHANGED <<options, pc, todo, seen, build_id, target, parser, planted, json>>
             /\ replaced' = TRUE /\ image' = image /\ started' = started
             /\ \A m \in Ns : disk'[m] \in Nat /\ disk[m] <= disk'[m]
             /\ \A p \in Pid : image'[p] # 0 => p \in started
  BY <1>0, <1>3 DEF Replace, HostInv, IsRunning
<1>4. \A ns \in Ns : disk[ns] \in Nat
  BY <1>0 DEF HostInv
<1>5. CASE \E q \in Pid : Exit(q)
  BY <1>1, <1>4, <1>5, Constants
<1>6. CASE \E q \in Pid : StartOsd(q)
  BY <1>2, <1>4, <1>6, Constants
<1>7. CASE \E ns \in Ns : Replace(ns)
  BY <1>3, <1>4, <1>7, Constants
<1> QED
  BY <1>5, <1>6, <1>7 DEF HostStep

\* The program does nothing to the host.
LEMMA MainMoves ==
  ASSUME Main
  PROVE  UNCHANGED <<options, env>>
BY DEF Main, discover_ceph_osd_processes, annotate_traceability, select_all_traceable_osds,
     resolve_requested_osd_ids, Validate, ResolveHost, Resolved, Fail, check_executable_deleted,
     load_dwarf_data, ExportVersion, export_to_json, attach_probes


LEMMA ReadStep ==
  ASSUME Inv, Main \/ HostStep
  PROVE  ReadInv'
<1>1. HostInv /\ ReadInv /\ TypeInv
  BY DEF Inv, TypeInv
<1>2. \A p \in Daemon : p \in Pid /\ NsOf[p] \in Ns /\ image[p] \in Nat
                       /\ disk[NsOf[p]] \in Nat /\ image[p] <= disk[NsOf[p]]
  BY <1>1, Constants DEF HostInv
<1>3. CASE HostStep
  <2>1. (pc \in Chosen => pids \subseteq started)'
    BY <1>1, <1>3, HostMoves DEF ReadInv, target
  <2> SUFFICES ASSUME NEW p \in Daemon, build_id[p] # None
               PROVE  /\ p \in started'
                      /\ image'[p] # 0 => \E n \in image'[p] .. disk'[NsOf[p]] : build_id[p] = BuildOf(<< NsOf[p], n >>)
    BY <1>1, <1>3, <2>1, HostMoves DEF ReadInv, IsRunning, BuildOf
  <2>2. p \in started /\ p \in started'
    BY <1>1, <1>3, HostMoves DEF ReadInv
  <2>3. ASSUME image'[p] # 0
        PROVE  \E n \in image'[p] .. disk'[NsOf[p]] : build_id[p] = BuildOf(<< NsOf[p], n >>)
    <3>1. image[p] = image'[p] /\ disk[NsOf[p]] <= disk'[NsOf[p]] /\ disk'[NsOf[p]] \in Nat
      BY <1>1, <1>2, <1>3, <2>2, <2>3, HostMoves
    <3>2. PICK n \in image[p] .. disk[NsOf[p]] : build_id[p] = BuildOf(<< NsOf[p], n >>)
      BY <1>1, <2>3, <3>1 DEF ReadInv, IsRunning
    <3>3. n \in image'[p] .. disk'[NsOf[p]]
      BY <1>2, <3>1
    <3> QED
      BY <3>2, <3>3
  <2> QED
    BY <2>2, <2>3
<1>4. CASE Main
  <2>1. UNCHANGED <<options, disk, image, started>>
    BY <1>4, MainMoves DEF env
  <2>2. CASE annotate_traceability
    <3>1. pc' \notin Chosen
      BY <2>2 DEF annotate_traceability, Chosen
    <3>2. CASE todo = {}
      BY <1>1, <2>1, <2>2, <3>1, <3>2 DEF annotate_traceability, ReadInv, IsRunning, BuildOf
    <3>3. CASE todo # {}
      <4> DEFINE q == Min(todo)
      <4>1. q \in Pid
        BY <1>1, <3>3, MinOfPids DEF TypeInv, ProgramInv
      <4>2. build_id' = [build_id EXCEPT ![q] =
                           IF IsRunning(q) THEN get_elf_build_id(NsOf[q], exe(q)) ELSE None]
        BY <2>2, <3>3 DEF annotate_traceability
      <4> HIDE DEF q
      <4> SUFFICES ASSUME NEW p \in Daemon, build_id'[p] # None
                   PROVE  /\ p \in started
                          /\ image[p] # 0 => \E n \in image[p] .. disk[NsOf[p]] : build_id'[p] = BuildOf(<< NsOf[p], n >>)
        BY <2>1, <3>1 DEF ReadInv, IsRunning, BuildOf
      <4>3. CASE p # q
        <5>1. build_id'[p] = build_id[p]
          BY <1>1, <1>2, <4>1, <4>2, <4>3 DEF TypeInv, ProgramInv
        <5> QED
          BY <1>1, <5>1 DEF ReadInv, IsRunning
      <4>4. CASE p = q
        <5>1. build_id'[p] = IF IsRunning(p) THEN get_elf_build_id(NsOf[p], exe(p)) ELSE None
          BY <1>1, <1>2, <4>1, <4>2, <4>4 DEF TypeInv, ProgramInv
        <5>2. IsRunning(p) /\ build_id'[p] = get_elf_build_id(NsOf[p], exe(p))
          BY <5>1
        <5>3. build_id'[p] = BuildOf(OnDisk(NsOf[p]))
          BY <1>1, <1>2, <5>2, BuildRead
        <5>4. p \in started
          BY <1>1, <1>2, <5>2 DEF HostInv
        <5>5. disk[NsOf[p]] \in image[p] .. disk[NsOf[p]]
          BY <1>2
        <5> QED
          BY <5>3, <5>4, <5>5 DEF OnDisk
      <4> QED
        BY <4>3, <4>4
    <3> QED
      BY <3>2, <3>3
  <2>3. CASE Validate
    <3>1. pc' \in Chosen => \A p \in pids' : p \in pids /\ IsRunning(p)
      BY <2>3 DEF Validate, SameExecutable, Resolved, Fail, Chosen, target
    <3>2. pids' = pids /\ build_id' = build_id /\ pids \subseteq Pid
      BY <1>1, <2>3 DEF Validate, Resolved, Fail, target, TypeInv, ProgramInv
    <3>3. pc' \in Chosen => pids' \subseteq started
      BY <1>1, <3>1, <3>2 DEF HostInv
    <3> QED
      BY <1>1, <2>1, <3>2, <3>3 DEF ReadInv, IsRunning, BuildOf
  <2>4. CASE ResolveHost
    <3>1. pids = {} /\ pids' = pids /\ build_id' = build_id
      BY <1>1, <2>4 DEF ResolveHost, Resolved, Fail, target, TypeInv, PlaceInv, Choosing
    <3> QED
      BY <1>1, <2>1, <3>1 DEF ReadInv, IsRunning, BuildOf
  <2>5. CASE select_all_traceable_osds \/ resolve_requested_osd_ids \/ discover_ceph_osd_processes
    <3>1. pc' \notin Chosen /\ build_id' = build_id
      BY <2>5 DEF select_all_traceable_osds, resolve_requested_osd_ids, discover_ceph_osd_processes,
                  AfterDiscovery, Fail, Chosen
    <3> QED
      BY <1>1, <2>1, <3>1 DEF ReadInv, IsRunning, BuildOf
  <2>6. CASE check_executable_deleted \/ load_dwarf_data \/ ExportVersion \/ export_to_json \/ attach_probes
    <3>1. pc \in Chosen /\ pids' = pids /\ build_id' = build_id
      BY <2>6 DEF check_executable_deleted, load_dwarf_data, ExportVersion, export_to_json, attach_probes,
                  Chosen, target
    <3> QED
      BY <1>1, <2>1, <3>1 DEF ReadInv, IsRunning, BuildOf
  <2> QED
    BY <1>4, <2>2, <2>3, <2>4, <2>5, <2>6 DEF Main
<1> QED
  BY <1>3, <1>4

LEMMA ChoiceStep ==
  ASSUME Inv, Main \/ HostStep
  PROVE  ChoiceInv'
<1>0. TypeInv /\ ChoiceInv
  BY DEF Inv
<1>1. CASE HostStep
  BY <1>0, <1>1, HostMoves DEF ChoiceInv, target
<1>2. CASE Main
  <2> SUFFICES ASSUME options.all
               PROVE  ChoiceInv'
    BY <1>2, MainMoves DEF ChoiceInv
  <2>1. options' = options
    BY <1>2, MainMoves
  <2>2. CASE discover_ceph_osd_processes
    <3>1. pc = "discover" /\ (pc' = "discover" \/ pc' = AfterDiscovery)
      BY <2>2 DEF discover_ceph_osd_processes
    <3>2. AfterDiscovery = "annotate"
      BY DEF AfterDiscovery
    <3>3. pc' \in {"discover", "annotate"}
      BY <3>1, <3>2
    <3>4. options.import = None /\ ~options.export
      BY <1>0, <3>1 DEF ChoiceInv
    <3> QED
      BY <2>1, <3>3, <3>4 DEF ChoiceInv, Chosen
  <2>3. CASE annotate_traceability
    BY <1>0, <2>1, <2>3 DEF annotate_traceability, ChoiceInv, Chosen
  <2>4. CASE select_all_traceable_osds
    <3> DEFINE traceable == {p \in seen : find_embedded_match(build_id[p]) # None}
    <3>1. CASE ~ OneBuild(traceable)
      BY <1>0, <2>1, <2>4, <3>1 DEF select_all_traceable_osds, Fail, ChoiceInv, Chosen
    <3>2. CASE OneBuild(traceable)
      <4>1. pids' = traceable /\ pc' = "validate" /\ build_id' = build_id /\ pc = "all"
        BY <2>4, <3>2 DEF select_all_traceable_osds
      <4>2. traceable # {} /\ traceable \subseteq Daemon /\ \A p, q \in traceable : build_id[p] = build_id[q]
        BY <1>0, <3>2 DEF OneBuild, TypeInv, ProgramInv
      <4>3. \A p \in traceable : build_id[p] \in Embedded
        BY DEF find_embedded_match
      <4> HIDE DEF traceable
      <4> QED
        BY <1>0, <2>1, <4>1, <4>2, <4>3 DEF ChoiceInv, Chosen
    <3> QED
      BY <3>1, <3>2
  <2>5. CASE resolve_requested_osd_ids
    BY <1>0, <2>5 DEF resolve_requested_osd_ids, ChoiceInv
  <2>6. CASE Validate
    BY <1>0, <2>1, <2>6 DEF Validate, Resolved, Fail, ChoiceInv, Chosen
  <2>7. CASE ResolveHost
    BY <1>0, <2>7 DEF ResolveHost, ChoiceInv
  <2>8. CASE check_executable_deleted \/ load_dwarf_data \/ ExportVersion \/ export_to_json \/ attach_probes
    <3>1. pc \in Chosen /\ pids' = pids /\ build_id' = build_id
      BY <2>8 DEF check_executable_deleted, load_dwarf_data, ExportVersion, export_to_json, attach_probes,
                  Chosen, target
    <3>2. pc' \in Chosen \cup {"failed"}
      BY <1>0, <2>8, LoadCases, AttachCases
         DEF check_executable_deleted, ExportVersion, export_to_json, Loaded, Chosen
    <3> QED
      BY <1>0, <2>1, <3>1, <3>2 DEF ChoiceInv, Chosen
  <2> QED
    BY <1>2, <2>2, <2>3, <2>4, <2>5, <2>6, <2>7, <2>8 DEF Main
<1> QED
  BY <1>1, <1>2

LEMMA FreshStep ==
  ASSUME Inv, Main \/ HostStep
  PROVE  FreshInv'
<1>0. TypeInv /\ FreshInv
  BY DEF Inv
<1>1. CASE HostStep
  <2> SUFFICES ASSUME ~replaced', ~options.export, NEW p \in Daemon, image'[p] # 0,
                      \/ pc = "deleted" /\ p \notin todo
                      \/ pc \in {"load", "attach", "tracing"}
               PROVE  image'[p] = disk'[NsOf[p]]
    BY <1>0, <1>1, HostMoves DEF FreshInv, IsRunning
  <2>1. replaced' = replaced /\ disk' = disk
    BY <1>0, <1>1, HostMoves
  <2>2. CASE p \in started
    <3>1. image[p] = image'[p]
      BY <1>0, <1>1, <2>2, HostMoves, Constants
    <3> QED
      BY <1>0, <2>1, <3>1 DEF FreshInv, IsRunning
  <2>3. CASE p \notin started
    BY <1>0, <1>1, <2>3, HostMoves
  <2> QED
    BY <2>2, <2>3
<1>2. CASE Main
  <2>1. options' = options /\ image' = image /\ disk' = disk
    BY <1>2, MainMoves DEF env
  <2>2. CASE check_executable_deleted
    <3> SUFFICES ASSUME ~replaced, ~options.export, pc' # "failed", NEW p \in Daemon, image[p] # 0,
                        p \notin todo'
                 PROVE  image[p] = disk[NsOf[p]]
      <4>1. replaced' = replaced /\ pc' \in {"deleted", "load", "failed"}
        BY <2>2 DEF check_executable_deleted
      <4>2. ~options.export /\ pc' = "load" => todo' = {}
        BY <2>2 DEF check_executable_deleted
      <4> QED
        BY <2>1, <4>1, <4>2 DEF FreshInv, IsRunning
    <3>1. pc = "deleted" /\ (p \notin todo \/ p = Min(todo))
      BY <2>2 DEF check_executable_deleted
    <3>2. CASE p \notin todo
      BY <1>0, <3>1, <3>2 DEF FreshInv, IsRunning
    <3>3. CASE p = Min(todo)
      <4>1. ~ (IsRunning(p) /\ p \in Daemon /\ Deleted(p))
        BY <2>2, <3>3 DEF check_executable_deleted
      <4> QED
        BY <4>1 DEF IsRunning, Deleted
    <3> QED
      BY <3>1, <3>2, <3>3
  <2>3. CASE load_dwarf_data \/ attach_probes
    BY <1>0, <2>1, <2>3 DEF load_dwarf_data, attach_probes, FreshInv, IsRunning
  <2>4. CASE Validate \/ ResolveHost
    <3>1. pc' = "deleted" => Daemon \ todo' = {}
      BY <2>4, Constants DEF Validate, ResolveHost, Resolved, Fail
    <3>2. pc' \in {"deleted", "failed"}
      BY <2>4 DEF Validate, ResolveHost, Resolved, Fail
    <3> QED
      BY <3>1, <3>2 DEF FreshInv
  <2>5. CASE \/ discover_ceph_osd_processes \/ annotate_traceability \/ select_all_traceable_osds
             \/ resolve_requested_osd_ids \/ ExportVersion \/ export_to_json
    <3>1. pc' \notin {"deleted", "load", "attach", "tracing"}
      BY <2>5 DEF discover_ceph_osd_processes, AfterDiscovery, annotate_traceability,
           select_all_traceable_osds, resolve_requested_osd_ids, ExportVersion, export_to_json, Fail
    <3> QED
      BY <3>1 DEF FreshInv
  <2> QED
    BY <1>2, <2>2, <2>3, <2>4, <2>5 DEF Main
<1> QED
  BY <1>1, <1>2

LEMMA PlantedStep ==
  ASSUME Inv, Main \/ HostStep
  PROVE  PlantedInv'
<1>0. TypeInv /\ ReadInv /\ ChoiceInv /\ FreshInv /\ PlantedInv
  BY DEF Inv
<1>1. CASE HostStep
  <2>1. UNCHANGED <<options, pc, build_id, pids, parser, planted>>
    BY <1>0, <1>1, HostMoves DEF target
  <2>2. replaced' = TRUE \/ (replaced' = replaced /\ disk' = disk)
    BY <1>0, <1>1, HostMoves
  <2> QED
    BY <1>0, <2>1, <2>2 DEF PlantedInv, Left, OnDisk, BuildOf
<1>2. CASE attach_probes
  <2>1. UNCHANGED <<options, disk, build_id, pids, parser, replaced>> /\ pc = "attach" /\ ~options.export
    BY <1>0, <1>2, AttachCases DEF env, target, PlaceInv, TypeInv
  <2>2. CASE pc' = "failed"
    BY <2>2 DEF PlantedInv
  <2>3. CASE /\ pids = {} /\ pc' = "tracing"
             /\ planted' = planted \cup {<< AnyProcess, OnDisk(Host) >>}
    <3>1. ~options.all
      BY <1>0, <2>1, <2>3 DEF ChoiceInv, Chosen
    <3>2. parser["type_sizes"] # None
      BY <1>0, <1>2, <2>3, AttachCases DEF Attachable
    <3>3. Left' = {}
      BY <2>1, <2>3 DEF Left
    <3>4. \A x \in planted' : x \in planted \/ x = << AnyProcess, OnDisk(Host) >>
      BY <2>3
    <3>5. \A x \in planted' : x[1] = AnyProcess
      BY <1>0, <2>1, <2>3, <3>4 DEF PlantedInv
    <3>6. ~replaced => \A x \in planted' : x[2] = OnDisk(PlaceOf(x[1]))
      BY <1>0, <2>1, <3>4 DEF PlantedInv, PlaceOf
    <3> QED
      BY <2>1, <2>3, <3>1, <3>2, <3>3, <3>5, <3>6 DEF PlantedInv, OnDisk
  <2>4. ASSUME NEW p \in Left, p \in pids, IsRunning(p), disk[NsOf[p]] > 0, pc' # "failed",
               planted' = planted \cup {<< p, OnDisk(NsOf[p]) >>},
               Left' = Left \ {p},
               pc' = IF Left = {p} THEN "tracing" ELSE "attach"
        PROVE  PlantedInv'
    <3> DEFINE new == << p, OnDisk(NsOf[p]) >>
    <3>0. p # AnyProcess /\ pids # {} /\ new[1] = p /\ new[2] = OnDisk(NsOf[p])
      BY <1>0, <2>4, Constants DEF TypeInv, ProgramInv
    <3>1. parser["type_sizes"] # None
      BY <1>0, <1>2, <2>4, AttachCases DEF Attachable
    <3>2. pc' = "tracing" => Left' = {}
      BY <2>4
    <3>3. \A x \in planted' : x \in planted \/ x = new
      BY <2>4
    <3>4. \A x \in planted' : x[1] \in pids
      BY <1>0, <2>1, <2>4, <3>0, <3>3 DEF PlantedInv
    <3>5. ~replaced => \A x \in planted' : x[2] = OnDisk(PlaceOf(x[1]))
      BY <1>0, <2>1, <3>0, <3>3 DEF PlantedInv, PlaceOf
    <3>6. ASSUME ~replaced, options.all
          PROVE  BuildOf(OnDisk(NsOf[p])) = build_id[p]
      <4>1. p \in Daemon /\ build_id[p] \in Embedded /\ build_id[p] # None
        BY <1>0, <2>1, <2>4, <3>6, Constants DEF ChoiceInv, Chosen
      <4>2. image[p] = disk[NsOf[p]]
        BY <1>0, <2>1, <2>4, <3>6, <4>1 DEF FreshInv
      <4>3. PICK n \in image[p] .. disk[NsOf[p]] : build_id[p] = BuildOf(<< NsOf[p], n >>)
        BY <1>0, <2>4, <4>1 DEF ReadInv
      <4>4. disk[NsOf[p]] \in Nat
        BY <1>0, <4>1, Constants DEF TypeInv, HostInv
      <4>5. n = disk[NsOf[p]]
        BY <4>2, <4>3, <4>4
      <4> QED
        BY <4>3, <4>5 DEF OnDisk
    <3>7. ~replaced /\ options.all => \A x \in planted' : BuildOf(x[2]) = build_id[x[1]]
      BY <1>0, <2>1, <3>0, <3>3, <3>6 DEF PlantedInv
    <3> QED
      BY <2>1, <3>0, <3>1, <3>2, <3>4, <3>5, <3>7 DEF PlantedInv, OnDisk, BuildOf
  <2> QED
    BY <1>0, <1>2, <2>2, <2>3, <2>4, AttachCases
<1>3. CASE load_dwarf_data
  <2>1. planted' = {} /\ pc' # "tracing"
    BY <1>0, <1>3, LoadCases DEF Loaded
  <2> QED
    BY <2>1 DEF PlantedInv
<1>4. CASE Main /\ ~attach_probes /\ ~load_dwarf_data
  <2>1. pc' \notin {"attach", "tracing"}
    BY <1>4 DEF Main, discover_ceph_osd_processes, AfterDiscovery, annotate_traceability, Resolved,
         select_all_traceable_osds, resolve_requested_osd_ids, ExportVersion, export_to_json, Fail,
         Validate, ResolveHost, check_executable_deleted
  <2> QED
    BY <2>1 DEF PlantedInv
<1> QED
  BY <1>1, <1>2, <1>3, <1>4

\* Nothing that is read from the files changes without a replacement.
LEMMA ReadsKept ==
  ASSUME UNCHANGED <<disk, pids, osd_path>>
  PROVE  /\ UNCHANGED <<FirstRoot, FirstBuild, LiveParse, ModuleBuild, get_package_version>>
BY DEF FirstRoot, FirstBuild, LiveParse, ModuleBuild, get_package_version, get_elf_build_id, BuildOf, OnDisk

\* A file that is accepted fills the tables it has.
LEMMA Imported ==
  ASSUME Inv, load_dwarf_data, options.import # None, pc' # "failed"
  PROVE  /\ parser' = [t \in Tables |-> IF t \in options.import.tables THEN options.import.build ELSE None]
         /\ ~options.skip => get_package_version = VersionOf[options.import.build]
<1>1. PICK file \in {o.import : o \in Options} : import_from_json(file)
  BY DEF load_dwarf_data
<1>2. file = options.import /\ VersionFits(file)
      /\ parser' = [t \in Tables |-> IF t \in file.tables THEN file.build ELSE parser[t]]
  BY <1>1 DEF import_from_json
<1>3. pc = "load" /\ parser = NoData
  BY DEF load_dwarf_data, Inv, DataInv, Before
<1>4. options.import.version = VersionOf[options.import.build]
  BY TargetAssumption DEF TargetAssumption, Inv, TypeInv, ProgramInv
<1> QED
  BY <1>2, <1>3, <1>4 DEF NoData, VersionFits

\* Without a file the data compiled in is taken, or the host's file is parsed.
LEMMA Parsed ==
  ASSUME Inv, load_dwarf_data, options.import = None
  PROVE  /\ pc' = Loaded
         /\ options.export => parser' = LiveParse
         /\ ~options.export /\ (pids = {} \/ IsRunning(Min(pids))) =>
              parser' = IF FirstBuild # None THEN import_from_embedded(FirstBuild) ELSE LiveParse
<1>1. /\ parser' = IF ~options.export /\ EmbeddedMatch # None
                    THEN import_from_embedded(EmbeddedMatch) ELSE LiveParse
      /\ pc' = Loaded
  BY DEF load_dwarf_data, import_from_json
<1>2. pids = {} \/ IsRunning(Min(pids)) => EmbeddedMatch = FirstBuild
  BY DEF EmbeddedMatch, FirstBuild
<1> QED
  BY <1>1, <1>2

LEMMA DataStep ==
  ASSUME Inv, Main \/ HostStep
  PROVE  DataInv'
<1>0. TypeInv /\ ReadInv /\ DataInv
  BY DEF Inv
<1>1. CASE HostStep
  <2>1. UNCHANGED <<options, pc, pids, osd_path, parser, planted>>
    BY <1>0, <1>1, HostMoves DEF target
  <2>2. CASE replaced' = TRUE
    BY <1>0, <2>1, <2>2 DEF DataInv
  <2>3. CASE replaced' = replaced /\ disk' = disk
    <3>1. UNCHANGED <<FirstRoot, FirstBuild, LiveParse, get_package_version>>
      BY <2>1, <2>3, ReadsKept
    <3>2. ASSUME pc \in {"attach", "tracing"}, pids # {}, IsRunning(Min(pids))'
          PROVE  IsRunning(Min(pids))
      <4>1. Min(pids) \in started /\ Min(pids) \in Pid
        BY <1>0, <3>2, RootTyped DEF ReadInv, Chosen, TypeInv, ProgramInv
      <4>2. image'[Min(pids)] # 0
        BY <2>1, <3>2 DEF IsRunning
      <4>3. image[Min(pids)] # 0
        BY <1>0, <1>1, <4>1, <4>2, HostMoves
      <4> QED
        BY <4>3 DEF IsRunning
    <3> QED
      BY <1>0, <2>1, <2>3, <3>1, <3>2 DEF DataInv, import_from_embedded, NoData
  <2> QED
    BY <1>0, <1>1, <2>2, <2>3, HostMoves
<1>2. CASE load_dwarf_data
  <2>1. planted' = {} /\ UNCHANGED <<options, disk, image, pids, osd_path, replaced>>
        /\ pc' \in {Loaded, "failed"} /\ pc' \notin Before
    BY <1>0, <1>2, LoadCases DEF env, target, Loaded, Before, Choosing
  <2>2. UNCHANGED <<FirstRoot, FirstBuild, LiveParse, get_package_version>>
    BY <2>1, ReadsKept
  <2>3. pc' = "attach" => ~options.export
    BY <2>1 DEF Loaded
  <2>4. CASE options.import # None
    BY <1>2, <2>1, <2>2, <2>4, Imported DEF DataInv, After
  <2>5. CASE options.import = None
    <3>1. IsRunning(Min(pids))' <=> IsRunning(Min(pids))
      BY <2>1 DEF IsRunning
    <3>2. pc' # "tracing"
      BY <2>1 DEF Loaded
    <3> QED
      BY <1>2, <2>1, <2>2, <2>3, <2>5, <3>1, <3>2, Parsed DEF DataInv, After, import_from_embedded
  <2> QED
    BY <2>4, <2>5
<1>3. CASE attach_probes
  <2>1. UNCHANGED <<options, disk, image, pids, osd_path, parser, replaced>> /\ pc = "attach"
    BY <1>0, <1>3, AttachCases DEF env, target
  <2>2. UNCHANGED <<FirstRoot, FirstBuild, LiveParse, get_package_version>>
    BY <2>1, ReadsKept
  <2>3. planted' = planted \/ planted # {} \/ pids = {} \/ IsRunning(Min(pids))
    BY <1>0, <1>3, AttachCases
  <2>4. IsRunning(Min(pids))' <=> IsRunning(Min(pids))
    BY <2>1 DEF IsRunning
  <2>5. pc' \in {"attach", "tracing", "failed"}
    BY <1>0, <1>3, AttachCases
  <2>6. pc' \notin Before
    BY <2>5 DEF Before, Choosing
  <2> QED
    BY <1>0, <2>1, <2>2, <2>3, <2>4, <2>5, <2>6 DEF DataInv, After, import_from_embedded
<1>4. CASE ExportVersion \/ export_to_json
  <2>1. pc \in After /\ pc' \in {"export", "exported"} /\ UNCHANGED <<options, disk, pids, osd_path, parser, replaced>>
    BY <1>4 DEF ExportVersion, export_to_json, env, target, After
  <2>2. UNCHANGED get_package_version
    BY <2>1, ReadsKept
  <2>3. pc' \notin Before /\ pc' \notin {"attach", "tracing"}
    BY <2>1 DEF Before, Choosing
  <2> QED
    BY <1>0, <2>1, <2>2, <2>3 DEF DataInv
<1>5. CASE \/ discover_ceph_osd_processes \/ annotate_traceability \/ select_all_traceable_osds
           \/ resolve_requested_osd_ids \/ Validate \/ ResolveHost \/ check_executable_deleted
  <2>1. pc \in Before /\ pc' \notin After /\ parser' = parser
    BY <1>5 DEF discover_ceph_osd_processes, AfterDiscovery, annotate_traceability, Fail, Resolved,
         select_all_traceable_osds, resolve_requested_osd_ids, Validate, ResolveHost,
         check_executable_deleted, Before, After, Choosing
  <2> QED
    BY <1>0, <2>1 DEF DataInv, After, NoData
<1> QED
  BY <1>1, <1>2, <1>3, <1>4, <1>5 DEF Main

LEMMA JsonStep ==
  ASSUME Inv, Main \/ HostStep, pc # "exported"
  PROVE  JsonInv'
<1>0. TypeInv /\ DataInv /\ JsonInv
  BY DEF Inv
<1>1. CASE HostStep
  <2>1. UNCHANGED <<options, pc, pids, osd_path, parser, json>>
    BY <1>0, <1>1, HostMoves DEF target
  <2>2. CASE replaced' = TRUE
    BY <1>0, <2>1, <2>2 DEF JsonInv, ExportedTogether
  <2>3. CASE replaced' = replaced /\ disk' = disk
    <3>1. UNCHANGED <<LiveParse, get_package_version>>
      BY <2>1, <2>3, ReadsKept
    <3> QED
      BY <1>0, <2>1, <2>3, <3>1 DEF JsonInv, ExportedTogether
  <2> QED
    BY <1>0, <1>1, <2>2, <2>3, HostMoves
<1>2. CASE load_dwarf_data
  <2>1. UNCHANGED <<options, disk, pids, osd_path, replaced>> /\ pc' \in {Loaded, "failed"}
    BY <1>0, <1>2, LoadCases DEF env, target
  <2>2. UNCHANGED LiveParse
    BY <2>1, ReadsKept
  <2>3. pc' \notin {"export", "exported"} /\ (pc' = "version" => options.export)
    BY <2>1 DEF Loaded
  <2> QED
    BY <1>2, <2>1, <2>2, <2>3, Parsed DEF JsonInv, ExportedTogether
<1>3. CASE ExportVersion
  <2>1. pc = "version" /\ pc' = "export" /\ UNCHANGED <<options, disk, pids, osd_path, parser, replaced>>
        /\ json' = [version |-> get_package_version, tables |-> None, build |-> None]
    BY <1>3 DEF ExportVersion, env, target
  <2>2. UNCHANGED <<LiveParse, get_package_version>>
    BY <2>1, ReadsKept
  <2> QED
    BY <1>0, <2>1, <2>2 DEF JsonInv, ExportedTogether
<1>4. CASE export_to_json
  <2>1. pc = "export" /\ pc' = "exported" /\ UNCHANGED <<options, disk, pids, osd_path, parser, replaced>>
        /\ json' = IF parser = NoData THEN json
                   ELSE [json EXCEPT !.tables = parser["func2vf"],
                                     !.build = IF options.import = None THEN ModuleBuild ELSE None]
    BY <1>4 DEF export_to_json, env, target
  <2>2. UNCHANGED LiveParse
    BY <2>1, ReadsKept
  <2>3. ASSUME ~replaced, ~options.skip, json'.tables # None
        PROVE  /\ json'.version = VersionOf[json'.tables]
               /\ options.import = None => json'.build = json'.tables
    <3>1. json = [version |-> get_package_version, tables |-> None, build |-> None]
      BY <1>0, <2>1, <2>3 DEF JsonInv
    <3>2. parser # NoData /\ json'.version = get_package_version /\ json'.tables = parser["func2vf"]
          /\ (options.import = None => json'.build = ModuleBuild)
      BY <2>1, <2>3, <3>1
    <3>3. CASE options.import = None
      <4>1. parser = LiveParse
        BY <1>0, <2>1, <2>3, <3>3 DEF JsonInv
      <4>2. ModuleBuild # None /\ parser["func2vf"] = ModuleBuild
        BY <3>2, <4>1, Constants DEF LiveParse, ModuleBuild, Tables
      <4>3. disk[Host] > 0 /\ ModuleBuild = BuildOf(OnDisk(Host))
        BY <4>2 DEF ModuleBuild, get_elf_build_id
      <4> QED
        BY <3>2, <4>2, <4>3 DEF get_package_version
    <3>4. CASE options.import # None
      <4>1. get_package_version = VersionOf[options.import.build]
            /\ parser = [t \in Tables |-> IF t \in options.import.tables THEN options.import.build ELSE None]
        BY <1>0, <2>1, <2>3, <3>4 DEF DataInv, After
      <4> QED
        BY <2>3, <3>2, <3>4, <4>1 DEF Tables
    <3> QED
      BY <3>3, <3>4
  <2> QED
    BY <1>0, <2>1, <2>2, <2>3 DEF JsonInv, ExportedTogether
<1>5. CASE attach_probes
  <2>1. pc' \notin {"version", "export", "exported"}
    BY <1>0, <1>5, AttachCases
  <2> QED
    BY <2>1 DEF JsonInv, ExportedTogether
<1>6. CASE \/ discover_ceph_osd_processes \/ annotate_traceability \/ select_all_traceable_osds
           \/ resolve_requested_osd_ids \/ Validate \/ ResolveHost \/ check_executable_deleted
  <2>1. pc' \notin {"version", "export", "exported"}
    BY <1>6 DEF discover_ceph_osd_processes, AfterDiscovery, annotate_traceability, Fail, Resolved,
         select_all_traceable_osds, resolve_requested_osd_ids, Validate, ResolveHost,
         check_executable_deleted
  <2> QED
    BY <2>1 DEF JsonInv, ExportedTogether
<1> QED
  BY <1>1, <1>2, <1>3, <1>4, <1>5, <1>6 DEF Main

-----------------------------------------------------------------------------
(* Theorems                                                                *)

LEMMA InitInv == Init => Inv
<1> SUFFICES ASSUME Init  PROVE Inv
  OBVIOUS
<1>1. pc = FirstStep(options) /\ parser = NoData /\ build_id = [p \in Pid |-> None]
  BY DEF Init
<1>2. pc \in {"failed", "validate", "discover"}
  BY <1>1 DEF FirstStep
<1>3. options.all /\ pc # "failed" => pc = "discover" /\ options.import = None /\ ~options.export
  BY <1>1 DEF FirstStep
<1>4. TypeInv
  BY InitTyped
<1>5. ReadInv
  BY <1>1, <1>2, Constants DEF ReadInv, Chosen
<1>6. ChoiceInv
  BY <1>2, <1>3 DEF ChoiceInv, Chosen
<1>7. FreshInv /\ PlantedInv
  BY <1>2 DEF FreshInv, PlantedInv
<1>8. DataInv /\ JsonInv
  BY <1>1, <1>2 DEF DataInv, JsonInv, After, ExportedTogether
<1> QED
  BY <1>4, <1>5, <1>6, <1>7, <1>8 DEF Inv

LEMMA InvStep ==
  ASSUME Inv, [Next]_vars
  PROVE  Inv'
<1>1. CASE UNCHANGED vars
  <2>1. TypeInv'
    BY <1>1, TypeStep DEF Inv
  <2>2. UNCHANGED <<options, pc, disk, image, started, todo, build_id, pids, osd_path, parser, planted, json, replaced>>
    BY <1>1 DEF vars, env, target
  <2>3. UNCHANGED <<FirstRoot, FirstBuild, LiveParse, get_package_version>>
    BY <2>2, ReadsKept
  <2>4. (ReadInv /\ ChoiceInv /\ FreshInv)'
    BY <2>2 DEF Inv, ReadInv, ChoiceInv, FreshInv, IsRunning, BuildOf
  <2>5. PlantedInv'
    BY <2>2 DEF Inv, PlantedInv, Left, OnDisk, BuildOf
  <2>6. DataInv'
    BY <2>2, <2>3 DEF Inv, DataInv, IsRunning, import_from_embedded
  <2>7. JsonInv'
    BY <2>2, <2>3 DEF Inv, JsonInv, ExportedTogether
  <2> QED
    BY <2>1, <2>4, <2>5, <2>6, <2>7 DEF Inv
<1>2. CASE Next
  <2>1. (Main \/ HostStep) /\ pc # "exported"
    BY <1>2 DEF Next, HostStep
  <2> QED
    BY <1>2, <2>1, TypeStep, ReadStep, ChoiceStep, FreshStep, PlantedStep, DataStep, JsonStep DEF Inv
<1> QED
  BY <1>1, <1>2

LEMMA Invariance == Spec => []Inv
BY InitInv, InvStep, PTL DEF Spec

\* Every selected process that still runs maps the file its probes are in, once
\* tracing begins, for any processes that start and exit and any packages replaced
\* before the look for old images (check_executable_deleted, attach_probes).
THEOREM SelectedSeen == Spec => []SelectedAreSeen
<1>1. ASSUME Inv
      PROVE  SelectedAreSeen
  <2> SUFFICES ASSUME Tracing, NEW x \in planted, NEW p \in Pid, IsRunning(p), p \in Daemon,
                      p = x[1] \/ (x[1] = AnyProcess /\ NsOf[p] = Host)
               PROVE  File(p) = x[2]
    BY DEF SelectedAreSeen
  <2>1. pc = "tracing" /\ ~replaced /\ ~options.export
    BY <1>1 DEF Tracing, Inv, TypeInv, PlaceInv
  <2>2. image[p] = disk[NsOf[p]]
    BY <1>1, <2>1 DEF Inv, FreshInv
  <2>3. x[2] = OnDisk(PlaceOf(x[1]))
    BY <1>1, <2>1 DEF Inv, PlantedInv
  <2>4. PlaceOf(x[1]) = NsOf[p]
    BY Constants DEF PlaceOf
  <2> QED
    BY <2>2, <2>3, <2>4 DEF File, OnDisk
<1> QED
  BY <1>1, Invariance, PTL

\* The version, the build-id and the tables that -j writes describe one build,
\* for any namespaces and packages (do_export_json, export_to_json).
THEOREM ExportRight == Spec => []ExportedTogether
<1>1. Inv => ExportedTogether
  BY DEF Inv, JsonInv
<1> QED
  BY <1>1, Invariance, PTL

\* With no process selected, or when the probes of the first are planted, the
\* data is that of the file at the path of the first process, if it is compiled
\* in.
LEMMA FirstDataFits ==
  ASSUME Inv, Tracing, options.import = None, NEW x \in planted,
         x[2] = OnDisk(FirstRoot), BuildOf(x[2]) \in Embedded \/ FirstRoot = Host
  PROVE  \A t \in Tables : parser[t] = BuildOf(x[2])
<1> DEFINE build == BuildOf(x[2])
<1>1. /\ pc = "tracing" /\ ~replaced /\ osd_path = PathOf[FirstRoot] /\ FirstRoot \in Ns
      /\ parser["type_sizes"] # None
      /\ parser = IF FirstBuild # None THEN import_from_embedded(FirstBuild) ELSE LiveParse
  BY RootTyped DEF Inv, Tracing, TypeInv, ProgramInv, PlaceInv, Chosen, PlantedInv, DataInv
<1>2. disk[FirstRoot] > 0
  BY <1>1, Constants DEF Inv, TypeInv, ProgramInv, Plants, OnDisk, HostInv
<1>3. get_elf_build_id(FirstRoot, osd_path) = build /\ build \in Build
  BY <1>1, <1>2, BuildRead DEF Inv, TypeInv
<1>4. CASE build \in Embedded
  <2>1. FirstBuild = build /\ FirstBuild # None
    BY <1>3, <1>4, Constants DEF FirstBuild, find_embedded_match
  <2> QED
    BY <1>1, <2>1 DEF import_from_embedded
<1>5. CASE build \notin Embedded
  <2>1. FirstBuild = None /\ FirstRoot = Host
    BY <1>3, <1>5 DEF FirstBuild, find_embedded_match
  <2>2. parser = IF build \in Symbols THEN [t \in Tables |-> build] ELSE NoData
    BY <1>1, <1>3, <2>1 DEF LiveParse
  <2>3. build \in Symbols
    BY <1>1, <2>2 DEF NoData, Tables
  <2> QED
    BY <2>2, <2>3
<1> QED
  BY <1>4, <1>5

\* The file at the first process's path is planted in, if any is.
LEMMA FirstPlanted ==
  ASSUME Inv, Tracing, planted # {}
  PROVE  \E x \in planted : x[2] = OnDisk(FirstRoot)
<1>1. pc = "tracing" /\ ~replaced /\ pids \subseteq Pid
  BY DEF Tracing, Inv, TypeInv, ProgramInv
<1>2. Left = {} /\ \A x \in planted : x[2] = OnDisk(PlaceOf(x[1]))
  BY <1>1 DEF Inv, PlantedInv
<1>3. CASE pids = {}
  <2>1. \A x \in planted : x[1] = AnyProcess
    BY <1>1, <1>3 DEF Inv, PlantedInv
  <2>2. \A x \in planted : x[2] = OnDisk(FirstRoot)
    BY <1>2, <1>3, <2>1 DEF PlaceOf, FirstRoot
  <2> QED
    BY <2>2
<1>4. CASE pids # {}
  <2>1. Min(pids) \in pids /\ FirstRoot = NsOf[Min(pids)] /\ Min(pids) # AnyProcess
    BY <1>1, <1>4, RootTyped, Constants
  <2>2. PICK x \in planted : x[1] = Min(pids)
    BY <1>2, <2>1 DEF Left
  <2>3. x[2] = OnDisk(FirstRoot)
    BY <1>2, <2>1, <2>2 DEF PlaceOf
  <2> QED
    BY <2>2, <2>3
<1> QED
  BY <1>3, <1>4

\* -a, for any processes, namespaces and builds: with data of its own build a
\* handler reads every field where a process keeps it, and then it does so in
\* every process selected (annotate_traceability to attach_probes).
THEOREM AllFieldsRight ==
  ASSUME \A b \in Build : << b, b >> \in RightFor
  PROVE  Spec => []AllReadOwnFields
<1>1. ASSUME Inv
      PROVE  AllReadOwnFields
  <2> SUFFICES ASSUME Tracing, options.all, NEW x \in planted, NEW t \in Tables
               PROVE  << parser[t], BuildOf(x[2]) >> \in RightFor
    BY DEF AllReadOwnFields, DataFits
  <2>1. pc = "tracing" /\ ~replaced
    BY DEF Tracing
  <2>2. /\ options.import = None /\ pids # {}
        /\ \A p \in pids : build_id[p] \in Embedded
        /\ \A p, q \in pids : build_id[p] = build_id[q]
    BY <1>1, <2>1 DEF Inv, ChoiceInv, Chosen
  <2>3. \A y \in planted : y[1] \in pids /\ BuildOf(y[2]) = build_id[y[1]]
    BY <1>1, <2>1, <2>2 DEF Inv, PlantedInv
  <2>4. PICK y \in planted : y[2] = OnDisk(FirstRoot)
    BY <1>1, FirstPlanted
  <2>5. BuildOf(y[2]) \in Embedded /\ BuildOf(x[2]) = BuildOf(y[2])
    BY <2>2, <2>3
  <2>6. parser[t] = BuildOf(y[2])
    BY <1>1, <2>2, <2>4, <2>5, FirstDataFits
  <2> QED
    BY <2>5, <2>6, Constants
<1> QED
  BY <1>1, Invariance, PTL

\* The other modes on one namespace, for any processes and builds, if packages of
\* one version hold one build (import_from_json, load_dwarf_data,
\* attach_probes).
THEOREM OneTargetFieldsRight ==
  ASSUME \A b \in Build : << b, b >> \in RightFor,
         \A a, b \in Build : VersionOf[a] = VersionOf[b] => a = b
  PROVE  Spec => []OneTargetReadsOwnFields
<1>1. ASSUME Inv
      PROVE  OneTargetReadsOwnFields
  <2> SUFFICES ASSUME Tracing, ~options.skip,
                      options.import # None => options.import.tables = Tables,
                      NEW ns \in Ns,
                      \A x \in planted :
                        /\ x[2][1] = ns
                        /\ ns = Host \/ (options.import = None /\ BuildOf(x[2]) \in Embedded),
                      NEW x \in planted, NEW t \in Tables
               PROVE  << parser[t], BuildOf(x[2]) >> \in RightFor
    BY DEF OneTargetReadsOwnFields, DataFits
  <2>1. pc = "tracing" /\ ~replaced
    BY DEF Tracing
  <2>2. \A y \in planted : y[2] = OnDisk(PlaceOf(y[1]))
    BY <1>1, <2>1 DEF Inv, PlantedInv
  <2>3. x[2] = OnDisk(ns)
    BY <2>2 DEF OnDisk
  <2>4. BuildOf(x[2]) \in Build
    BY <1>1, Constants DEF Inv, TypeInv, ProgramInv, Plants, BuildOf
  <2>5. parser[t] = BuildOf(x[2])
    <3>1. CASE options.import # None
      <4>1. get_package_version = VersionOf[options.import.build]
            /\ parser[t] = options.import.build
        BY <1>1, <2>1, <3>1 DEF Inv, DataInv, After
      <4>2. options.import.build \in Build /\ ns = Host
        BY <1>1, <3>1, TargetAssumption DEF TargetAssumption, Inv, TypeInv, ProgramInv
      <4>3. disk[Host] > 0
        BY <1>1, <2>3, <4>2, Constants DEF Inv, TypeInv, ProgramInv, Plants, OnDisk, HostInv
      <4>4. get_package_version = VersionOf[BuildOf(x[2])]
        BY <2>3, <4>2, <4>3 DEF get_package_version
      <4> QED
        BY <2>4, <4>1, <4>2, <4>4
    <3>2. CASE options.import = None
      <4>1. PICK y \in planted : y[2] = OnDisk(FirstRoot)
        BY <1>1, FirstPlanted
      <4>2. FirstRoot = ns
        BY <4>1 DEF OnDisk
      <4>3. x[2] = OnDisk(FirstRoot) /\ (BuildOf(x[2]) \in Embedded \/ FirstRoot = Host)
        BY <2>3, <4>2
      <4> QED
        BY <1>1, <3>2, <4>3, FirstDataFits
    <3> QED
      BY <3>1, <3>2
  <2> QED
    BY <2>4, <2>5
<1> QED
  BY <1>1, Invariance, PTL
=============================================================================
