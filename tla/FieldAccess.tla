----------------------------- MODULE FieldAccess ----------------------------
(***************************************************************************)
(* From a path such as op->px->reqid.tid to an address: what DwarfParser   *)
(* makes of it with the debug information of one build, and where a probe  *)
(* handler then reads in a process.                                        *)
(*                                                                         *)
(* A build g is a record                                                   *)
(*   g.type[t]: [tag, to, size, members], where tag is "cv" for a typedef  *)
(*     or a qualifier, "pointer", "reference", "base", "enum", "float" for *)
(*     a base type in the SSE registers, "declaration" for a type defined  *)
(*     in another entry, or "struct" for any aggregate, and members is its *)
(*     sequence of children, << >> for what is no aggregate: [kind, name,  *)
(*     at, type], where kind is "member", "base" for an inherited class or *)
(*     "anonymous", and at is an offset or Unplaced;                       *)
(*   g.func[f]: [params, cfa], where cfa is the register and offset the    *)
(*     call frame address is found with at the probed instruction, and a   *)
(*     parameter is [name, type, loc, place]: loc is what DW_AT_location   *)
(*     says, or Unplaced, and place is where the caller put the value.     *)
(***************************************************************************)
EXTENDS Integers, Sequences, FiniteSets, Folds, SequencesExt

CONSTANTS
  Unplaced,   \* no DW_AT_location or DW_AT_data_member_location
  Failed,     \* a function returned false
  MemOf(_)    \* the memory of a process, by address

MAX_FIELDS == 10       \* struct Field fields[10]

\* Of osd_probes: the paths handlers read, by function.  The first name is the
\* parameter.
Probed == {"OSD::enqueue_op", "PrimaryLogPG::execute_ctx",
           "ReplicatedBackend::submit_transaction", "ReplicatedBackend::repop_commit"}
Below(path, rests) == [i \in DOMAIN rests |-> path \o rests[i]]
Key == << << "reqid", "name", "_num" >>, << "reqid", "tid" >> >>
Name == << << "oid", "name", "_M_string_length" >>, << "oid", "name", "_M_dataplus", "_M_p" >> >>
Stamps == << "recv_stamp", "throttle_stamp", "recv_complete_stamp", "dispatch_stamp" >>
osd_probes ==
  [f \in Probed |->
     CASE f = "OSD::enqueue_op" ->
            Below(<< "op", "px" >>,
                  << << "request", "header", "type" >> >> \o Key
                  \o [i \in DOMAIN Stamps |-> << "request", Stamps[i] >>])
       [] f = "PrimaryLogPG::execute_ctx" ->
            Below(<< "ctx" >>,
                  Key \o Below(<< "new_obs", "oi", "soid" >>, Name)
                  \o Below(<< "ops", "_M_impl" >>, << << "_M_start" >>, << "_M_finish" >> >>))
       [] f = "ReplicatedBackend::submit_transaction" -> Key
       [] f = "ReplicatedBackend::repop_commit" ->
            Below(<< "rm", "_M_ptr", "op", "px" >>,
                  Key \o << << "request", "data", "_len" >> >>
                  \o Below(<< "request", "cast:MOSDRepOp", "poid" >>, Name))]

func_id(f) ==
  CASE f = "OSD::enqueue_op" -> 0 [] f = "PrimaryLogPG::execute_ctx" -> 20
    [] f = "ReplicatedBackend::submit_transaction" -> 30
    [] f = "ReplicatedBackend::repop_commit" -> 170

\* What the handlers read, by the index into hprobes, each field by its name.
Reads ==
  LET from(varid, names) == {<< varid + i - 1, names[i] >> : i \in DOMAIN names}
  IN [f \in Probed |->
        CASE f = "OSD::enqueue_op" -> from(0, << "type", "_num", "tid" >> \o Stamps)
          [] f = "PrimaryLogPG::execute_ctx" ->
               from(20, << "_num", "tid", "_M_string_length", "_M_p" >>)
                 \cup from(24, << "_M_start", "_M_finish" >>)
          [] f = "ReplicatedBackend::submit_transaction" -> from(30, << "_num", "tid" >>)
          [] f = "ReplicatedBackend::repop_commit" ->
               from(170, << "_num", "tid", "_len", "_M_string_length", "_M_p" >>)]

Casts == {"cast:MOSDRepOp"}
resolve_type_name(cast) == "MOSDRepOp"
CastPointer == "MOSDRepOp*"

-----------------------------------------------------------------------------
(* Types                                                                   *)

\* The aggregate behind t's typedefs, qualifiers, pointers and references, or
\* Failed, and whether there was a pointer among them.
Behind(g, t) ==
  LET walk[u \in DOMAIN g.type] ==
        LET d == g.type[u]
        IN CASE d.tag \in {"cv", "declaration"} -> walk[d.to]
             [] d.tag \in {"pointer", "reference"} /\ d.to # "void" ->
                  [walk[d.to] EXCEPT !.pointer = TRUE]
             [] d.tag = "struct" -> [type |-> u, pointer |-> FALSE]
             [] OTHER -> [type |-> Failed, pointer |-> FALSE]
  IN walk[t]

\* strip_type_wrappers: pointers stay.
Stripped(g, t) ==
  LET walk[u \in DOMAIN g.type] ==
        IF g.type[u].tag = "cv" THEN walk[g.type[u].to] ELSE u
  IN walk[t]

Children(g, t, kind) ==
  {c \in Range(g.type[t].members) : c.kind = kind}

\* The member of that name in t or its base classes, breadth first, with the
\* offset it has in the class that declares it.  A class without children ends
\* the search, and an unplaced member counts as not found.
find_class_member(g, t, name) ==
  LET search[queue \in Seq(DOMAIN g.type)] ==
        LET children == g.type[Head(queue)].members
            own == SelectSeq(children, LAMBDA c : c.kind = "member" /\ c.name = name)
            bases == SelectSeq(children, LAMBDA c : c.kind = "base")
        IN CASE queue = << >> \/ children = << >> -> Failed
             [] queue # << >> /\ own # << >> ->
                  IF Head(own).at = Unplaced THEN Failed ELSE Head(own)
             [] OTHER -> search[Tail(queue) \o [i \in DOMAIN bases |-> bases[i].type]]
  IN search[<< t >>]

\* Where a child starts in its parent: at 0 if nothing is said.
member_byte_offset(c) == IF c.at = Unplaced THEN 0 ELSE c.at

\* The members of that name in t, in its base classes and in its anonymous
\* structs and unions, with their offsets in t.
find_member_offset_in(g, t, name) ==
  LET found[u \in DOMAIN g.type] ==
        IF g.type[u].tag # "struct" THEN {}
        ELSE {[type |-> Stripped(g, c.type), offset |-> member_byte_offset(c)]
                : c \in {d \in Children(g, u, "member") : d.name = name}}
             \cup UNION {{[m EXCEPT !.offset = @ + member_byte_offset(c)]
                             : m \in found[Stripped(g, c.type)]}
                           : c \in Children(g, u, "base") \cup Children(g, u, "anonymous")}
  IN found[t]

resolve_member_offset(g, t, path) ==
  FoldLeft(LAMBDA at, name :
             IF at = Failed \/ find_member_offset_in(g, at.type, name) = {} THEN Failed
             ELSE LET m == CHOOSE x \in find_member_offset_in(g, at.type, name) : TRUE
                  IN [type |-> m.type, offset |-> at.offset + m.offset],
           [type |-> Stripped(g, t), offset |-> 0], path)

-----------------------------------------------------------------------------
(* Parameters                                                              *)

Place(reg, offset, stack) == [reg |-> reg, offset |-> offset, stack |-> stack]

\* DW_OP_regN, DW_OP_bregN and DW_OP_fbreg, whose frame base is the CFA.
translate_expr(expr, cfa) ==
  CASE expr.op = "reg" -> Place(expr.reg, 0, FALSE)
    [] expr.op = "breg" -> Place(expr.reg, expr.offset, FALSE)
    [] expr.op = "fbreg" -> Place(cfa.reg, cfa.offset + expr.offset, TRUE)

classify_param(g, p) ==
  LET d == g.type[Stripped(g, p.type)]
  IN CASE d.tag \in {"pointer", "reference", "enum"} -> "INTEGER"
       [] d.tag = "base" /\ d.size <= 8 -> "INTEGER"
       [] d.tag = "struct" /\ d.size > 16 -> "MEMORY"
       [] OTHER -> "UNHANDLED"

FiveRegisters == << 5, 4, 1, 2, 8 >>   \* mutant

kIntArgRegs == << 5, 4, 1, 2, 8, 9 >>   \* RDI RSI RDX RCX R8 R9
Rounded(size) == 8 * ((size + 7) \div 8)

\* Where the i-th parameter is on entry by the calling convention.
abi_param_location(g, f, i) ==
  LET params == g.func[f].params
      class == [j \in 1 .. i |-> classify_param(g, params[j])]
      integers(j) == Cardinality({k \in 1 .. j - 1 : class[k] = "INTEGER"})
      inRegister(j) == class[j] = "INTEGER" /\ integers(j) < Len(kIntArgRegs)
      slot(j) == IF inRegister(j) THEN 0
                 ELSE IF class[j] = "INTEGER" THEN 8
                 ELSE Rounded(g.type[Stripped(g, params[j].type)].size)
      before == FoldLeft(LAMBDA sum, j : sum + slot(j), 0, [j \in 1 .. i - 1 |-> j])
  IN IF \E j \in 1 .. i : class[j] = "UNHANDLED" THEN Failed
     ELSE IF inRegister(i) THEN Place(kIntArgRegs[integers(i) + 1], 0, FALSE)
     ELSE translate_expr([op |-> "fbreg", offset |-> before], g.func[f].cfa)

ParamNo(g, f, name) ==
  CHOOSE i \in DOMAIN g.func[f].params : g.func[f].params[i].name = name

translate_param_location(g, f, name) ==
  LET i == ParamNo(g, f, name)
      loc == g.func[f].params[i].loc
  IN IF loc = Unplaced THEN abi_param_location(g, f, i)
                       ELSE translate_expr(loc, g.func[f].cfa)

-----------------------------------------------------------------------------
(* Paths                                                                   *)

\* One [offset, pointer] for each member of the path; a cast replaces the type
\* the next member is looked up in, and keeps the pointer.
translate_fields(g, type, path) ==
  LET cast(at, name) ==
        IF g.type[Stripped(g, at.type)].tag \in {"pointer", "reference"}
          THEN [at EXCEPT !.type = resolve_type_name(name), !.pointer = TRUE]
          ELSE Failed
      member(at, name) ==
        LET b == Behind(g, at.type)
            m == find_class_member(g, b.type, name)
        IN IF b.type = Failed \/ m = Failed THEN Failed
           ELSE [type |-> m.type, pointer |-> FALSE,
                 fields |-> Append(at.fields, [offset |-> m.at,
                                               pointer |-> at.pointer \/ b.pointer])]
      next(at, name) ==
        IF name \in Casts THEN cast(at, name) ELSE member(at, name)
  IN FoldLeft(LAMBDA at, name : IF at = Failed THEN Failed ELSE next(at, name),
              [type |-> type, pointer |-> FALSE, fields |-> << >>], path)

\* One entry of mod_func2vf.  Index 0 of its fields is never used and left out.
handle_function(g, f, path) ==
  LET p == g.func[f].params[ParamNo(g, f, Head(path))]
  IN [varloc |-> translate_param_location(g, f, Head(path)),
      fields |-> translate_fields(g, p.type, Tail(path)).fields]

fill_map_hprobes(g) ==
  LET slots(f) == {func_id(f) + i - 1 : i \in DOMAIN osd_probes[f]}
  IN [s \in UNION {slots(f) : f \in Probed} |->
        LET f == CHOOSE x \in Probed : s \in slots(x)
        IN handle_function(g, f, osd_probes[f][s - func_id(f) + 1])]

\* A parameter on the stack is an object there; one in a register is a pointer
\* already.
First(vf, cur) ==
  LET a == cur + vf.varloc.offset
  IN IF ~vf.varloc.stack THEN cur
     ELSE IF vf.fields[1].pointer THEN MemOf(a) ELSE a

fetch_var_member_addr(vf, cur) ==
  LET fs == vf.fields
  IN IF cur = 0 THEN 0
     ELSE FoldLeft(LAMBDA addr, fd : (IF fd.pointer THEN MemOf(addr) ELSE addr) + fd.offset,
                   First(vf, cur) + fs[1].offset,
                   SubSeq(fs, 2, IF Len(fs) < MAX_FIELDS THEN Len(fs) ELSE MAX_FIELDS - 1))

\* The address a handler reads at.
read_hprobe_varfield(hprobes, varid, regs) ==
  LET vf == hprobes[varid] IN fetch_var_member_addr(vf, regs[vf.varloc.reg])

-----------------------------------------------------------------------------
(* Where the field is: the meaning of the path in C++.  A value of a       *)
(* parameter in a register has no address, only what it points to has.     *)

\* The type a name stands for, wherever it is defined.
Defined(g, t) ==
  LET walk[u \in DOMAIN g.type] ==
        IF g.type[u].tag \in {"cv", "declaration"} THEN walk[g.type[u].to] ELSE u
  IN walk[t]

Object(addr, type) == [in |-> "memory", at |-> addr, type |-> type]

\* . and ->, with every pointer followed where it is met.
Member(g, o, name) ==
  LET follow[n \in 0 .. 3] ==
        IF n = 0 THEN [o EXCEPT !.type = Defined(g, @)]
        ELSE LET x == follow[n - 1]
             IN IF g.type[x.type].tag \notin {"pointer", "reference"} THEN x
                ELSE Object(IF x.in = "register" THEN x.at ELSE MemOf(x.at),
                            Defined(g, g.type[x.type].to))
      m == CHOOSE x \in find_member_offset_in(g, follow[3].type, name) : TRUE
  IN Object(follow[3].at + m.offset, m.type)

FieldAddress(g, f, path, regs) ==
  LET p == g.func[f].params[ParamNo(g, f, Head(path))]
      cfa == regs[g.func[f].cfa.reg] + g.func[f].cfa.offset
      start == IF p.place.in = "register"
                 THEN [in |-> "register", at |-> regs[p.place.at], type |-> p.type]
                 ELSE Object(cfa + p.place.at, p.type)
  IN FoldLeft(LAMBDA o, name :
                IF name \in Casts THEN [o EXCEPT !.type = CastPointer]
                                  ELSE Member(g, o, name),
              start, Tail(path)).at
=============================================================================
