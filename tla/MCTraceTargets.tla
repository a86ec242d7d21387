--------------------------- MODULE MCTraceTargets ---------------------------
(* A host and two containers, and three builds whose types differ by shifted  *)
(* members.                                                                   *)
EXTENDS TraceTargets

T(tag, to) == [tag |-> tag, to |-> to, size |-> 8, members |-> << >>]
Struct(size, members) == [tag |-> "struct", to |-> "void", size |-> size, members |-> members]
M(name, at, type) == [kind |-> "member", name |-> name, at |-> at, type |-> type]
Base(at, type) == [kind |-> "base", name |-> "", at |-> at, type |-> type]
Anonymous(at, type) == [kind |-> "anonymous", name |-> "", at |-> at, type |-> type]

\* The types the paths go through, with k bytes more in front of some members.
Types(k) == [t \in {"OpRequestRef&", "const OpRequestRef", "OpRequestRef", "OpRequest*",
                    "OpRequest", "TrackedOp", "Message*", "Message", "header", "osd_reqid_t",
                    "entity_name_t", "int", "MOSDRepOp", "MOSDRepOp*", "MOSDFastDispatchOp",
                    "hobject_t", "object_t", "string", "chars", "RepModifyRef&", "RepModifyRef",
                    "__shared_ptr", "RepModify*", "RepModify", "OpContext*", "OpContext",
                    "OpContext decl", "ObjectState", "object_info_t", "PGTransaction", "OSDOp", "ceph_osd_op",
                    "ops", "cls", "bufferlist", "vector<OSDOp>*", "vector<OSDOp>",
                    "_Vector_base", "_Vector_impl", "_Vector_impl_data"} |->
  CASE t = "OpRequestRef&" -> T("reference", "const OpRequestRef")
    [] t = "const OpRequestRef" -> T("cv", "OpRequestRef")
    [] t = "OpRequestRef" -> Struct(8, << M("px", 0, "OpRequest*") >>)
    [] t = "OpRequest*" -> T("pointer", "OpRequest")
    [] t = "OpRequest" -> Struct(400, << Base(0, "TrackedOp"), M("request", 200 + k, "Message*"),
                                         M("reqid", 208 + k, "osd_reqid_t") >>)
    [] t = "TrackedOp" -> Struct(200, << M("initiated_at", 16, "int") >>)
    [] t = "Message*" -> T("pointer", "Message")
    [] t = "Message" -> Struct(300, << M("header", 16, "header"), M("data", 100, "bufferlist"),
         M("recv_stamp", 140 + k, "int"), M("dispatch_stamp", 148 + k, "int"),
         M("throttle_stamp", 156 + k, "int"), M("recv_complete_stamp", 164 + k, "int") >>)
    [] t = "header" -> Struct(53, << M("type", 16, "int") >>)
    [] t = "osd_reqid_t" -> Struct(40, << M("name", 0, "entity_name_t"), M("tid", 16, "int") >>)
    [] t = "entity_name_t" -> Struct(16, << M("_num", 8, "int") >>)
    [] t = "int" -> T("base", "void")
    [] t = "MOSDRepOp*" -> T("pointer", "MOSDRepOp")
    [] t = "MOSDRepOp" -> Struct(600, << Base(0, "MOSDFastDispatchOp"), M("poid", 380 + k, "hobject_t") >>)
    [] t = "MOSDFastDispatchOp" -> Struct(300, << Base(0, "Message") >>)
    [] t = "hobject_t" -> Struct(150, << M("oid", 0, "object_t") >>)
    [] t = "object_t" -> Struct(32, << M("name", 0, "string") >>)
    [] t = "string" -> Struct(32, << M("_M_dataplus", 0, "chars"), M("_M_string_length", 8, "int") >>)
    [] t = "chars" -> Struct(8, << M("_M_p", 0, "int") >>)
    [] t = "RepModifyRef&" -> T("reference", "RepModifyRef")
    [] t = "RepModifyRef" -> Struct(16, << Base(0, "__shared_ptr") >>)
    [] t = "__shared_ptr" -> Struct(16, << M("_M_ptr", 0, "RepModify*") >>)
    [] t = "RepModify*" -> T("pointer", "RepModify")
    [] t = "RepModify" -> Struct(100, << M("op", 16 + k, "OpRequestRef") >>)
    [] t = "OpContext*" -> T("pointer", "OpContext decl")
    [] t = "OpContext decl" -> T("declaration", "OpContext")
    [] t = "OpContext" -> Struct(900, << M("reqid", 8 + k, "osd_reqid_t"), M("ops", 48 + k, "vector<OSDOp>*"),
                                        M("new_obs", 160 + k, "ObjectState") >>)
    [] t = "ObjectState" -> Struct(600, << M("oi", 0, "object_info_t") >>)
    [] t = "object_info_t" -> Struct(500, << M("soid", 0, "hobject_t") >>)
    [] t = "PGTransaction" -> Struct(64, << >>)
    [] t = "OSDOp" -> Struct(168 + k, << M("op", 0, "ceph_osd_op"), M("indata", 88 + k, "bufferlist") >>)
    [] t = "ceph_osd_op" -> Struct(38, << M("op", 0, "int"), Anonymous(6, "ops") >>)
    [] t = "ops" -> Struct(24, << M("cls", Unplaced, "cls") >>)
    [] t = "cls" -> Struct(8, << M("class_len", 0, "int"), M("method_len", 1, "int") >>)
    [] t = "bufferlist" -> Struct(32, << M("_carriage", 8, "int"), M("_len", 16, "int") >>)
    [] t = "vector<OSDOp>*" -> T("pointer", "vector<OSDOp>")
    [] t = "vector<OSDOp>" -> Struct(24, << Base(0, "_Vector_base") >>)
    [] t = "_Vector_base" -> Struct(24, << M("_M_impl", 0, "_Vector_impl") >>)
    [] t = "_Vector_impl" -> Struct(24, << Base(0, "_Vector_impl_data") >>)
    [] t = "_Vector_impl_data" -> Struct(24, << M("_M_start", 0, "int"), M("_M_finish", 8, "int") >>)]

Param(name, type, loc, place) == [name |-> name, type |-> type, loc |-> loc, place |-> place]
InRegister(r) == [in |-> "register", at |-> r]
OnStack(o) == [in |-> "stack", at |-> o]
InReg(name, type, r) == Param(name, type, [op |-> "reg", reg |-> r], InRegister(r))
Entry == [reg |-> 7, offset |-> 8]

\* reqid of submit_transaction is passed by value on the stack, behind two
\* parameters there are no registers for; with k > 0 it has no location.
Functions(k) == [f \in DOMAIN osd_probes |->
  [cfa |-> Entry,
   params |-> CASE f = "OSD::enqueue_op" ->
                     << InReg("this", "OpContext*", 5), InReg("op", "OpRequestRef&", 1) >>
                [] f = "PrimaryLogPG::execute_ctx" -> << InReg("this", "OpContext*", 5), InReg("ctx", "OpContext*", 4) >>
                [] f = "ReplicatedBackend::submit_transaction" ->
                     << InReg("this", "OpContext*", 5), InReg("hoid", "OpContext*", 4),
                        InReg("at_version", "OpContext*", 1), InReg("t", "RepModifyRef&", 2),
                        InReg("trim_to", "OpContext*", 8), InReg("log_entries", "OpContext*", 9),
                        Param("on_all_commit", "OpContext*", Unplaced, OnStack(0)),
                        Param("tid", "int", Unplaced, OnStack(8)),
                        Param("reqid", "osd_reqid_t",
                              IF k = 0 THEN [op |-> "fbreg", offset |-> 16] ELSE Unplaced, OnStack(16)) >>
                [] OTHER -> << InReg("this", "OpContext*", 5), InReg("rm", "RepModifyRef&", 4) >>]]

Layout(k) == [type |-> Types(k), func |-> Functions(k), offsetof |-> << 96 + k, 6, 7 >>]
MCDebug == [b \in {"B1", "B2", "B3"} |-> Layout(CASE b = "B1" -> 0 [] b = "B2" -> 8 [] b = "B3" -> 24)]

MCRegs == [r \in 0 .. 15 |-> 1000 + 100 * r]
MCMemOf(a) == 2000 + ((37 * a) % 9973)

MCVersionOf == [b \in {"B1", "B2", "B3"} |-> CASE b = "B1" -> "v1" [] b = "B2" -> "v2" [] b = "B3" -> "v3"]
MCInstalled == [ns \in {"host", "c1", "c2"} |->
  CASE ns = "host" -> << "B1", "B3" >> [] ns = "c1" -> << "B1", "B2" >> [] ns = "c2" -> << "B2" >>]
MCPathOf == [ns \in {"host", "c1", "c2"} |-> "/usr/bin/ceph-osd"]
MCNsOf == << "host", "c1", "c2", "c1", "host" >>
MCOsdOf == << "0", "1", "2", "1", "none" >>

Json(b, tables) == [build |-> b, version |-> MCVersionOf[b], tables |-> tables]
Default == [all |-> FALSE, ids |-> {}, ps |-> {}, import |-> None, skip |-> FALSE, export |-> FALSE]
MCOptions ==
  {Default, [Default EXCEPT !.all = TRUE], [Default EXCEPT !.all = TRUE, !.ps = {1}]}
  \cup {[Default EXCEPT !.ps = ps] : ps \in {{1}, {2}, {5}, {1, 2}}}
  \cup {[Default EXCEPT !.ids = ids] : ids \in {{"0"}, {"1"}, {"0", "1"}}}
  \cup {[Default EXCEPT !.import = Json(b, Tables)] : b \in {"B1", "B3"}}
  \cup {[Default EXCEPT !.import = Json("B2", Tables), !.ps = {3}, !.skip = TRUE],
        [Default EXCEPT !.import = Json("B1", {"func2vf"}), !.ps = {1}],
        [Default EXCEPT !.export = TRUE, !.import = Json("B1", Tables)],
        [Default EXCEPT !.export = TRUE], [Default EXCEPT !.export = TRUE, !.ps = {2}]}
=============================================================================
