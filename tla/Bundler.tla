------------------------------ MODULE Bundler ------------------------------
(***************************************************************************)
(* base/bundler.dyn.py: Bundler.bundle collects the capsules that a         *)
(* receiver needs to resolve ref_list, in the order in which it will decode *)
(* them.  Each step is one iteration of the loop of _collect_capsule_list.  *)
(* A ref is a number; refs are content hashes, so a capsule refers only to  *)
(* capsules made before it, except that an association is attached to its   *)
(* base from outside.  boot/unbundler.py and boot/mosaic.py: the receiver      *)
(* registers the capsules one by one, then the associations; Transport.send    *)
(* makes the next message to it from what this one left as seen.               *)
(***************************************************************************)
EXTENDS Naturals, Sequences, FiniteSets, SequencesExt, Functions

CONSTANTS
    Ref,         \* the refs in the mosaic of the sender, positive integers
    Graphs,      \* what the capsules refer to
    Roots,       \* the possible ref_list arguments
    Seen,        \* the possible seen_refs arguments
    Size,        \* Size[r]: len(capsule.encoded_object)
    Messages,    \* bound: how many messages are sent to the receiver
    Options      \* records: size, the size_limit argument, 0 if there is none; refs,
                 \* BUNDLED_REFS_LIMIT; missing, refs that mosaic.resolve_ref does not know

Phony == 0   \* the type ref of a builtin type

\* The type of a capsule; what pick_refs returns, in the order of the fields, with
\* repeats; the associations of a base.
Graph == [type : [Ref -> Ref \cup {Phony}], deps : [Ref -> Seq(Ref)],
          assoc : [Ref \cup {Phony} -> SUBSET Ref]]

ASSUME BundlerAssumption ==
    /\ Ref \subseteq Nat \ {Phony} /\ IsFiniteSet(Ref)
    /\ Graphs \subseteq Graph
    /\ Roots \subseteq Seq(Ref \cup {Phony}) /\ Seen \subseteq SUBSET Ref
    /\ Size \in [Ref -> Nat]
    /\ Messages \in Nat
    /\ Options \subseteq [size : Nat, refs : Nat, missing : SUBSET Ref]

\* What a receiver has seen came with its types and all that it refers to.
ASSUME SeenAssumption ==
    \A g \in Graphs, S \in Seen, o \in Options : \A r \in S :
        {g.type[r]} \cup ToSet(g.deps[r]) \subseteq {Phony} \cup S \cup o.missing

VARIABLES
    graph, roots, seen, option,   \* the arguments
    result,       \* result_capsule_list
    block,        \* current_capsule_list: a ref, its types and associations
    unvisited,    \* unvisited_refs
    current,      \* current_refs
    visitedRefs,  \* visited_refs
    typeIdx,      \* type_idx: type ref -> index, counted from 0, in the block
    types,        \* current_types
    asss,         \* seen_asss
    count,        \* i
    status,       \* "loop", "done", "limit" (size limit reached) or "error"; of the
                  \* receiver: "received" or "raised"
    known,        \* _ref_to_rec of the receiver's mosaic
    at,           \* register_bundle: the next capsule of the bundle
    sent          \* messages before this one

receiver == <<known, at, sent>>
args == <<graph, roots, seen, option>>
bundleVars == <<args, result, block, unvisited, current, visitedRefs, typeIdx, types, asss, count, status, receiver>>

SizeOf(seq) ==
    LET sum[n \in 0 .. Len(seq)] == IF n = 0 THEN 0 ELSE sum[n - 1] + Size[seq[n]]
    IN  sum[Len(seq)]

BundleTypeOK ==
    /\ graph \in Graph /\ roots \in Roots /\ seen \subseteq Ref /\ option \in Options
    /\ result \in Seq(Ref) /\ block \in Seq(Ref)
    /\ unvisited \in Seq(Ref \cup {Phony}) /\ current \in Seq(Ref \cup {Phony})
    /\ visitedRefs \subseteq Ref /\ types \subseteq Ref /\ asss \subseteq Ref
    /\ DOMAIN typeIdx \subseteq Ref /\ Range(typeIdx) \subseteq Nat
    /\ count \in 0 .. option.refs + 1
    /\ status \in {"loop", "done", "limit", "error", "received", "raised"}
    /\ known \subseteq Ref /\ at \in 1 .. Len(result) + 1 /\ sent \in 0 .. Messages

BundleInit ==
    /\ graph \in Graphs /\ roots \in Roots /\ seen \in Seen /\ option \in Options
    /\ result = <<>> /\ block = <<>>
    /\ unvisited = roots /\ current = <<>>
    /\ visitedRefs = seen
    /\ typeIdx = <<>> /\ types = {} /\ asss = {}
    /\ count = 0
    /\ status = "loop"
    /\ known = seen /\ at = 1 /\ sent = 0

\* Types and associations of the current ref come before the rest.
Working   == status = "loop" /\ (current # <<>> \/ unvisited # <<>>) /\ count <= option.refs
NextRef   == IF current # <<>> THEN Head(current) ELSE Head(unvisited)
PopNext   == IF current # <<>> THEN current' = Tail(current) /\ UNCHANGED unvisited
                               ELSE unvisited' = Tail(unvisited) /\ UNCHANGED current
Skipped(r) == r = Phony \/ r \in visitedRefs \/ r \in option.missing

\* The members of S in a list; their order is that of their registration.
Listing(S) == CHOOSE list \in [1 .. Cardinality(S) -> S] : Range(list) = S

\* The refs of a list that are not in met, in their order.
Unmet(list, met) ==
    LET kept[n \in 0 .. Len(list)] ==
            IF n = 0 THEN <<>>
            ELSE IF list[n] \in met THEN kept[n - 1] ELSE Append(kept[n - 1], list[n])
    IN  kept[Len(list)]

\* list.insert(target_idx, capsule) of the capsule of r: before its type in the
\* block, which is going to be reversed, or at the end.  An index may be left from
\* an earlier block; one beyond the end means the end.
TargetIdx(r) == IF graph.type[r] \in DOMAIN typeIdx THEN typeIdx[graph.type[r]] ELSE Len(block)
Inserted(r) ==
    LET k == IF TargetIdx(r) < Len(block) THEN TargetIdx(r) ELSE Len(block)
    IN  SubSeq(block, 1, k) \o <<r>> \o SubSeq(block, k + 1, Len(block))

\* The index of a type of the block is kept.
Indexed(r) ==
    IF r \in types
    THEN [t \in DOMAIN typeIdx \cup {r} |-> IF t = r THEN TargetIdx(r) ELSE typeIdx[t]]
    ELSE typeIdx

\* The mutated form forgets the blocks that are already in the result.
OverInBlock(seq) == option.size # 0 /\ SizeOf(seq) > option.size
Over(seq) == option.size # 0 /\ SizeOf(result) + SizeOf(seq) > option.size

\* _collect_associations: those of the type and those of the value.  The mutated
\* form forgets the type.
ValueAssociations(r) == graph.assoc[r]
Associations(r) == graph.assoc[graph.type[r]] \cup graph.assoc[r]

\* The type to put to the block after r.
NewType(r) == {graph.type[r]} \ ({Phony} \cup visitedRefs)

\* continue: a builtin type, a ref met before, or an unknown one.
SkipRef ==
    /\ Working
    /\ Skipped(NextRef)
    /\ PopNext
    /\ UNCHANGED <<args, result, block, visitedRefs, typeIdx, types, asss, count, status, receiver>>

\* break: the capsule does not fit any more.
ReachLimit ==
    /\ Working
    /\ ~Skipped(NextRef)
    /\ Over(Inserted(NextRef))
    /\ PopNext
    /\ block' = Inserted(NextRef)
    /\ typeIdx' = Indexed(NextRef)
    /\ status' = "limit"
    /\ UNCHANGED <<args, result, visitedRefs, types, asss, count, receiver>>

\* A capsule is put to the block.  The block ends when the ref it is for has all
\* its types and associations there.
TakeRef ==
    /\ Working
    /\ ~Skipped(NextRef)
    /\ ~Over(Inserted(NextRef))
    /\ LET r     == NextRef
           ofAss == Listing(Associations(r) \ (visitedRefs \cup {r}))
           deps  == Unmet(graph.deps[r], visitedRefs \cup {r})
           inCur == current # <<>>
           cur   == (IF inCur THEN Tail(current) ELSE <<>>) \o Listing(NewType(r)) \o ofAss
                    \o (IF inCur THEN deps ELSE <<>>)
           full  == cur = <<>>
       IN  /\ current' = cur
           /\ unvisited' = IF inCur THEN unvisited ELSE Tail(unvisited) \o deps
           /\ visitedRefs' = visitedRefs \cup {r}
           /\ typeIdx' = Indexed(r)
           /\ asss' = asss \cup Associations(r)
           /\ result' = IF full THEN result \o Reverse(Inserted(r)) ELSE result
           /\ block' = IF full THEN <<>> ELSE Inserted(r)
           /\ types' = IF full THEN {} ELSE types \cup NewType(r)
    /\ count' = count + 1
    /\ UNCHANGED <<args, status, receiver>>

\* After the loop: the last block is taken if it fits.
Finish ==
    /\ \/ status = "loop" /\ current = <<>> /\ unvisited = <<>>
       \/ status = "limit"
    /\ status' = "done"
    /\ result' = IF Over(block) THEN result ELSE result \o Reverse(block)
    /\ UNCHANGED <<args, block, unvisited, current, visitedRefs, typeIdx, types, asss, count, receiver>>

\* RuntimeError "Reached refs limit".
TooManyRefs ==
    /\ status = "loop" /\ (current # <<>> \/ unvisited # <<>>)
    /\ count > option.refs
    /\ status' = "error"
    /\ UNCHANGED <<args, result, block, unvisited, current, visitedRefs, typeIdx, types, asss, count, receiver>>

\* The refs that pyobj_creg.invite resolves to make the type of r in graph g.
TypeClosure(g, r) ==
    LET close[n \in 0 .. Cardinality(Ref)] ==
            IF n = 0 THEN {g.type[r]}
            ELSE close[n - 1] \cup UNION {ToSet(g.deps[t]) : t \in close[n - 1] \ {Phony}}
    IN  close[Cardinality(Ref)] \ {Phony}

sending == <<result, block, unvisited, current, visitedRefs, typeIdx, types, asss, count>>

\* register_capsule: nothing is done for a capsule that is there already; the value
\* of another one is decoded, which its type must be known for.
Decodable(r) == r \in known \/ TypeClosure(graph, r) \subseteq known
RegisterCapsule ==
    /\ status = "done" /\ at <= Len(result)
    /\ Decodable(result[at])
    /\ known' = known \cup {result[at]}
    /\ at' = at + 1
    /\ UNCHANGED <<args, sending, status, sent>>

\* An exception goes through register_bundle to the thread that reads the connection,
\* and the receiver stops; what was registered before stays.
RegisterFails ==
    /\ status = "done" /\ at <= Len(result)
    /\ ~Decodable(result[at])
    /\ status' = "raised"
    /\ UNCHANGED <<args, sending, receiver>>

\* All the associations of the bundle are resolved, with their bases and their
\* items, before the first one is set.
Listed == asss \cap visitedRefs
Summonable(a) == {a} \cup ToSet(graph.deps[a]) \subseteq known
RegisterAssociations ==
    /\ status = "done" /\ at > Len(result)
    /\ status' = IF \A a \in Listed : Summonable(a) THEN "received" ELSE "raised"
    /\ UNCHANGED <<args, sending, receiver>>

\* Transport.send: the refs of the next message that the last one visited are left
\* out, whether they were sent or not.
SendNext ==
    /\ status = "received" /\ sent < Messages - 1
    /\ sent' = sent + 1
    /\ seen' = visitedRefs
    /\ roots' \in Roots
    /\ result' = <<>> /\ block' = <<>> /\ unvisited' = roots' /\ current' = <<>>
    /\ visitedRefs' = seen'
    /\ typeIdx' = <<>> /\ types' = {} /\ asss' = {} /\ count' = 0 /\ at' = 1
    /\ status' = "loop"
    /\ UNCHANGED <<graph, option, known>>

BundleNext ==
    \/ SkipRef \/ ReachLimit \/ TakeRef \/ Finish \/ TooManyRefs
    \/ RegisterCapsule \/ RegisterFails \/ RegisterAssociations \/ SendNext

BundleSpec == BundleInit /\ [][BundleNext]_bundleVars

-----------------------------------------------------------------------------
Bundled == Range(result)

\* What a receiver that knows the refs in S needs to resolve the roots, with the
\* given associations.
New(T, S) == T \ ({Phony} \cup S \cup option.missing)
Refers(r, assoc) == {graph.type[r]} \cup assoc[graph.type[r]] \cup assoc[r] \cup ToSet(graph.deps[r])
Reach(S, assoc) ==
    LET reach[n \in 0 .. Cardinality(Ref)] ==
            IF n = 0 THEN New(ToSet(roots), S)
            ELSE reach[n - 1] \cup New(UNION {Refers(r, assoc) : r \in reach[n - 1]}, S)
    IN  reach[Cardinality(Ref)]
Attached(r) == graph.assoc[graph.type[r]] \cup graph.assoc[r]
Needed == Reach(seen, graph.assoc)
Referred == Reach({}, [r \in Ref \cup {Phony} |-> {}])

\* "Types and their deps should come first, or unbundler won't be able to decode
\* capsules": all that makes the type of a capsule precedes the capsule.
TypesFirst ==
    \A i \in DOMAIN result :
        \A t \in TypeClosure(graph, result[i]) \ (seen \cup option.missing) : \E j \in 1 .. i - 1 : result[j] = t

\* Without a size limit the bundle has every capsule that is needed, once, and
\* what is reported as seen from now on is what was seen or is in the bundle.  Every
\* association of what is sent is listed for the receiver to register.  The receiver
\* of the first message or a later one fails only when a type is missing or comes
\* late; when it does not, it can resolve all that the roots refer to, though not
\* an association that was attached to something after that was sent.
Complete ==
    /\ BundleTypeOK
    /\ status = "received" /\ option.size = 0 => Referred \subseteq known
    /\ status = "raised" /\ option.size = 0 /\ option.missing = {} => ~TypesFirst
    /\ status = "done" /\ option.size = 0 =>
        /\ Bundled = Needed
        /\ \A r \in Bundled : Attached(r) \ option.missing \subseteq asss \cap visitedRefs
        /\ IsInjective(result)
        /\ visitedRefs = seen \cup Bundled

\* With a size limit: the bundle keeps to it, has nothing that is not needed, and
\* no capsule comes without its type; only refs of the block that did not fit are
\* reported as seen although they are not sent.  Where every ref is known and types
\* come first, a receiver fails only for such a ref of this message or the one before,
\* or for an association that was sent without all that it refers to.
WithinLimit ==
    /\ status = "done" =>
        /\ option.size # 0 => SizeOf(result) <= option.size
        /\ Bundled \subseteq Needed /\ IsInjective(result)
        /\ \A r \in Bundled : graph.type[r] \in {Phony} \cup seen \cup option.missing \cup Bundled
        /\ visitedRefs \ (seen \cup Bundled) \subseteq Range(block)
    /\ status = "raised" /\ option.missing = {} /\ TypesFirst =>
        ~(visitedRefs \cup UNION {ToSet(graph.deps[a]) : a \in Listed} \subseteq known \cup Bundled)
=============================================================================
