------------------------------- MODULE VNode --------------------------------
(***************************************************************************)
(* Virtual nodes (dht/vnode.rs, dht/subring.rs): a piece of data with a    *)
(* kind and a did, and the operations on it.  An operation returns a new   *)
(* virtual node, or NoVNode for an error.                                  *)
(***************************************************************************)
EXTENDS DhtTables, Sequences

CONSTANTS MaxLen,  \* VNODE_DATA_MAX_LEN
          NoVNode  \* no virtual node: Option::None, or the error of an operation

ASSUME VNodeAssumption == MaxLen \in Nat \ {0}

VirtualNode(did, kind, data) == [did |-> did, kind |-> kind, data |-> data]

\* An element of data is base58-check text if Encoder made it, and plain text
\* if From<String> did; only the former decodes.
Encoded(x) == [form |-> "base58", value |-> x]
Plain(x)   == [form |-> "plain", value |-> x]
Decodes(e) == e.form = "base58"

-----------------------------------------------------------------------------
(* Operations: the vnode or the subring they name, and who asked for them *)

Overwrite(by, vnode) == [op |-> "Overwrite", did |-> vnode.did, vnode |-> vnode, by |-> by]
Extend(by, vnode) == [op |-> "Extend", did |-> vnode.did, vnode |-> vnode, by |-> by]
Touch(by, vnode) == [op |-> "Touch", did |-> vnode.did, vnode |-> vnode, by |-> by]
JoinSubring(by, name) == [op |-> "JoinSubring", did |-> name, by |-> by]

\* TryFrom<Subring>: the JSON text is not encoded.  The finger table of a
\* subring has one slot.
SubringVNode(ring) == VirtualNode(ring.name, "Subring", <<Plain(ring)>>)

SubringJoin(ring, d) ==
    [ring EXCEPT !.finger =
        IF d # ring.name /\ (@ = NoDid \/ Bias(ring.name, d) < Bias(ring.name, @)) THEN d ELSE @]

\* gen_default_vnode
DefaultVNode(op) ==
    IF op.op = "JoinSubring"
    THEN SubringVNode([name |-> op.did, creator |-> op.by, finger |-> NoDid])
    ELSE VirtualNode(op.did, op.vnode.kind, <<>>)

-----------------------------------------------------------------------------
(* operate *)

\* A mutant: one element too many survives.
KeepLastOffByOne(s, room) == IF Len(s) > room + 1 THEN SubSeq(s, Len(s) - room, Len(s)) ELSE s

\* What skip(trim_num) leaves of s when room elements fit: the last ones.
KeepLast(s, room) ==
    LET trim == IF Len(s) > room THEN Len(s) - room ELSE 0 IN SubSeq(s, trim + 1, Len(s))

Appended(v, old, other) ==
    [v EXCEPT !.data = KeepLast(old, MaxLen - Len(other.data)) \o other.data]

\* The elements of s at the places at, in their order.
Selected(s, at) ==
    LET Nth(r) == CHOOSE i \in at : Cardinality({j \in at : j <= i}) = r
    IN  [r \in 1..Cardinality(at) |-> s[Nth(r)]]

\* The elements of v that other does not bring again.
Remains(v, other) ==
    Selected(v.data, {i \in 1..Len(v.data) : \A j \in 1..Len(other.data) : other.data[j] # v.data[i]})

Matches(v, other) == v.kind = "Data" /\ other.kind = "Data" /\ v.did = other.did

Operate(v, op) ==
    CASE op.op = "Overwrite" /\ Matches(v, op.vnode) -> op.vnode
      [] op.op = "Extend" /\ Matches(v, op.vnode) -> Appended(v, v.data, op.vnode)
      [] op.op = "Touch" /\ Matches(v, op.vnode) -> Appended(v, Remains(v, op.vnode), op.vnode)
      [] op.op = "JoinSubring" /\ v.kind = "Subring" /\ Decodes(v.data[1]) ->
            SubringVNode(SubringJoin(v.data[1].value, op.by))
      [] OTHER -> NoVNode

\* vnode_operate creates what is not there.
Existing(v, op) == IF v = NoVNode THEN DefaultVNode(op) ELSE v

\* What is stored once an operation that read a value is done: v stays when it
\* is an error.
Written(v, read, op) ==
    LET result == Operate(Existing(read, op), op) IN IF result = NoVNode THEN v ELSE result
=============================================================================
