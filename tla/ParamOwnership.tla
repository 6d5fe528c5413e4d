--------------------------- MODULE ParamOwnership ---------------------------
(***************************************************************************)
(* The owned parameters of src/src/pqwire.c: pqwire_param_clear, _set_text, *)
(* _set_binary, _set_null, and the loop body of                             *)
(* pqwire_bind_inject_identity, which copies the parameters of a Bind into   *)
(* an array of the caller and the identity into one of its slots.            *)
(*                                                                         *)
(* A memory is a record of the array and of the live blocks of the heap.    *)
(* Every malloc may fail: an operation is the set of its outcomes, each a    *)
(* memory and a return code.                                                *)
(***************************************************************************)
EXTENDS BindCodec, FiniteSets, Functions

NULL == 0

\* A block number that is not in use.
FreshBlock(heap) ==
    CHOOSE b \in 1 .. Cardinality(DOMAIN heap) + 1 : b \notin DOMAIN heap
Allocate(mem, data) ==
    [mem EXCEPT !.heap = [b \in DOMAIN @ \cup {FreshBlock(@)} |->
                             IF b \in DOMAIN @ THEN @[b] ELSE data]]
Free(mem, block) == [mem EXCEPT !.heap = Restrict(@, DOMAIN @ \ {block})]

Outcome(mem, rc) == [mem |-> mem, rc |-> rc]
Success == 0
Failure == -1

\* An array of n parameters that the caller has set to zero.
Param(length, data, owned, format) ==
    [length |-> length, data |-> data, owned |-> owned, format |-> format]
ZeroParams(n) ==
    [params |-> [i \in 1 .. n |-> Param(0, NULL, FALSE, 0)], heap |-> <<>>]

\* pqwire_param_clear.
Clear(mem, i) ==
    LET p == mem.params[i]
        released == IF p.owned /\ p.data # NULL THEN Free(mem, p.data) ELSE mem
    IN  [released EXCEPT !.params[i] = Param(-1, NULL, FALSE, 0)]

\* A parameter that owns a new block.
Own(mem, i, data, format) ==
    [Allocate(mem, data) EXCEPT
        !.params[i] = Param(Len(data), FreshBlock(mem.heap), TRUE, format)]
OwnNothing(mem, i, format) ==
    [mem EXCEPT !.params[i] = Param(0, NULL, TRUE, format)]

\* pqwire_param_set_text: the text ends at its first NUL.  malloc(0) returns
\* a block or NULL, and NULL is no failure then.
Text(data) == Slice(data, 0, AfterCstr(data \o <<0>>, 0) - 1)
SetText(mem, i, data) ==
    LET cleared == Clear(mem, i)
        text == Text(data)
    IN  {Outcome(Own(cleared, i, text, 0), Success),
         IF text = <<>> THEN Outcome(OwnNothing(cleared, i, 0), Success)
         ELSE Outcome(cleared, Failure)}

\* pqwire_param_set_binary of data that is there.
SetBinary(mem, i, data) ==
    LET cleared == Clear(mem, i)
    IN  IF data = <<>> THEN {Outcome(OwnNothing(cleared, i, 1), Success)}
        ELSE {Outcome(Own(cleared, i, data, 1), Success), Outcome(cleared, Failure)}

\* pqwire_param_set_null, and the format that inject_identity adds.
SetNull(mem, i, format) ==
    {Outcome([Clear(mem, i) EXCEPT !.params[i].format = format], Success)}

\* Mutant: the copy is released only after a success.
CopyTextLeaking(mem, i, data) ==
    LET tmp == FreshBlock(mem.heap)
    IN  {Outcome(mem, Failure)}
            \cup {IF o.rc = Success THEN Outcome(Free(o.mem, tmp), o.rc) ELSE o :
                     o \in SetText(Allocate(mem, data), i, data)}

\* A text value goes through a copy with a terminator.
CopyText(mem, i, data) ==
    LET tmp == FreshBlock(mem.heap)
    IN  {Outcome(mem, Failure)}
            \cup {Outcome(Free(o.mem, tmp), o.rc) :
                     o \in SetText(Allocate(mem, data), i, data)}

\* Mutant: NULL becomes an empty value.
InjectParamNoNull(mem, body, bind, i, slot, identity, as_binary) ==
    LET v == bind.params[i]
        cleared == Clear(mem, i)
        data == Slice(body, v.off, IF v.length < 0 THEN 0 ELSE v.length)
    IN  CASE i - 1 = slot -> IF as_binary THEN SetBinary(cleared, i, identity)
                             ELSE SetText(cleared, i, identity)
          [] i - 1 # slot /\ v.format = 1 -> SetBinary(cleared, i, data)
          [] OTHER -> CopyText(cleared, i, data)

\* One iteration of the loop of pqwire_bind_inject_identity.
InjectParam(mem, body, bind, i, slot, identity, as_binary) ==
    LET v == bind.params[i]
        cleared == Clear(mem, i)
        data == Slice(body, v.off, v.length)
    IN  CASE i - 1 = slot -> IF as_binary THEN SetBinary(cleared, i, identity)
                             ELSE SetText(cleared, i, identity)
          [] i - 1 # slot /\ v.length < 0 -> SetNull(cleared, i, v.format)
          [] i - 1 # slot /\ v.length >= 0 /\ v.format = 1 ->
                 SetBinary(cleared, i, data)
          [] OTHER -> CopyText(cleared, i, data)

\* Clear for every parameter of the array.
ClearAll(mem) ==
    LET freed == {mem.params[i].data : i \in {j \in DOMAIN mem.params : mem.params[j].owned}}
    IN  [params |-> [i \in DOMAIN mem.params |-> Param(-1, NULL, FALSE, 0)],
         heap |-> Restrict(mem.heap, DOMAIN mem.heap \ freed)]

\* pqwire_send_bind_params with the first n parameters.
send_bind_params(mem, n, result_formats) ==
    LET Bytes(p) == IF p.length > 0 THEN mem.heap[p.data] ELSE <<>>
    IN  send_bind(<<>>, <<>>,
                  [i \in 1 .. n |-> mem.params[i].format],
                  [i \in 1 .. n |-> Value(mem.params[i].length, Bytes(mem.params[i]))],
                  result_formats)

=============================================================================
