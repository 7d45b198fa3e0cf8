------------------------------- MODULE Registry -------------------------------
(***************************************************************************)
(* The slots behind the handles of buffers, windows and workbenches        *)
(* (editor/buffer.cpp, window.cpp, workbench.cpp): a slot freed is reused, *)
(* the last one first, under its next generation. A handle is a slot with  *)
(* the generation it was given in, so that an old one finds nothing.       *)
(***************************************************************************)
EXTENDS Integers, Sequences

\* A function with another value at x.
Put(f, x, y) == [z \in DOMAIN f \cup {x} |-> IF z = x THEN y ELSE f[z]]

NoHandle == <<0, 0>>

NoSlots == [generations |-> <<>>, free |-> <<>>]

\* The handle that create() gives out next, and what it leaves.
NextHandle(slots) ==
    IF slots.free = <<>>
    THEN <<Len(slots.generations) + 1, 1>>
    ELSE LET slot == slots.free[Len(slots.free)] IN <<slot, slots.generations[slot]>>

Taken(slots) ==
    IF slots.free = <<>>
    THEN [slots EXCEPT !.generations = Append(@, 1)]
    ELSE [slots EXCEPT !.free = SubSeq(@, 1, Len(@) - 1)]

\* erase(): the generation moves on before the slot can be reused.
Freed(slots, handle) ==
    [generations |-> [slots.generations EXCEPT ![handle[1]] = @ + 1],
     free |-> Append(slots.free, handle[1])]

\* Several are erased, one after the other.
AllFreed(slots, handles) ==
    LET freed == [i \in DOMAIN handles |-> handles[i][1]] IN
    [generations |-> [i \in DOMAIN slots.generations |->
         IF \E j \in DOMAIN freed : freed[j] = i THEN slots.generations[i] + 1
         ELSE slots.generations[i]],
     free |-> slots.free \o freed]

=============================================================================
