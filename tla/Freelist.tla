------------------------------ MODULE Freelist ------------------------------
(***************************************************************************)
(* internal/freelist: a last-in first-out list of pointers, and the way    *)
(* freelists.go uses it, falling back to a fresh heap object when the list *)
(* is empty.  A list is a sequence of object identities.                   *)
(***************************************************************************)
EXTENDS Naturals, Sequences

\* p is what Get returns for list fl, or, when Get returns nil, an object the
\* allocator makes out of an address nothing refers to.  Which of those it is
\* does not matter: addresses are only compared.
Gets(fl, fresh, p) ==
    IF fl = << >> THEN fresh # {} /\ p = CHOOSE x \in fresh : TRUE
                  ELSE p = fl[Len(fl)]

\* Seeded bug: Get does not unlink what it returns.
AfterGetKeeps(fl) == fl

\* The list after Get.
AfterGet(fl) == IF fl = << >> THEN fl ELSE SubSeq(fl, 1, Len(fl) - 1)

\* The list after Put(p).
AfterPut(fl, p) == Append(fl, p)

\* The set of objects on the list.
OnList(fl) == {fl[i] : i \in DOMAIN fl}

\* No object is on the list twice.
NoDuplicates(fl) == \A i, j \in DOMAIN fl : fl[i] = fl[j] => i = j
=============================================================================
