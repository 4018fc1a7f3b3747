------------------------------- MODULE Registry -------------------------------
(***************************************************************************)
(* The registries (orderbook/src/registry/vec.rs, hashmap.rs): from stock  *)
(* locate to symbol and book.  A registry is a record                      *)
(*   kind     "vec" or "hashmap"                                           *)
(*   slots    the length of the two Vecs; not used by the hash map         *)
(*   entries  the locates registered, each with its symbol and its book    *)
(* The two tables of either implementation, books and symbols, are written *)
(* together and are one function here.                                     *)
(***************************************************************************)
EXTENDS RestingBook

CONSTANT MaxCapacity   \* MAX_CAPACITY, u16::MAX, one less than the locates

ASSUME MaxCapacityAssumption == MaxCapacity \in Nat

\* Mutant: the Vecs are one entry shorter.
NewRegistryShort(kind) ==
    [kind |-> kind, slots |-> MaxCapacity - 1, entries |-> NoEntries]

\* Registry::new; VecRegistry::new fills its Vecs with None.
NewRegistry(kind) ==
    [kind |-> kind, slots |-> MaxCapacity, entries |-> NoEntries]

Registered(r) == DOMAIN r.entries

\* VecRegistry::resize to a length of at most MAX_CAPACITY; a shorter one
\* drops what lies behind it.
Resize(r, new_len) ==
    [r EXCEPT !.slots = new_len,
              !.entries = Restrict(@, {l \in DOMAIN @ : l < new_len})]

\* Mutant: a locate that is registered again keeps its book.
RegisterKeeps(r, locate, symbol) ==
    [r EXCEPT !.entries =
        Insert(@, locate, [symbol |-> symbol,
                           book |-> IF locate \in Registered(r)
                                    THEN r.entries[locate].book
                                    ELSE NoEntries])]

\* register replaces an entry that is there, its book included.
Register(r, locate, symbol) ==
    [r EXCEPT !.entries =
        Insert(@, locate, [symbol |-> symbol, book |-> NoEntries])]

\* The case in which the Vecs' register indexes out of bounds: it resizes
\* them to `locate' entries and writes entry number `locate'.  (The assert of
\* resize never fails: a u16 is at most MAX_CAPACITY.)
RegisterPanics(r, locate) == r.kind = "vec" /\ locate >= r.slots

\* What get_mut's caller does with the book.
SetBook(r, locate, book) == [r EXCEPT !.entries[locate].book = book]

\* What iter yields, as a set: the Vecs go by locate, the hash map does not.
Entries(r) ==
    {[locate |-> l, symbol |-> r.entries[l].symbol, book |-> r.entries[l].book] :
        l \in Registered(r)}
=============================================================================
