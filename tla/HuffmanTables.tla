--------------------------- MODULE HuffmanTables ----------------------------
(* The decoding tables that the adapter is sent with every jpeg
   (cnm.c, build_derived_huffman): for each code length the first and the last
   code of that length and the index of its first symbol, made in one pass over
   the numbers of codes per length.  A length without codes gets a mark that
   no code may match.

   What they must say is defined here from the codes of a jpeg: they are numbered
   on within a length and go over to a longer one by appending a zero. *)
EXTENDS Integers, Sequences

CONSTANTS
    Lengths,        \* 16 in the code
    Symbols         \* 256: a count is a byte, and so is a symbol

ASSUME HuffmanAssumption == Lengths \in Nat \ {0} /\ Symbols \in Nat \ {0}

Pow2[n \in Nat] == IF n = 0 THEN 1 ELSE 2 * Pow2[n - 1]

Marker   == Pow2[Lengths] - 1   \* 0xffff
NoSymbol == Symbols - 1         \* 0xff

VARIABLES
    bits,           \* the jpeg's numbers of codes, as far as they are read
    started, code, symbol_index,
    rows            \* valptr, min and max of each length

tableVars == <<bits, started, code, symbol_index, rows>>

TablesInit == /\ bits = << >> /\ rows = << >>
              /\ started = FALSE /\ code = 0 /\ symbol_index = 0

(* The first code of length l by a jpeg's numbers of codes: each shorter code is the
   beginning of one after the other of this length. *)
First(numbers, l) ==
    LET share[k \in 0 .. l - 1] ==
            IF k = 0 THEN 0 ELSE share[k - 1] + numbers[k] * Pow2[l - k]
    IN  share[l - 1]

(* How many symbols have codes shorter than l. *)
Shorter(numbers, l) ==
    LET some[k \in 0 .. l - 1] == IF k = 0 THEN 0 ELSE some[k - 1] + numbers[k]
    IN  some[l - 1]

(* A jpeg has no more codes of a length than those before leave room for, and none
   is all ones; and each of its codes is for another symbol. *)
RoomFor(n, l) == First(bits, l) + n < Pow2[l] /\ Shorter(bits, l) + n <= Symbols

Row(val, min, max) == rows' = Append(rows, [val |-> val, min |-> min, max |-> max])

(* Mutant: a length without codes makes the next ones no longer. *)
EmptyStays == /\ Row(NoSymbol, Marker, Marker)
              /\ UNCHANGED <<code, started, symbol_index>>

Empty == /\ Row(NoSymbol, Marker, Marker)
         /\ code' = IF started THEN 2 * code ELSE code
         /\ UNCHANGED <<started, symbol_index>>

Filled(n) == /\ Row(symbol_index, code, code - 1 + n)
             /\ symbol_index' = (symbol_index + n) % Symbols
             /\ code' = 2 * (code - 1 + n) + 2 /\ started' = TRUE

TablesNext == /\ Len(bits) < Lengths
              /\ \E n \in 0 .. Symbols - 1 :
                    /\ RoomFor(n, Len(bits) + 1)
                    /\ bits' = Append(bits, n)
                    /\ IF n = 0 THEN Empty ELSE Filled(n)

TablesSpec == TablesInit /\ [][TablesNext]_tableVars

-----------------------------------------------------------------------------
(* The adapter: it takes one bit after the other until the code is in a row. *)
Matches(l, c) == rows[l].min <= c /\ c <= rows[l].max
Prefix(c, l, m) == c \div Pow2[l - m]
DecodedAs(c, l, symbol) ==
    \E m \in 1 .. l : /\ Matches(m, Prefix(c, l, m))
                     /\ \A k \in 1 .. m - 1 : ~Matches(k, Prefix(c, l, k))
                     /\ symbol = rows[m].val + Prefix(c, l, m) - rows[m].min

(* Every row describes a code of its length or none, and a new one can follow. *)
TablesTypeOK == /\ Len(rows) = Len(bits)
                /\ \A l \in 1 .. Len(rows) :
                      \/ rows[l] = [val |-> NoSymbol, min |-> Marker, max |-> Marker]
                      \/ rows[l].min <= rows[l].max /\ rows[l].max < Pow2[l] - 1
                /\ code \in 0 .. Pow2[Len(bits) + 1] - 1

(* A row is matched by the codes of its length and by nothing else that may occur in
   a jpeg; the mark of an empty row is the one number that is no code
   (cnm.c:165-173). *)
RowsMatchTheirCodes ==
    \A l \in 1 .. Len(rows) : \A c \in (0 .. Pow2[l] - 1) \ {Marker} :
        Matches(l, c) <=> c \in First(bits, l) .. First(bits, l) + bits[l] - 1

(* Each code is read as the symbol it stands for, whatever numbers of codes
   the jpeg has (cnm.c:155-184). *)
CodesAreDecoded ==
    \A l \in 1 .. Len(rows) : \A k \in 0 .. bits[l] - 1 :
        DecodedAs(First(bits, l) + k, l, Shorter(bits, l) + k)

DecodesEveryCode == TablesTypeOK /\ RowsMatchTheirCodes /\ CodesAreDecoded
=============================================================================
