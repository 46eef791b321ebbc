----------------------------- MODULE DramAddress -----------------------------
(***************************************************************************)
(* How the DRAM system turns an address into a place: the sizes that       *)
(* GenerateAddressSizes derives from the controllers of a configuration,   *)
(* the capacity Read and Write check an address against, and the decoding  *)
(* of an address into controller, channel, rank, bank, row and column.     *)
(* controllers is the sequence of the geometries that the sections         *)
(* [MemoryController] give.                                                *)
(***************************************************************************)
EXTENDS Integers, Sequences

Components == {"channels", "ranks", "banks", "rows", "columns"}
AllComponents == Components \union {"controllers"}

LargestOf(S) == CHOOSE x \in S : \A y \in S : y <= x

\* Mutant of Log2: the number of bits of num.
Log2Bits(num) == CHOOSE n \in 0 .. num : num < 2 ^ n /\ 2 ^ n <= 2 * num

\* System::Log2: the index of the highest bit set.
Log2(num) == CHOOSE n \in 0 .. num : 2 ^ n <= num /\ num < 2 ^ (n + 1)

\* GenerateAddressSizes.
GeneratedSizes(controllers) ==
    [c \in AllComponents |->
        IF c = "controllers" THEN Log2(Len(controllers))
        ELSE LargestOf({Log2(controllers[i][c]) : i \in DOMAIN controllers})]

\* getCapacity: the largest number of channels; for the rest the loop leaves the
\* larger of the component's size in bits and the last controller's number.
getCapacity(controllers) ==
    LET last == controllers[Len(controllers)]
        Number(c) == LargestOf({GeneratedSizes(controllers)[c], last[c]})
    IN  Len(controllers)
            * LargestOf({controllers[i]["channels"] : i \in DOMAIN controllers})
            * Number("ranks") * Number("banks") * Number("rows") * Number("columns")

\* Mutant of Decode: rank and bank are taken in the wrong order.
DecodeMixed(controllers, address) ==
    LET sizes == GeneratedSizes(controllers)
        Field(skipped, c) == (address \div 2 ^ skipped) % 2 ^ sizes[c]
        row == sizes["columns"]
        bank == row + sizes["rows"]
        rank == bank + sizes["ranks"]
        channel == rank + sizes["banks"]
    IN  [columns |-> Field(0, "columns"), rows |-> Field(row, "rows"),
         banks |-> Field(bank, "banks"), ranks |-> Field(rank, "ranks"),
         channels |-> Field(channel, "channels"),
         controllers |-> Field(channel + sizes["channels"], "controllers")]

\* DecodeAddress, from the least significant bit: column, row, bank, rank, channel,
\* controller.
Decode(controllers, address) ==
    LET sizes == GeneratedSizes(controllers)
        Field(skipped, c) == (address \div 2 ^ skipped) % 2 ^ sizes[c]
        row == sizes["columns"]
        bank == row + sizes["rows"]
        rank == bank + sizes["banks"]
        channel == rank + sizes["ranks"]
    IN  [columns |-> Field(0, "columns"), rows |-> Field(row, "rows"),
         banks |-> Field(bank, "banks"), ranks |-> Field(rank, "ranks"),
         channels |-> Field(channel, "channels"),
         controllers |-> Field(channel + sizes["channels"], "controllers")]

\* Read and Write: the check of the address.
Accepted(controllers, address) == ~(address < 0 \/ address > getCapacity(controllers))
=============================================================================
