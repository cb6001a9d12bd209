--------------------------- MODULE VariableTable ---------------------------
(***************************************************************************)
(* The symbol table of the assembler, class Variables of                   *)
(* backend/assembler/variables.hpp, for 16-bit programs (the 32-bit table  *)
(* of the class is declared and never filled).                             *)
(*                                                                         *)
(* The module holds the state of the table and the operations on it and no *)
(* behaviour of its own: TableClient drives it the way a well-formed       *)
(* program does, Assembly the way any program does.                        *)
(*                                                                         *)
(* An entry is named by its position: <<i, 0>> is bit16_variable_metadata  *)
(* [i] and <<i, x + 1>> is its subset_variables[x].  Indices count from 0  *)
(* as they do in the code.  `address' plays two parts, as it does there:   *)
(* it holds the ordinal of the declaration until pass 1 presents that      *)
(* ordinal, and the memory address from then on.                           *)
(***************************************************************************)
EXTENDS Integers, FiniteSets

CONSTANTS
    Word,   \* number of values of a usint16: 2^16 in the code
    Byte    \* number of values of a usint8: 2^8 in the code

ASSUME WidthAssumption == Word \in Nat \ {0} /\ Byte \in Nat \ {0}

VARIABLES
    bit16_length,            \* main variables declared so far
    subset_variables_count,  \* main index -> number of its subset variables
    metadata,                \* entry -> [name, size, address]
    last_program_counter,    \* pass 1: program counter of the last placement
    last_address,            \* pass 1: running address
    index,                   \* pass 1: next main variable expected
    last_subset_var_id,      \* pass 1: subset index of the last placement
    last_was_subset_var,     \* pass 1: the last placement was a subset variable
    corrupted                \* memory outside the table was read and used, or written

declared == <<bit16_length, subset_variables_count, metadata>>
placement == <<last_program_counter, last_address, index,
               last_subset_var_id, last_was_subset_var>>
tableVars == <<declared, placement, corrupted>>

DataTypes == {"db", "dw", "dd"}

Bytes(size) == IF size = "db" THEN 1 ELSE IF size = "dw" THEN 2 ELSE 4

Main(i) == <<i, 0>>
Sub(i, x) == <<i, x + 1>>

\* The entries a table of n main variables with these subset counts has.
Entries(n, counts) ==
    UNION {{i} \X (0 .. counts[i]) : i \in 0 .. n - 1}

TableInit ==
    /\ bit16_length = 0
    /\ subset_variables_count = [i \in {} |-> 0]
    /\ metadata = [k \in {} |-> [name |-> "", size |-> "db", address |-> 0]]
    /\ last_program_counter = 0
    /\ last_address = 0
    /\ index = 0
    /\ last_subset_var_id = 0
    /\ last_was_subset_var = FALSE
    /\ corrupted = FALSE

-----------------------------------------------------------------------------
(***************************************************************************)
(* Declaration.  Both operations store in `address' the number of main     *)
(* variables plus the sum of all subset counts, which is the number of     *)
(* entries the table has before the addition.                              *)
(***************************************************************************)
\* Mutant: the subset counts are left out of the sum.
OrdinalOfMains == bit16_length % Word

Ordinal == Cardinality(DOMAIN metadata) % Word

Insert(k, name, size) ==
    metadata' = [e \in DOMAIN metadata \cup {k} |->
                    IF e = k
                    THEN [name |-> name, size |-> size, address |-> Ordinal]
                    ELSE metadata[e]]

\* The summing loop counts a usint8 up to bit16_length and never leaves it
\* once there are Byte variables.
AddVariableSpins == bit16_length >= Byte

AddVariable(name, size) ==
    /\ ~AddVariableSpins
    /\ Insert(Main(bit16_length), name, size)
    /\ bit16_length' = bit16_length + 1
    /\ subset_variables_count' =
           [i \in 0 .. bit16_length |->
               IF i = bit16_length THEN 0 ELSE subset_variables_count[i]]
    /\ UNCHANGED <<placement, corrupted>>

\* With no main variable the code indexes the vector with -1.
AddSubsetVariable(name, size) ==
    IF bit16_length = 0
    THEN /\ corrupted' = TRUE
         /\ UNCHANGED <<declared, placement>>
    ELSE LET i == bit16_length - 1 IN
         /\ Insert(Sub(i, subset_variables_count[i]), name, size)
         /\ subset_variables_count' =
                [subset_variables_count EXCEPT ![i] = @ + 1]
         /\ UNCHANGED <<bit16_length, placement, corrupted>>

-----------------------------------------------------------------------------
(***************************************************************************)
(* Placement: add_mem_address_to_variable(var_id, program_counter, origin).*)
(***************************************************************************)

\* The entry whose size the call first adds to last_address, if any.
Previous ==
    IF last_was_subset_var THEN Sub(index - 1, last_subset_var_id)
                           ELSE Main(index - 1)

\* Mutant: the size is always that of the main variable.
GrownByMain ==
    IF index = 0 THEN last_address
                 ELSE last_address + Bytes(metadata[Main(index - 1)].size)

Grown ==
    IF index = 0 THEN last_address
                 ELSE last_address + Bytes(metadata[Previous].size)

\* Once its size is added, the previous entry no longer counts as a subset.
FlagAfterGrowth == index = 0 /\ last_was_subset_var

MatchesMain(id) ==
    index < bit16_length /\ metadata[Main(index)].address = id

\* Mutant: the id is compared with >=.
MatchingSubsetsFrom(id) ==
    {k \in DOMAIN metadata : /\ k[1] < index
                             /\ k[2] \in 1 .. Byte
                             /\ metadata[k].address >= id}

\* Subset variables the nested loops may stop at; both counters are usint8.
MatchingSubsets(id) ==
    {k \in DOMAIN metadata : /\ k[1] < index
                             /\ k[2] \in 1 .. Byte
                             /\ metadata[k].address = id}

FirstInOrder(S) ==
    CHOOSE k \in S : \A e \in S : k[1] < e[1] \/ (k[1] = e[1] /\ k[2] <= e[2])

\* A main variable with Byte or more subset variables traps the inner loop.
SearchSpins(id) ==
    \E i \in 0 .. index - 1 :
        /\ subset_variables_count[i] >= Byte
        /\ \A k \in MatchingSubsets(id) : k[1] > i

\* Mutant: the program counter is not taken back by 1.
PlaceVariableAtCounter(id, program_counter, origin) ==
    LET addr == CASE last_program_counter # program_counter /\ index = 0 ->
                        program_counter + origin
                  [] Grown = 0 -> program_counter + origin + id
                  [] OTHER -> Grown + (program_counter - last_program_counter)
    IN  /\ MatchesMain(id)
        /\ metadata' = [metadata EXCEPT ![Main(index)].address = addr % Word]
        /\ last_address' = addr % Word
        /\ last_program_counter' = program_counter
        /\ index' = (index + 1) % Byte
        /\ last_was_subset_var' = FlagAfterGrowth
        /\ UNCHANGED <<bit16_length, subset_variables_count,
                       last_subset_var_id, corrupted>>

PlaceVariable(id, program_counter, origin) ==
    LET same == last_program_counter = program_counter
        addr == CASE same /\ Grown # 0 -> Grown
                  [] same /\ Grown = 0 -> program_counter + origin + id
                  [] ~same /\ index > 0 ->
                        Grown + ((program_counter - 1) - last_program_counter)
                  [] OTHER -> (program_counter - 1) + origin
    IN  /\ MatchesMain(id)
        /\ metadata' = [metadata EXCEPT ![Main(index)].address = addr % Word]
        /\ last_address' = addr % Word
        /\ last_program_counter' = program_counter
        /\ index' = (index + 1) % Byte
        /\ last_was_subset_var' = FlagAfterGrowth
        /\ UNCHANGED <<bit16_length, subset_variables_count,
                       last_subset_var_id, corrupted>>

\* Mutant: last_address is not brought forward.
PlaceSubsetBehind(id, program_counter) ==
    LET k == FirstInOrder(MatchingSubsets(id))
    IN  /\ ~MatchesMain(id)
        /\ MatchingSubsets(id) # {}
        /\ metadata' = [metadata EXCEPT ![k].address = Grown % Word]
        /\ last_program_counter' = program_counter
        /\ last_subset_var_id' = k[2] - 1
        /\ last_was_subset_var' = TRUE
        /\ UNCHANGED <<bit16_length, subset_variables_count, last_address,
                       index, corrupted>>

PlaceSubset(id, program_counter) ==
    LET k == FirstInOrder(MatchingSubsets(id))
        addr == IF last_program_counter = program_counter
                THEN Grown
                ELSE metadata[Main(k[1])].address + id
    IN  /\ ~MatchesMain(id)
        /\ MatchingSubsets(id) # {}
        /\ metadata' = [metadata EXCEPT ![k].address = addr % Word]
        /\ last_address' = addr % Word
        /\ last_program_counter' = program_counter
        /\ last_subset_var_id' = k[2] - 1
        /\ last_was_subset_var' = TRUE
        /\ UNCHANGED <<bit16_length, subset_variables_count, index, corrupted>>

\* No entry holds the id: only the growth of last_address stays.
PlaceNothing(id) ==
    /\ ~MatchesMain(id)
    /\ MatchingSubsets(id) = {}
    /\ last_address' = Grown
    /\ last_was_subset_var' = FlagAfterGrowth
    /\ UNCHANGED <<declared, last_program_counter, index,
                   last_subset_var_id, corrupted>>

\* Mutant: the last main variable counts as placed before it is.
PastEndEarly == index + 1 >= bit16_length

\* With every main variable placed the code compares id with the slot past the
\* end of the vector.  When what lies there happens to equal id, it is taken for
\* the next main variable and written to.
PastEnd == index >= bit16_length

\* The size of a subset variable that the previous main variable does not have.
GrowthReadsPastEnd ==
    index > 0 /\ Previous \notin DOMAIN metadata

Corrupt ==
    /\ corrupted' = TRUE
    /\ UNCHANGED <<declared, placement>>

AddMemAddress(id, program_counter, origin) ==
    \/ /\ ~GrowthReadsPastEnd
       /\ bit16_length > 0
       /\ ~SearchSpins(id) \/ MatchesMain(id)
       /\ \/ PlaceVariable(id, program_counter, origin)
          \/ PlaceSubset(id, program_counter)
          \/ PlaceNothing(id)
    \/ /\ GrowthReadsPastEnd \/ PastEnd
       /\ Corrupt

-----------------------------------------------------------------------------
(***************************************************************************)
(* Lookups.  The table is scanned main variable by main variable, each one *)
(* before its subset variables, and the first hit wins.                    *)
(***************************************************************************)
Named(name) == {k \in DOMAIN metadata : metadata[k].name = name}
Addressed(address) == {k \in DOMAIN metadata : metadata[k].address = address}

\* get_variable_by_name: for a subset variable var_data is the main variable
\* that owns it, and the callers read its address.
AddressByName(name) == metadata[Main(FirstInOrder(Named(name))[1])].address

\* Mutant: subset variables are not searched.
SizeByMainAddress(address) ==
    LET mains == {k \in Addressed(address) : k[2] = 0}
    IN  IF mains = {} THEN "db" ELSE metadata[FirstInOrder(mains)].size

\* get_variable_size: a byte when nothing has the address.
SizeByAddress(address) ==
    IF Addressed(address) = {} THEN "db"
    ELSE metadata[FirstInOrder(Addressed(address))].size
=============================================================================
