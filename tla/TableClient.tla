---------------------------- MODULE TableClient ----------------------------
(***************************************************************************)
(* The symbol table under the calls the two passes make for a well-formed  *)
(* program: parser.hpp declares every variable, each subset variable right *)
(* after its main variable or after another subset of it, and then pass 1  *)
(* (preprocessor.hpp) walks the program once more, presents the ids 0, 1,  *)
(* 2, ... in the same order and moves the program counter at each `mov'    *)
(* it meets between two main variables.                                    *)
(***************************************************************************)
EXTENDS VariableTable, Sequences

CONSTANTS
    Names,      \* variable names; nothing forbids declaring one twice
    Origin,     \* operand of `org'
    MaxDecls,   \* bound: declarations of a program
    MaxCode     \* bound: `mov' instructions of a program

\* Addresses fit the 16-bit field and the usint8 counters do not wrap.
ASSUME ClientAssumption ==
    /\ Origin \in Nat /\ MaxDecls \in Nat /\ MaxCode \in Nat
    /\ MaxDecls < Byte
    /\ Origin + 3 * MaxCode + 4 * MaxDecls < Word

\* Ids and addresses live in one field; with the origin above every id the two
\* cannot be confused.
OriginAboveIds == 0 < Origin /\ MaxDecls <= Origin

VARIABLES
    pass,              \* "declare" or "assign"
    variable_id,       \* Preprocessor::variable_id, the next id to present
    program_counter,   \* counters.back()
    order,             \* history: the entries in the order of declaration
    due                \* history: entry -> origin plus the bytes before it

clientVars == <<pass, variable_id, program_counter, order, due>>
vars == <<tableVars, clientVars>>

Init ==
    /\ TableInit
    /\ pass = "declare"
    /\ variable_id = 0
    /\ program_counter = 0
    /\ order = <<>>
    /\ due = [k \in {} |-> 0]

DeclareVariable(name, size) ==
    /\ pass = "declare"
    /\ Len(order) < MaxDecls
    /\ AddVariable(name, size)
    /\ order' = Append(order, Main(bit16_length))
    /\ UNCHANGED <<pass, variable_id, program_counter, due>>

DeclareSubset(name, size) ==
    /\ pass = "declare"
    /\ bit16_length > 0
    /\ Len(order) < MaxDecls
    /\ AddSubsetVariable(name, size)
    /\ order' = Append(order, Sub(bit16_length - 1,
                                  subset_variables_count[bit16_length - 1]))
    /\ UNCHANGED <<pass, variable_id, program_counter, due>>

StartPass1 ==
    /\ pass = "declare"
    /\ order # <<>>
    /\ pass' = "assign"
    /\ UNCHANGED <<tableVars, variable_id, program_counter, order, due>>

Pending == order[variable_id + 1]

\* One `mov': 1 for the mnemonic, 1 for the register, 1 for the value, on a
\* counter that starts at 1.  Code never splits a variable from its subsets.
Code ==
    /\ pass = "assign" /\ ~corrupted
    /\ program_counter < 3 * MaxCode
    /\ variable_id < Len(order) /\ Pending[2] = 0
    /\ program_counter' =
           IF program_counter = 0 THEN 4 ELSE program_counter + 3
    /\ UNCHANGED <<tableVars, pass, variable_id, order, due>>

\* Bytes of code that precede the instruction the counter stands at.
CodeBytes == IF program_counter = 0 THEN 0 ELSE program_counter - 1

\* Where the text puts the next variable: after all the code and all the
\* variables before it.
DueNext ==
    IF variable_id = 0 THEN Origin + CodeBytes
    ELSE LET last == order[variable_id]
         IN  due[last].address + Bytes(metadata[last].size)
                 + (CodeBytes - due[last].code)

AssignMemAddress ==
    /\ pass = "assign" /\ ~corrupted
    /\ variable_id < Len(order)
    /\ AddMemAddress(variable_id, program_counter, Origin)
    /\ variable_id' = (variable_id + 1) % Byte
    /\ due' = [k \in DOMAIN due \cup {Pending} |->
                  IF k = Pending THEN [address |-> DueNext, code |-> CodeBytes]
                                 ELSE due[k]]
    /\ UNCHANGED <<pass, program_counter, order>>

Finished ==
    /\ pass = "assign"
    /\ variable_id = Len(order) \/ corrupted
    /\ UNCHANGED vars

Next ==
    \/ \E name \in Names, size \in DataTypes :
           DeclareVariable(name, size) \/ DeclareSubset(name, size)
    \/ StartPass1
    \/ Code
    \/ AssignMemAddress
    \/ Finished

Spec == Init /\ [][Next]_vars

-----------------------------------------------------------------------------
\* The entries pass 1 has given an address.
Placed == {order[j] : j \in 1 .. variable_id}

Block(k) == metadata[k].address .. metadata[k].address + Bytes(metadata[k].size) - 1

\* Every variable stays in the range its C++ type and its use give it.
TypeOK ==
    /\ bit16_length \in Nat
    /\ subset_variables_count \in [0 .. bit16_length - 1 -> Nat]
    /\ metadata \in [Entries(bit16_length, subset_variables_count) ->
                        [name : Names, size : DataTypes, address : 0 .. Word - 1]]
    /\ last_program_counter \in Nat /\ last_address \in Nat
    /\ index \in 0 .. Byte - 1 /\ last_subset_var_id \in Nat
    /\ last_was_subset_var \in BOOLEAN /\ corrupted \in BOOLEAN
    /\ pass \in {"declare", "assign"}
    /\ variable_id \in 0 .. Byte - 1
    /\ program_counter \in Nat
    /\ order \in Seq(DOMAIN metadata)
    /\ due \in [Placed -> [address : Nat, code : Nat]]

\* An entry holds its ordinal until pass 1 presents that ordinal, so the id of
\* the preprocessor and the declarations of the parser name the same variable.
OrdinalIds ==
    \A j \in variable_id + 1 .. Len(order) : metadata[order[j]].address = j - 1

\* The cursor kept inside the table (index, last_subset_var_id and the flag)
\* always stands at the entry the last presented id declared: no id is skipped
\* or given to another entry.
LockStep ==
    ~corrupted /\ variable_id > 0 => Previous = order[variable_id]

\* No two variables with an address share a byte, and none starts below the
\* origin.
NoOverlap ==
    ~corrupted =>
        \A k \in Placed :
            /\ metadata[k].address >= Origin
            /\ \A e \in Placed \ {k} : Block(k) \cap Block(e) = {}

\* get_variable_size, which only sees the address, answers with the size of
\* the variable the address was taken from.
SizeLookup ==
    ~corrupted => \A k \in Placed : SizeByAddress(metadata[k].address) = metadata[k].size

\* How far an address falls short of the place the text gives the variable.
Lag(j) == due[order[j]].address - metadata[order[j]].address

\* The subtraction of 1 from the program counter is repaid only when the last
\* placement was made at counter 0: each later block of code between two
\* variables costs one byte, and nothing else does.
LagPerBlock ==
    ~corrupted =>
        /\ variable_id > 0 => Lag(1) = 0
        /\ \A j \in 1 .. variable_id - 1 :
              Lag(j + 1) - Lag(j) =
                  IF due[order[j]].code \in {0, due[order[j + 1]].code} THEN 0 ELSE 1

\* The address a variable was given is never changed by a later call.
AssignedOnce ==
    [][corrupted' \/ \A k \in Placed : metadata'[k] = metadata[k]]_vars

\* The calls of the two passes implement AddressLayout: each one that places an
\* entry hands it fresh bytes above all the others, and no call does anything
\* else to an address.
PlacedCount == IF corrupted THEN variable_id - 1 ELSE variable_id
PlacedEntries == {order[j] : j \in 1 .. PlacedCount}

Layout == INSTANCE AddressLayout WITH
    Entry <- (0 .. MaxDecls) \X (0 .. MaxDecls),
    Base <- Origin,
    Limit <- Word,
    layout <- [k \in PlacedEntries |->
                  [from |-> metadata[k].address, bytes |-> Bytes(metadata[k].size)]],
    top <- IF PlacedCount = 0 THEN Origin
           ELSE LET last == order[PlacedCount]
                IN  metadata[last].address + Bytes(metadata[last].size)

ImplementsLayout == Layout!LayoutSpec

\* variables.hpp:29 says of variable_address: "in accordance to the program
\* counter (set manually via `org`)".
AddressInAccordance ==
    ~corrupted => \A j \in 1 .. variable_id : Lag(j) = 0

\* preprocessor.hpp:14 says of variable_id: "Used to find the according variable
\* that is getting assigned a memory address."
IdFindsItsVariable == LockStep

-----------------------------------------------------------------------------
(***************************************************************************)
(* The strengthening under which the properties above are inductive.  Its  *)
(* parts are proved in TableClientProofs.                                  *)
(***************************************************************************)
Follows(k, e) == k = Main(e[1] + 1) \/ k = <<e[1], e[2] + 1>>

\* `order' enumerates the table, and each entry continues the one before it.
OrderInv ==
    /\ Len(order) <= MaxDecls
    /\ Len(order) = Cardinality(DOMAIN metadata)
    /\ IsFiniteSet(DOMAIN metadata)
    /\ DOMAIN metadata = {order[j] : j \in 1 .. Len(order)}
    /\ \A i, j \in 1 .. Len(order) : order[i] = order[j] => i = j
    /\ \A j \in 1 .. Len(order) : order[j][1] < j /\ order[j][2] < j
    /\ order # <<>> => /\ order[1] = Main(0)
                       /\ bit16_length > 0
                       /\ order[Len(order)] = <<bit16_length - 1,
                              subset_variables_count[bit16_length - 1]>>
    /\ order = <<>> => bit16_length = 0
    /\ \A j \in 1 .. Len(order) - 1 : Follows(order[j + 1], order[j])

\* The cursor of the table and the counters of the preprocessor.
CursorInv ==
    /\ variable_id <= Len(order)
    /\ variable_id = 0 => index = 0 /\ ~last_was_subset_var /\ last_address = 0
                            /\ last_program_counter = 0
    /\ pass = "declare" => variable_id = 0 /\ program_counter = 0
    /\ last_program_counter <= program_counter
    /\ program_counter <= 3 * MaxCode + 2
    /\ ~corrupted /\ variable_id < Len(order) /\ Pending[2] > 0
            => last_program_counter = program_counter
    /\ \A k \in Placed : due[k].code <= CodeBytes

\* Addresses ascend in the order of declaration, above the origin and below a
\* bound that fits the field.
AddressInv ==
    ~corrupted =>
        /\ variable_id > 0 => last_address = metadata[order[variable_id]].address
        /\ \A j \in 1 .. variable_id :
              /\ Origin <= metadata[order[j]].address
              /\ metadata[order[j]].address
                     <= Origin + last_program_counter + 4 * (j - 1)
        /\ \A i, j \in 1 .. variable_id : i < j =>
              metadata[order[i]].address + Bytes(metadata[order[i]].size)
                  <= metadata[order[j]].address

IInv == TypeOK /\ OrderInv /\ CursorInv /\ OrdinalIds /\ LockStep /\ AddressInv
=============================================================================
