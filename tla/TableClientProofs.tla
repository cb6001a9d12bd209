------------------------- MODULE TableClientProofs -------------------------
(***************************************************************************)
(* Proofs about TableClient for every number of declarations, every amount *)
(* of code and every origin above the ids.                                 *)
(***************************************************************************)
EXTENDS TableClient, FiniteSetTheorems, SequenceTheorems, TLAPS

LEMMA ModSmall == \A x, n \in Nat : x < n => x % n = x
  OBVIOUS

\* Membership in the set of entries, by coordinates.
LEMMA EntriesMember ==
    ASSUME NEW n, NEW c, NEW k
    PROVE  k \in Entries(n, c) <=>
              /\ k = <<k[1], k[2]>>
              /\ k[1] \in 0 .. n - 1
              /\ k[2] \in 0 .. c[k[1]]
  BY DEF Entries

\* The size of a variable is 1, 2 or 4 bytes.
LEMMA BytesType == \A size : Bytes(size) \in 1 .. 4
  BY DEF Bytes

LEMMA InitIInv == Init => IInv
  <1> SUFFICES ASSUME Init PROVE IInv
    OBVIOUS
  <1>0. /\ order = <<>> /\ DOMAIN metadata = {} /\ bit16_length = 0 /\ Placed = {}
        /\ variable_id = 0 /\ ~corrupted
    BY DEF Init, TableInit, Placed
  <1>1. TypeOK
    <2>1. Entries(bit16_length, subset_variables_count) = {}
      BY <1>0 DEF Entries
    <2>2. 0 \in 0 .. Byte - 1
      BY WidthAssumption
    <2>3. subset_variables_count \in [0 .. bit16_length - 1 -> Nat]
      BY <1>0 DEF Init, TableInit
    <2>4. metadata \in [Entries(bit16_length, subset_variables_count) ->
                          [name : Names, size : DataTypes, address : 0 .. Word - 1]]
      BY <1>0, <2>1 DEF Init, TableInit
    <2>5. due \in [Placed -> [address : Nat, code : Nat]]
      BY <1>0 DEF Init
    <2>6. order \in Seq(DOMAIN metadata)
      BY <1>0
    <2>7. /\ bit16_length \in Nat
          /\ last_program_counter \in Nat /\ last_address \in Nat
          /\ index \in 0 .. Byte - 1 /\ last_subset_var_id \in Nat
          /\ last_was_subset_var \in BOOLEAN /\ corrupted \in BOOLEAN
          /\ pass \in {"declare", "assign"}
          /\ variable_id \in 0 .. Byte - 1
          /\ program_counter \in Nat
      BY <2>2 DEF Init, TableInit
    <2>. QED
      BY <2>3, <2>4, <2>5, <2>6, <2>7 DEF TypeOK
  <1>2. OrderInv
    BY <1>0, FS_EmptySet, ClientAssumption DEF OrderInv
  <1>3. CursorInv
    BY <1>0, ClientAssumption DEF CursorInv, Init, TableInit
  <1>4. OrdinalIds /\ LockStep /\ AddressInv
    BY <1>0 DEF OrdinalIds, LockStep, AddressInv
  <1>. QED  BY <1>1, <1>2, <1>3, <1>4 DEF IInv

-----------------------------------------------------------------------------
(***************************************************************************)
(* Declarations.                                                           *)
(***************************************************************************)

\* What declaring an entry does to the history of declarations.
LEMMA OrderAppend ==
    ASSUME IInv, NEW k, k \notin DOMAIN metadata, order' = Append(order, k)
    PROVE  /\ order \in Seq(DOMAIN metadata) /\ Len(order) \in Nat
           /\ Len(order') = Len(order) + 1
           /\ order'[Len(order) + 1] = k
           /\ \A j \in 1 .. Len(order) :
                 order'[j] = order[j] /\ order[j] \in DOMAIN metadata /\ order[j] # k
           /\ order = <<>> <=> Len(order) = 0
  <1>1. /\ order \in Seq(DOMAIN metadata) /\ Len(order) \in Nat
        /\ \A j \in 1 .. Len(order) : order[j] \in DOMAIN metadata
        /\ order = <<>> <=> Len(order) = 0
    BY DEF IInv, TypeOK
  <1>2. /\ Len(order') = Len(order) + 1
        /\ order'[Len(order) + 1] = k
        /\ \A j \in 1 .. Len(order) : order'[j] = order[j]
    BY <1>1
  <1>. QED  BY <1>1, <1>2

\* Appending a fresh entry that continues the last one keeps the enumeration.
LEMMA OrderExtended ==
    ASSUME IInv, Len(order) < MaxDecls,
           NEW k \in Nat \X Nat, k \notin DOMAIN metadata,
           DOMAIN metadata' = DOMAIN metadata \cup {k},
           order' = Append(order, k),
           k[1] <= Len(order), k[2] <= Len(order),
           order = <<>> => k = Main(0),
           order # <<>> => Follows(k, order[Len(order)]),
           bit16_length' > 0,
           k = <<bit16_length' - 1, subset_variables_count'[bit16_length' - 1]>>
    PROVE  OrderInv'
  <1>1. /\ order \in Seq(DOMAIN metadata) /\ Len(order) \in Nat
        /\ \A j \in 1 .. Len(order) : order[j] \in DOMAIN metadata
        /\ order = <<>> <=> Len(order) = 0
    BY OrderAppend
  <1>2. /\ Len(order') = Len(order) + 1
        /\ order'[Len(order) + 1] = k
        /\ \A j \in 1 .. Len(order) : order'[j] = order[j]
        /\ order' # <<>>
    BY OrderAppend
  <1>3. Len(order') <= MaxDecls
    BY <1>1, <1>2, ClientAssumption
  <1>4. /\ IsFiniteSet(DOMAIN metadata')
        /\ Len(order') = Cardinality(DOMAIN metadata')
    <2>1. /\ IsFiniteSet(DOMAIN metadata)
          /\ Len(order) = Cardinality(DOMAIN metadata)
      BY DEF IInv, OrderInv
    <2>2. /\ IsFiniteSet(DOMAIN metadata \cup {k})
          /\ Cardinality(DOMAIN metadata \cup {k}) = Cardinality(DOMAIN metadata) + 1
      BY <2>1, FS_AddElement
    <2>. QED  BY <1>2, <2>1, <2>2
  <1>5. DOMAIN metadata' = {order'[j] : j \in 1 .. Len(order')}
    <2>1. 1 .. Len(order') = (1 .. Len(order)) \cup {Len(order) + 1}
      BY <1>1, <1>2
    <2>2. DOMAIN metadata = {order[j] : j \in 1 .. Len(order)}
      BY DEF IInv, OrderInv
    <2>3. ASSUME NEW e \in DOMAIN metadata'
          PROVE  \E j \in 1 .. Len(order') : e = order'[j]
      <3>1. CASE e = k
        BY <1>1, <1>2, <3>1
      <3>2. CASE e \in DOMAIN metadata
        <4>1. PICK j \in 1 .. Len(order) : e = order[j]
          BY <2>2, <3>2
        <4>. QED  BY <1>1, <1>2, <4>1
      <3>. QED  BY <2>3, <3>1, <3>2
    <2>4. ASSUME NEW j \in 1 .. Len(order')
          PROVE  order'[j] \in DOMAIN metadata'
      BY <1>1, <1>2, <2>1
    <2>. QED  BY <2>3, <2>4
  <1>6. ASSUME NEW i \in 1 .. Len(order'), NEW j \in 1 .. Len(order'),
               order'[i] = order'[j]
        PROVE  i = j
    <2>1. CASE i \in 1 .. Len(order) /\ j \in 1 .. Len(order)
      <3>1. order[i] = order[j]
        BY <1>2, <1>6, <2>1
      <3>. QED  BY <2>1, <3>1 DEF IInv, OrderInv
    <2>2. /\ i \in 1 .. Len(order) \/ i = Len(order) + 1
          /\ j \in 1 .. Len(order) \/ j = Len(order) + 1
      BY <1>1, <1>2
    <2>3. \A l \in 1 .. Len(order) : order'[l] # k
      BY <1>1, <1>2
    <2>4. order'[Len(order) + 1] = k
      BY <1>2
    <2>. QED  BY <1>6, <2>1, <2>2, <2>3, <2>4
  <1>7. \A j \in 1 .. Len(order') : order'[j][1] < j /\ order'[j][2] < j
    <2>. SUFFICES ASSUME NEW j \in 1 .. Len(order')
                  PROVE  order'[j][1] < j /\ order'[j][2] < j
      OBVIOUS
    <2>1. CASE j \in 1 .. Len(order)
      BY <1>2, <2>1 DEF IInv, OrderInv
    <2>2. CASE j = Len(order) + 1
      BY <1>1, <1>2, <2>2
    <2>. QED  BY <1>1, <1>2, <2>1, <2>2
  <1>8. order'[1] = Main(0)
    <2>1. CASE order = <<>>
      BY <1>2, <2>1
    <2>2. CASE order # <<>>
      <3>1. order[1] = Main(0)
        BY <2>2 DEF IInv, OrderInv
      <3>2. 1 \in 1 .. Len(order)
        BY <1>1, <2>2
      <3>. QED  BY <1>2, <3>1, <3>2
    <2>. QED  BY <2>1, <2>2
  <1>9. \A j \in 1 .. Len(order') - 1 : Follows(order'[j + 1], order'[j])
    <2>. SUFFICES ASSUME NEW j \in 1 .. Len(order') - 1
                  PROVE  Follows(order'[j + 1], order'[j])
      OBVIOUS
    <2>1. CASE j \in 1 .. Len(order) - 1
      <3>1. Follows(order[j + 1], order[j])
        BY <2>1 DEF IInv, OrderInv
      <3>2. j \in 1 .. Len(order) /\ j + 1 \in 1 .. Len(order)
        BY <1>1, <2>1
      <3>. QED  BY <1>2, <3>1, <3>2
    <2>2. CASE j = Len(order)
      <3>1. order # <<>> /\ j \in 1 .. Len(order)
        BY <1>1, <1>2, <2>2
      <3>. QED  BY <1>2, <2>2, <3>1
    <2>. QED  BY <1>1, <1>2, <2>1, <2>2
  <1>. QED
    BY <1>2, <1>3, <1>4, <1>5, <1>6, <1>7, <1>8, <1>9 DEF OrderInv

\* The parts of the invariant that speak of pass 1 hold vacuously while the
\* variables are declared.
LEMMA DeclareStep ==
    ASSUME IInv, pass = "declare", Len(order) < MaxDecls,
           NEW name \in Names, NEW size \in DataTypes,
           NEW k \in Nat \X Nat, k \notin DOMAIN metadata,
           Insert(k, name, size),
           order' = Append(order, k),
           k[1] <= Len(order), k[2] <= Len(order),
           order = <<>> => k = Main(0),
           order # <<>> => Follows(k, order[Len(order)]),
           bit16_length' \in Nat \ {0},
           subset_variables_count' \in [0 .. bit16_length' - 1 -> Nat],
           k = <<bit16_length' - 1, subset_variables_count'[bit16_length' - 1]>>,
           Entries(bit16_length', subset_variables_count')
               = Entries(bit16_length, subset_variables_count) \cup {k},
           UNCHANGED <<placement, corrupted, pass, variable_id, program_counter, due>>
    PROVE  IInv'
  <1>1. /\ variable_id = 0 /\ program_counter = 0
        /\ index = 0 /\ ~last_was_subset_var /\ last_address = 0
        /\ last_program_counter = 0
    BY DEF IInv, CursorInv
  <1>2. /\ order \in Seq(DOMAIN metadata) /\ Len(order) \in Nat
        /\ Len(order') = Len(order) + 1
        /\ order'[Len(order) + 1] = k
        /\ \A j \in 1 .. Len(order) :
              order'[j] = order[j] /\ order[j] \in DOMAIN metadata /\ order[j] # k
    BY OrderAppend
  <1>3. DOMAIN metadata' = DOMAIN metadata \cup {k}
    BY DEF Insert
  <1>4. OrderInv'
    <2>1. bit16_length' > 0
      OBVIOUS
    <2>. QED  BY <1>3, <2>1, OrderExtended
  <1>5. Ordinal = Len(order)
    <2>1. Len(order) = Cardinality(DOMAIN metadata)
      BY DEF IInv, OrderInv
    <2>2. Len(order) < Word /\ Word \in Nat
      BY <1>2, ClientAssumption, WidthAssumption
    <2>. QED  BY <1>2, <2>1, <2>2, ModSmall DEF Ordinal
  <1>6. Placed = {} /\ Placed' = {}
    BY <1>1 DEF Placed
  <1>7. TypeOK'
    <2>1. metadata' \in [Entries(bit16_length, subset_variables_count)' ->
                           [name : Names, size : DataTypes, address : 0 .. Word - 1]]
      <3>1. metadata \in [Entries(bit16_length, subset_variables_count) ->
                            [name : Names, size : DataTypes, address : 0 .. Word - 1]]
        BY DEF IInv, TypeOK
      <3>2. Ordinal \in 0 .. Word - 1
        BY <1>2, <1>5, ClientAssumption, WidthAssumption
      <3>. QED  BY <3>1, <3>2 DEF Insert
    <2>2. order' \in Seq(DOMAIN metadata')
      <3>1. order \in Seq(DOMAIN metadata')
        BY <1>2, <1>3, SeqMonotonic
      <3>. QED  BY <1>3, <3>1
    <2>3. due' \in [Placed' -> [address : Nat, code : Nat]]
      BY <1>6 DEF IInv, TypeOK
    <2>4. /\ bit16_length' \in Nat
          /\ subset_variables_count' \in [0 .. bit16_length' - 1 -> Nat]
          /\ last_program_counter' \in Nat /\ last_address' \in Nat
          /\ index' \in 0 .. Byte - 1 /\ last_subset_var_id' \in Nat
          /\ last_was_subset_var' \in BOOLEAN /\ corrupted' \in BOOLEAN
          /\ pass' \in {"declare", "assign"}
          /\ variable_id' \in 0 .. Byte - 1
          /\ program_counter' \in Nat
      BY DEF IInv, TypeOK, placement
    <2>. QED  BY <2>1, <2>2, <2>3, <2>4 DEF TypeOK
  <1>8. CursorInv'
    BY <1>1, <1>2, <1>6, ClientAssumption DEF CursorInv, placement
  <1>9. OrdinalIds'
    <2>. SUFFICES ASSUME NEW j \in 1 .. Len(order')
                  PROVE  metadata'[order'[j]].address = j - 1
      BY <1>1 DEF OrdinalIds
    <2>1. CASE j \in 1 .. Len(order)
      <3>1. metadata[order[j]].address = j - 1
        BY <1>1, <2>1 DEF IInv, OrdinalIds
      <3>2. order[j] \in DOMAIN metadata /\ order[j] # k /\ order'[j] = order[j]
        BY <1>2, <2>1
      <3>. QED  BY <3>1, <3>2 DEF Insert
    <2>2. CASE j = Len(order) + 1
      BY <1>2, <1>5, <2>2 DEF Insert
    <2>. QED  BY <1>2, <2>1, <2>2
  <1>10. LockStep' /\ AddressInv'
    BY <1>1 DEF LockStep, AddressInv
  <1>. QED
    BY <1>4, <1>7, <1>8, <1>9, <1>10 DEF IInv

LEMMA DeclareVariableStep ==
    ASSUME IInv, NEW name \in Names, NEW size \in DataTypes, DeclareVariable(name, size)
    PROVE  IInv'
  <1> DEFINE k == Main(bit16_length)
             n == bit16_length
  <1>1. /\ pass = "declare" /\ Len(order) < MaxDecls
        /\ Insert(k, name, size)
        /\ order' = Append(order, k)
        /\ bit16_length' = n + 1
        /\ subset_variables_count' =
               [i \in 0 .. n |-> IF i = n THEN 0 ELSE subset_variables_count[i]]
        /\ UNCHANGED <<placement, corrupted, pass, variable_id, program_counter, due>>
    BY DEF DeclareVariable, AddVariable
  <1>2. /\ n \in Nat
        /\ subset_variables_count \in [0 .. n - 1 -> Nat]
        /\ DOMAIN metadata = Entries(n, subset_variables_count)
    BY DEF IInv, TypeOK
  <1>3. k \in Nat \X Nat /\ k = <<n, 0>>
    BY <1>2 DEF Main
  <1>4. k \notin DOMAIN metadata
    BY <1>2, <1>3, EntriesMember
  <1>5. /\ subset_variables_count' \in [0 .. bit16_length' - 1 -> Nat]
        /\ bit16_length' \in Nat \ {0}
        /\ bit16_length' - 1 = n
        /\ subset_variables_count'[n] = 0
        /\ \A i \in 0 .. n - 1 : subset_variables_count'[i] = subset_variables_count[i]
    BY <1>1, <1>2
  <1>6. Entries(bit16_length', subset_variables_count')
            = Entries(n, subset_variables_count) \cup {k}
    <2>1. ASSUME NEW e
          PROVE  e \in Entries(bit16_length', subset_variables_count')
                     <=> e \in Entries(n, subset_variables_count) \/ e = k
      <3>1. e \in Entries(bit16_length', subset_variables_count') <=>
                /\ e = <<e[1], e[2]>> /\ e[1] \in 0 .. n
                /\ e[2] \in 0 .. subset_variables_count'[e[1]]
        BY <1>5, EntriesMember
      <3>2. e \in Entries(n, subset_variables_count) <=>
                /\ e = <<e[1], e[2]>> /\ e[1] \in 0 .. n - 1
                /\ e[2] \in 0 .. subset_variables_count[e[1]]
        BY EntriesMember
      <3>3. e = k <=> e = <<e[1], e[2]>> /\ e[1] = n /\ e[2] = 0
        BY <1>3
      <3>4. CASE e[1] = n
        BY <1>2, <1>5, <3>1, <3>2, <3>3, <3>4
      <3>5. CASE e[1] # n
        BY <1>2, <1>5, <3>1, <3>2, <3>3, <3>5
      <3>. QED  BY <3>4, <3>5
    <2>. QED  BY <2>1
  <1>7. Len(order) \in Nat /\ (order = <<>> => bit16_length = 0)
    <2>1. order \in Seq(DOMAIN metadata)
      BY DEF IInv, TypeOK
    <2>2. order = <<>> => bit16_length = 0
      BY DEF IInv, OrderInv
    <2>. QED  BY <2>1, <2>2, LenProperties
  <1>8. order # <<>> => Follows(k, order[Len(order)])
    <2>1. order # <<>> => order[Len(order)] =
              <<bit16_length - 1, subset_variables_count[bit16_length - 1]>>
      BY DEF IInv, OrderInv
    <2>. QED  BY <1>2, <2>1 DEF Follows, Main
  <1>9. /\ k[1] <= Len(order) /\ k[2] <= Len(order)
        /\ order = <<>> => k = Main(0)
        /\ k = <<bit16_length' - 1, subset_variables_count'[bit16_length' - 1]>>
    <2>1. k[2] = 0 /\ k = <<bit16_length' - 1, subset_variables_count'[n]>>
      BY <1>3, <1>5
    <2>2. k[1] <= Len(order)
      <3>1. CASE order = <<>>
        BY <1>3, <1>7, <3>1
      <3>2. CASE order # <<>>
        <4>1. Len(order) \in 1 .. Len(order)
          BY <1>7, <3>2, EmptySeq DEF IInv, TypeOK
        <4>2. order[Len(order)][1] < Len(order)
          BY <4>1 DEF IInv, OrderInv
        <4>3. order[Len(order)] = <<n - 1, subset_variables_count[n - 1]>>
          BY <3>2 DEF IInv, OrderInv
        <4>. QED  BY <1>2, <1>3, <1>7, <4>2, <4>3
      <3>. QED  BY <3>1, <3>2
    <2>3. order = <<>> => k = Main(0)
      BY <1>7
    <2>4. k = <<bit16_length' - 1, subset_variables_count'[bit16_length' - 1]>>
      BY <1>5, <2>1
    <2>5. k[2] <= Len(order)
      BY <1>7, <2>1
    <2>. QED  BY <2>2, <2>3, <2>4, <2>5
  <1> HIDE DEF k, n
  <1>. QED
    BY <1>1, <1>3, <1>4, <1>5, <1>6, <1>8, <1>9, DeclareStep DEF n

LEMMA DeclareSubsetStep ==
    ASSUME IInv, NEW name \in Names, NEW size \in DataTypes, DeclareSubset(name, size)
    PROVE  IInv'
  <1> DEFINE i == bit16_length - 1
             k == Sub(i, subset_variables_count[i])
  <1>1. /\ pass = "declare" /\ Len(order) < MaxDecls /\ bit16_length > 0
        /\ Insert(k, name, size)
        /\ order' = Append(order, k)
        /\ bit16_length' = bit16_length
        /\ subset_variables_count' = [subset_variables_count EXCEPT ![i] = @ + 1]
        /\ UNCHANGED <<placement, corrupted, pass, variable_id, program_counter, due>>
    <2>1. bit16_length > 0 /\ bit16_length # 0
      BY DEF DeclareSubset, IInv, TypeOK
    <2>. QED  BY <2>1 DEF DeclareSubset, AddSubsetVariable
  <1>2. /\ bit16_length \in Nat /\ i \in 0 .. bit16_length - 1
        /\ subset_variables_count \in [0 .. bit16_length - 1 -> Nat]
        /\ DOMAIN metadata = Entries(bit16_length, subset_variables_count)
    BY <1>1 DEF IInv, TypeOK
  <1>3. /\ subset_variables_count[i] \in Nat
        /\ k = <<i, subset_variables_count[i] + 1>>
        /\ k \in Nat \X Nat
    BY <1>2 DEF Sub
  <1>4. k \notin DOMAIN metadata
    BY <1>2, <1>3, EntriesMember
  <1>5. /\ subset_variables_count' \in [0 .. bit16_length' - 1 -> Nat]
        /\ bit16_length' \in Nat \ {0}
        /\ subset_variables_count'[i] = subset_variables_count[i] + 1
        /\ \A l \in 0 .. i - 1 : subset_variables_count'[l] = subset_variables_count[l]
    BY <1>1, <1>2, <1>3
  <1>6. Entries(bit16_length', subset_variables_count')
            = Entries(bit16_length, subset_variables_count) \cup {k}
    <2>1. ASSUME NEW e
          PROVE  e \in Entries(bit16_length', subset_variables_count')
                     <=> e \in Entries(bit16_length, subset_variables_count) \/ e = k
      <3>1. e \in Entries(bit16_length', subset_variables_count') <=>
                /\ e = <<e[1], e[2]>> /\ e[1] \in 0 .. i
                /\ e[2] \in 0 .. subset_variables_count'[e[1]]
        BY <1>1, EntriesMember
      <3>2. e \in Entries(bit16_length, subset_variables_count) <=>
                /\ e = <<e[1], e[2]>> /\ e[1] \in 0 .. i
                /\ e[2] \in 0 .. subset_variables_count[e[1]]
        BY EntriesMember
      <3>3. e = k <=> e = <<e[1], e[2]>> /\ e[1] = i
                          /\ e[2] = subset_variables_count[i] + 1
        BY <1>3
      <3>4. CASE e[1] = i
        BY <1>2, <1>3, <1>5, <3>1, <3>2, <3>3, <3>4
      <3>5. CASE e[1] # i
        BY <1>2, <1>5, <3>1, <3>2, <3>3, <3>5
      <3>. QED  BY <3>4, <3>5
    <2>. QED  BY <2>1
  <1>7. /\ Len(order) \in Nat /\ order # <<>>
        /\ order[Len(order)] = <<i, subset_variables_count[i]>>
        /\ order[Len(order)][1] < Len(order) /\ order[Len(order)][2] < Len(order)
    <2>1. order \in Seq(DOMAIN metadata)
      BY DEF IInv, TypeOK
    <2>2. order # <<>> /\ order[Len(order)] = <<i, subset_variables_count[i]>>
      <3>1. order = <<>> => bit16_length = 0
        BY DEF IInv, OrderInv
      <3>2. order # <<>> => order[Len(order)] = <<i, subset_variables_count[i]>>
        BY DEF IInv, OrderInv
      <3>. QED  BY <1>1, <3>1, <3>2
    <2>3. Len(order) \in 1 .. Len(order)
      BY <2>1, <2>2, EmptySeq
    <2>4. order[Len(order)][1] < Len(order) /\ order[Len(order)][2] < Len(order)
      BY <2>3 DEF IInv, OrderInv
    <2>. QED  BY <2>1, <2>2, <2>4, LenProperties
  <1>8. Follows(k, order[Len(order)])
    BY <1>3, <1>7 DEF Follows
  <1>9. /\ k[1] <= Len(order) /\ k[2] <= Len(order)
        /\ k = <<bit16_length' - 1, subset_variables_count'[bit16_length' - 1]>>
    BY <1>1, <1>3, <1>5, <1>7
  <1> HIDE DEF k, i
  <1>. QED
    BY <1>1, <1>3, <1>4, <1>5, <1>6, <1>7, <1>8, <1>9, DeclareStep
-----------------------------------------------------------------------------
(***************************************************************************)
(* Steps that leave the table alone.                                       *)
(***************************************************************************)
LEMMA OrderKept ==
    ASSUME OrderInv, order' = order, metadata' = metadata, bit16_length' = bit16_length,
           subset_variables_count' = subset_variables_count
    PROVE  OrderInv'
  <1>1. /\ Len(order') <= MaxDecls
        /\ Len(order') = Cardinality(DOMAIN metadata')
        /\ IsFiniteSet(DOMAIN metadata')
    BY Zenon DEF OrderInv
  <1>2. DOMAIN metadata' = {order'[j] : j \in 1 .. Len(order')}
    <2>1. DOMAIN metadata = {order[j] : j \in 1 .. Len(order)}
      BY DEF OrderInv
    <2>. QED  BY <2>1
  <1>3. /\ \A i, j \in 1 .. Len(order') : order'[i] = order'[j] => i = j
        /\ \A j \in 1 .. Len(order') : order'[j][1] < j /\ order'[j][2] < j
        /\ \A j \in 1 .. Len(order') - 1 : Follows(order'[j + 1], order'[j])
    BY DEF OrderInv
  <1>4. /\ order' # <<>> => /\ order'[1] = Main(0)
                            /\ bit16_length' > 0
                            /\ order'[Len(order')] = <<bit16_length' - 1,
                                   subset_variables_count'[bit16_length' - 1]>>
        /\ order' = <<>> => bit16_length' = 0
    BY DEF OrderInv
  <1>. QED  BY <1>1, <1>2, <1>3, <1>4, Zenon DEF OrderInv, Follows, Main

LEMMA SameTable ==
    ASSUME IInv, UNCHANGED <<tableVars, variable_id, order, due>>,
           pass' \in {"declare", "assign"}, program_counter' \in Nat,
           CursorInv'
    PROVE  IInv'
  <1> USE DEF tableVars, declared, placement
  <1>1. TypeOK'
    <2>1. Placed' = Placed
      BY DEF Placed
    <2>2. TypeOK
      BY DEF IInv
    <2>3. UNCHANGED <<bit16_length, subset_variables_count, metadata, order, due, Placed>>
      BY <2>1
    <2>4. /\ metadata' \in [Entries(bit16_length', subset_variables_count') ->
                 [name : Names, size : DataTypes, address : 0 .. Word - 1]]
          /\ subset_variables_count' \in [0 .. bit16_length' - 1 -> Nat]
      BY <2>2, <2>3, Zenon DEF TypeOK
    <2>5. order' \in Seq(DOMAIN metadata') /\ due' \in [Placed' -> [address : Nat, code : Nat]]
      BY <2>2, <2>3, Zenon DEF TypeOK
    <2>. QED  BY <2>2, <2>4, <2>5 DEF TypeOK
  <1>2. OrderInv'
    BY OrderKept DEF IInv
  <1>3. OrdinalIds' /\ LockStep'
    BY DEF IInv, OrdinalIds, LockStep, Previous
  <1>4. AddressInv'
    BY DEF IInv, AddressInv
  <1>. QED
    BY <1>1, <1>2, <1>3, <1>4 DEF IInv

LEMMA StartPass1Step == IInv /\ StartPass1 => IInv'
  <1> SUFFICES ASSUME IInv, StartPass1 PROVE IInv'
    OBVIOUS
  <1>1. /\ UNCHANGED <<tableVars, variable_id, program_counter, order, due>>
        /\ pass = "declare" /\ pass' = "assign"
    BY DEF StartPass1
  <1>2. CursorInv'
    BY <1>1 DEF IInv, CursorInv, Pending, Placed, CodeBytes, tableVars, placement
  <1>. QED  BY <1>1, <1>2, SameTable DEF IInv, TypeOK

LEMMA CodeStep == IInv /\ Code => IInv'
  <1> SUFFICES ASSUME IInv, Code PROVE IInv'
    OBVIOUS
  <1>1. /\ UNCHANGED <<tableVars, pass, variable_id, order, due>>
        /\ program_counter < 3 * MaxCode /\ Pending[2] = 0 /\ pass = "assign"
        /\ program_counter' = IF program_counter = 0 THEN 4 ELSE program_counter + 3
    BY DEF Code
  <1>2. /\ program_counter \in Nat /\ program_counter' \in Nat
        /\ program_counter <= program_counter'
        /\ program_counter' <= 3 * MaxCode + 2
        /\ CodeBytes \in Int /\ CodeBytes' \in Int /\ CodeBytes <= CodeBytes'
    <2>1. program_counter \in Nat
      BY DEF IInv, TypeOK
    <2>. QED  BY <1>1, <2>1, ClientAssumption DEF CodeBytes
  <1>3. CursorInv'
    <2>1. \A k \in Placed : due[k].code <= CodeBytes'
      <3>. SUFFICES ASSUME NEW k \in Placed PROVE due[k].code <= CodeBytes'
        OBVIOUS
      <3>1. due[k].code \in Nat /\ due[k].code <= CodeBytes
        BY DEF IInv, TypeOK, CursorInv
      <3>. QED  BY <1>2, <3>1
    <2>2. last_program_counter \in Nat /\ last_program_counter <= program_counter'
      BY <1>2 DEF IInv, TypeOK, CursorInv
    <2>3. /\ last_program_counter' = last_program_counter /\ Placed' = Placed
          /\ Pending' = Pending /\ due' = due
      BY <1>1 DEF tableVars, placement, Placed, Pending
    <2>4. /\ variable_id' <= Len(order')
          /\ variable_id' = 0 => index' = 0 /\ ~last_was_subset_var' /\ last_address' = 0
                                  /\ last_program_counter' = 0
      BY <1>1 DEF IInv, CursorInv, tableVars, placement
    <2>. QED  BY <1>1, <1>2, <2>1, <2>2, <2>3, <2>4 DEF CursorInv
  <1>. QED
    <2>1. pass' \in {"declare", "assign"}
      BY <1>1
    <2>. QED  BY <1>1, <1>2, <1>3, <2>1, SameTable
-----------------------------------------------------------------------------
(***************************************************************************)
(* Placement.                                                              *)
(***************************************************************************)

\* The entry pass 1 is about to present, and the one it presented last.
LEMMA CursorFacts ==
    ASSUME IInv, ~corrupted, variable_id < Len(order)
    PROVE  /\ Pending \in DOMAIN metadata
           /\ Pending = <<Pending[1], Pending[2]>>
           /\ Pending[1] \in 0 .. bit16_length - 1 /\ Pending[2] \in 0 .. Byte - 1
           /\ Pending[2] = 0 => Pending[1] = index
           /\ Pending[2] # 0 => Pending[1] = index - 1 /\ variable_id > 0
           /\ variable_id > 0 => /\ Previous \in DOMAIN metadata
                                 /\ Previous = order[variable_id]
                                 /\ index > 0
           /\ variable_id = 0 => index = 0
           /\ index + 1 < Byte
  <1>1. /\ order \in Seq(DOMAIN metadata) /\ variable_id \in Nat
        /\ bit16_length \in Nat /\ index \in Nat /\ last_subset_var_id \in Nat
        /\ DOMAIN metadata = Entries(bit16_length, subset_variables_count)
    BY WidthAssumption DEF IInv, TypeOK
  <1>2. Len(order) \in Nat /\ variable_id + 1 \in 1 .. Len(order)
    BY <1>1, LenProperties
  <1>3. Pending \in DOMAIN metadata
    BY <1>1, <1>2, ElementOfSeq DEF Pending
  <1>4. /\ Pending = <<Pending[1], Pending[2]>>
        /\ Pending[1] \in 0 .. bit16_length - 1
        /\ Pending[2] \in 0 .. subset_variables_count[Pending[1]]
    BY <1>1, <1>3, EntriesMember
  <1>5. Pending[1] < variable_id + 1 /\ Pending[2] < variable_id + 1
    BY <1>2 DEF IInv, OrderInv, Pending
  <1>6. variable_id + 1 < Byte /\ Byte \in Nat
    <2>1. Len(order) <= MaxDecls
      BY DEF IInv, OrderInv
    <2>. QED  BY <1>1, <1>2, <2>1, ClientAssumption, WidthAssumption
  <1>7. Pending[2] \in 0 .. Byte - 1
    <2>1. Pending[2] \in Int /\ Pending[2] >= 0
      <3>1. subset_variables_count[Pending[1]] \in Nat
        BY <1>4 DEF IInv, TypeOK
      <3>. QED  BY <1>4, <3>1
    <2>. QED  BY <1>1, <1>5, <1>6, <2>1
  <1>8. CASE variable_id = 0
    <2>1. index = 0
      BY <1>8 DEF IInv, CursorInv
    <2>2. Pending = Main(0)
      <3>1. Pending = order[1]
        BY <1>8 DEF Pending
      <3>2. order # <<>>
        BY <1>1, <1>2
      <3>. QED  BY <3>1, <3>2 DEF IInv, OrderInv
    <2>3. Pending[1] = 0 /\ Pending[2] = 0
      BY <2>2 DEF Main
    <2>. QED  BY <1>1, <1>3, <1>4, <1>6, <1>7, <1>8, <2>1, <2>3
  <1>9. CASE variable_id > 0
    <2>1. Previous = order[variable_id]
      BY <1>9 DEF IInv, LockStep
    <2>2. variable_id \in 1 .. Len(order) /\ variable_id \in 1 .. Len(order) - 1
      BY <1>1, <1>2, <1>9
    <2>3. Previous \in DOMAIN metadata
      BY <1>1, <2>1, <2>2, ElementOfSeq
    <2>4. Previous[1] \in 0 .. bit16_length - 1
      BY <1>1, <2>3, EntriesMember
    <2>5. Previous[1] = index - 1
      BY DEF Previous, Main, Sub
    <2>6. index > 0
      BY <1>1, <2>4, <2>5
    <2>7. Follows(Pending, Previous)
      BY <2>1, <2>2 DEF IInv, OrderInv, Pending
    <2>8. Previous[2] \in Nat
      BY <1>1 DEF Previous, Main, Sub
    <2>9. /\ Pending[2] = 0 => Pending[1] = index
          /\ Pending[2] # 0 => Pending[1] = index - 1
      BY <1>1, <2>5, <2>7, <2>8 DEF Follows, Main
    <2>10. index < variable_id + 1
      <3>1. order[variable_id][1] < variable_id
        BY <2>2 DEF IInv, OrderInv
      <3>. QED  BY <1>1, <2>1, <2>5, <3>1
    <2>. QED
      BY <1>1, <1>3, <1>4, <1>6, <1>7, <1>9, <2>1, <2>3, <2>6, <2>9, <2>10
  <1>. QED  BY <1>1, <1>8, <1>9

\* With the origin above every id, the id presented names one entry only.
LEMMA IdIsUnique ==
    ASSUME IInv, ~corrupted, OriginAboveIds, variable_id < Len(order)
    PROVE  \A k \in DOMAIN metadata : metadata[k].address = variable_id <=> k = Pending
  <1>1. /\ variable_id \in Nat /\ order \in Seq(DOMAIN metadata)
        /\ Len(order) \in Nat
    BY WidthAssumption, LenProperties DEF IInv, TypeOK
  <1>2. DOMAIN metadata = {order[j] : j \in 1 .. Len(order)}
    BY DEF IInv, OrderInv
  <1>3. variable_id < Origin
    <2>1. Len(order) <= MaxDecls
      BY DEF IInv, OrderInv
    <2>. QED  BY <1>1, <2>1, ClientAssumption DEF OriginAboveIds
  <1>. SUFFICES ASSUME NEW j \in 1 .. Len(order)
                PROVE  metadata[order[j]].address = variable_id <=> order[j] = Pending
    BY <1>2
  <1>4. order[j] = Pending <=> j = variable_id + 1
    <2>1. variable_id + 1 \in 1 .. Len(order)
      BY <1>1
    <2>2. \A i, l \in 1 .. Len(order) : order[i] = order[l] => i = l
      BY DEF IInv, OrderInv
    <2>. QED  BY <2>1, <2>2 DEF Pending
  <1>5. CASE j <= variable_id
    <2>1. Origin <= metadata[order[j]].address
      BY <1>1, <1>5 DEF IInv, AddressInv
    <2>2. order[j] # Pending
      BY <1>1, <1>5, <1>4
    <2>3. metadata[order[j]].address \in Nat
      <3>1. order[j] \in DOMAIN metadata
        BY <1>1, ElementOfSeq
      <3>. QED  BY <3>1, WidthAssumption DEF IInv, TypeOK
    <2>. QED  BY <1>1, <1>3, <2>1, <2>2, <2>3, ClientAssumption
  <1>6. CASE j >= variable_id + 1
    <2>1. metadata[order[j]].address = j - 1
      BY <1>1, <1>6 DEF IInv, OrdinalIds
    <2>2. order[j] = Pending <=> j = variable_id + 1
      BY <1>4
    <2>. QED  BY <1>1, <2>1, <2>2
  <1>. QED  BY <1>1, <1>5, <1>6

\* The running address once the size of the last placed entry is added.
LEMMA GrownRange ==
    ASSUME IInv, ~corrupted, OriginAboveIds, variable_id < Len(order)
    PROVE  /\ Grown \in Nat
           /\ variable_id = 0 => Grown = 0
           /\ variable_id > 0 =>
                 LET last == metadata[order[variable_id]]
                 IN  /\ Grown = last.address + Bytes(last.size)
                     /\ Origin < Grown
                     /\ Grown <= Origin + last_program_counter + 4 * variable_id
  <1>1. variable_id \in Nat /\ last_program_counter \in Nat
    BY DEF IInv, TypeOK
  <1>2. CASE variable_id = 0
    BY <1>2 DEF Grown, IInv, CursorInv
  <1>3. CASE variable_id > 0
    <2> DEFINE last == metadata[order[variable_id]]
    <2>1. Previous = order[variable_id] /\ index > 0 /\ Previous \in DOMAIN metadata
      BY <1>3, CursorFacts
    <2>2. index # 0
      BY <2>1 DEF IInv, TypeOK
    <2>3. last_address = last.address
      BY <1>3 DEF IInv, AddressInv
    <2>4. Grown = last.address + Bytes(last.size)
      BY <2>1, <2>2, <2>3 DEF Grown
    <2>5. /\ Origin <= last.address
          /\ last.address <= Origin + last_program_counter + 4 * (variable_id - 1)
      <3>1. variable_id \in 1 .. variable_id
        BY <1>1, <1>3
      <3>. QED  BY <3>1 DEF IInv, AddressInv
    <2>6. last.address \in Nat
      BY <2>1, WidthAssumption DEF IInv, TypeOK
    <2>7. Bytes(last.size) \in 1 .. 4
      BY BytesType
    <2> HIDE DEF last
    <2>8. /\ Grown \in Nat /\ Origin < Grown
          /\ Grown <= Origin + last_program_counter + 4 * variable_id
      BY <1>1, <2>4, <2>5, <2>6, <2>7, ClientAssumption
    <2>. QED  BY <1>3, <2>4, <2>8 DEF last
  <1>. QED  BY <1>1, <1>2, <1>3

\* The pending entry gets the address addr and the cursor moves onto it.
Gives(addr) ==
    /\ metadata' = [metadata EXCEPT ![Pending].address = addr]
    /\ last_address' = addr
    /\ last_program_counter' = program_counter
    /\ Previous' = Pending
    /\ index' \in 0 .. Byte - 1
    /\ last_subset_var_id' \in Nat
    /\ last_was_subset_var' \in BOOLEAN
    /\ UNCHANGED <<bit16_length, subset_variables_count, corrupted>>

\* Where the call puts the entry: behind the code for the first one, then behind
\* the entry before it, with the counter's start at 1 taken off the code between.
NextAddress ==
    IF variable_id = 0 THEN Origin + CodeBytes
    ELSE IF program_counter = last_program_counter THEN Grown
    ELSE Grown + ((program_counter - 1) - last_program_counter)

Fits(addr) ==
    /\ addr \in 0 .. Word - 1
    /\ addr = NextAddress
    /\ Origin <= addr /\ addr <= Origin + program_counter + 4 * variable_id
    /\ variable_id > 0 => Grown <= addr

\* An address in the range of the declarations and the code so far is not
\* truncated by the 16-bit field.
LEMMA NotTruncated ==
    ASSUME IInv, variable_id < Len(order), NEW addr \in Nat, addr = NextAddress,
           Origin <= addr, addr <= Origin + program_counter + 4 * variable_id,
           variable_id > 0 => Grown <= addr
    PROVE  addr % Word = addr /\ Fits(addr)
  <1>1. /\ program_counter \in Nat /\ variable_id \in Nat
        /\ program_counter <= 3 * MaxCode + 2
        /\ Len(order) <= MaxDecls /\ Len(order) \in Nat
    <2>1. program_counter \in Nat /\ variable_id \in Nat /\ order \in Seq(DOMAIN metadata)
      BY WidthAssumption DEF IInv, TypeOK
    <2>2. program_counter <= 3 * MaxCode + 2
      BY DEF IInv, CursorInv
    <2>3. Len(order) <= MaxDecls
      BY DEF IInv, OrderInv
    <2>. QED  BY <2>1, <2>2, <2>3, LenProperties
  <1>2. addr < Word /\ Word \in Nat
    BY <1>1, ClientAssumption, WidthAssumption
  <1>. QED  BY <1>2, ModSmall DEF Fits

LEMMA PlaceVariableEffect ==
    ASSUME IInv, ~corrupted, OriginAboveIds, variable_id < Len(order),
           PlaceVariable(variable_id, program_counter, Origin)
    PROVE  \E addr : Gives(addr) /\ Fits(addr)
  <1> DEFINE same == last_program_counter = program_counter
             addr == CASE same /\ Grown # 0 -> Grown
                       [] same /\ Grown = 0 -> program_counter + Origin + variable_id
                       [] ~same /\ index > 0 ->
                             Grown + ((program_counter - 1) - last_program_counter)
                       [] OTHER -> (program_counter - 1) + Origin
  <1>1. /\ MatchesMain(variable_id)
        /\ metadata' = [metadata EXCEPT ![Main(index)].address = addr % Word]
        /\ last_address' = addr % Word
        /\ last_program_counter' = program_counter
        /\ index' = (index + 1) % Byte
        /\ last_was_subset_var' = FlagAfterGrowth
        /\ UNCHANGED <<bit16_length, subset_variables_count, last_subset_var_id, corrupted>>
    BY DEF PlaceVariable
  <1>2. /\ variable_id \in Nat /\ program_counter \in Nat /\ last_program_counter \in Nat
        /\ last_program_counter <= program_counter /\ index \in Nat
        /\ Origin \in Nat /\ Byte \in Nat /\ bit16_length \in Nat
        /\ last_subset_var_id \in Nat
    BY ClientAssumption, WidthAssumption DEF IInv, TypeOK, CursorInv
  <1>3. Pending = Main(index)
    <2>1. Main(index) \in DOMAIN metadata
      <3>1. index \in 0 .. bit16_length - 1
        BY <1>1, <1>2 DEF MatchesMain
      <3>2. subset_variables_count[index] \in Nat
        BY <3>1 DEF IInv, TypeOK
      <3>3. Main(index) \in Entries(bit16_length, subset_variables_count)
        BY <3>1, <3>2, EntriesMember DEF Main
      <3>. QED  BY <3>3 DEF IInv, TypeOK
    <2>. QED  BY <1>1, <2>1, IdIsUnique DEF MatchesMain
  <1>4. /\ addr \in Nat
        /\ Origin <= addr /\ addr <= Origin + program_counter + 4 * variable_id
        /\ variable_id > 0 => Grown <= addr
        /\ addr = NextAddress
    <2>1. CASE variable_id = 0
      <3>1. Grown = 0 /\ index = 0 /\ last_program_counter = 0
        BY <2>1, GrownRange DEF IInv, CursorInv
      <3>2. CASE same
        BY <1>2, <2>1, <3>1, <3>2 DEF NextAddress, CodeBytes
      <3>3. CASE ~same
        BY <1>2, <2>1, <3>1, <3>3 DEF NextAddress, CodeBytes
      <3>. QED  BY <3>2, <3>3
    <2>2. CASE variable_id > 0
      <3>1. /\ Grown \in Nat /\ Origin < Grown
            /\ Grown <= Origin + last_program_counter + 4 * variable_id
            /\ index > 0
        BY <2>2, GrownRange, CursorFacts
      <3>2. CASE same
        BY <1>2, <2>2, <3>1, <3>2 DEF NextAddress
      <3>3. CASE ~same
        <4>1. addr = Grown + ((program_counter - 1) - last_program_counter)
          BY <3>1, <3>3
        <4>2. addr = NextAddress
          BY <2>2, <3>3, <4>1 DEF NextAddress
        <4>. HIDE DEF addr
        <4>. QED  BY <1>2, <2>2, <3>1, <3>3, <4>1, <4>2
      <3>. QED  BY <3>2, <3>3
    <2>. QED  BY <1>2, <2>1, <2>2
  <1> HIDE DEF addr, same
  <1>5. addr % Word = addr /\ Fits(addr)
    BY <1>4, NotTruncated
  <1>6. index' = index + 1 /\ index' \in 0 .. Byte - 1
    <2>1. index + 1 < Byte
      BY CursorFacts
    <2>2. (index + 1) % Byte = index + 1
      <3>1. index + 1 \in Nat
        BY <1>2
      <3>. QED  BY <1>2, <2>1, <3>1, ModSmall
    <2>3. index' = index + 1
      BY <1>1, <2>2
    <2>. QED  BY <1>2, <2>1, <2>3
  <1>7. last_was_subset_var' = FALSE
    <2>1. ~(index = 0 /\ last_was_subset_var)
      <3>1. CASE variable_id = 0
        BY <3>1 DEF IInv, CursorInv
      <3>2. CASE variable_id > 0
        BY <1>2, <3>2, CursorFacts
      <3>. QED  BY <1>2, <3>1, <3>2
    <2>2. FlagAfterGrowth = FALSE
      BY <2>1, Zenon DEF FlagAfterGrowth
    <2>. QED  BY <1>1, <2>2, Zenon
  <1>8. Previous' = Pending
    BY <1>2, <1>3, <1>6, <1>7 DEF Previous, Main
  <1>9. Gives(addr)
    BY <1>1, <1>2, <1>3, <1>5, <1>6, <1>7, <1>8 DEF Gives
  <1>. QED  BY <1>5, <1>9

LEMMA PlaceSubsetEffect ==
    ASSUME IInv, ~corrupted, OriginAboveIds, variable_id < Len(order),
           PlaceSubset(variable_id, program_counter)
    PROVE  \E addr : Gives(addr) /\ Fits(addr)
  <1> DEFINE M == MatchingSubsets(variable_id)
  <1>1. /\ variable_id \in Nat /\ program_counter \in Nat /\ index \in Nat
        /\ index \in 0 .. Byte - 1
        /\ Byte \in Nat
    BY WidthAssumption DEF IInv, TypeOK
  <1>2. M # {} /\ M = {Pending}
    <2>1. M # {}
      BY DEF PlaceSubset
    <2>2. \A k \in M : k = Pending
      BY IdIsUnique DEF MatchingSubsets
    <2>. QED  BY <2>1, <2>2
  <1>3. FirstInOrder(M) = Pending
    <2>1. FirstInOrder(M) \in M
      <3>1. \E k \in M : \A e \in M : k[1] < e[1] \/ (k[1] = e[1] /\ k[2] <= e[2])
        <4>1. Pending[1] \in Int /\ Pending[2] \in Int
          BY CursorFacts
        <4>. QED  BY <1>2, <4>1
      <3>. QED  BY <3>1 DEF FirstInOrder
    <2>. QED  BY <1>2, <2>1
  <1>4. /\ Pending[2] \in 1 .. Byte /\ Pending[1] = index - 1
        /\ variable_id > 0 /\ Pending = <<Pending[1], Pending[2]>>
        /\ last_program_counter = program_counter
    <2>1. Pending \in M
      BY <1>2
    <2>2. Pending[2] \in 1 .. Byte
      BY <2>1 DEF MatchingSubsets
    <2>3. Pending[2] # 0 /\ Pending[2] > 0
      BY <1>1, <2>2
    <2>4. last_program_counter = program_counter
      BY <2>3 DEF IInv, CursorInv
    <2>. QED  BY <2>2, <2>3, <2>4, CursorFacts
  <1>5. /\ metadata' = [metadata EXCEPT ![Pending].address = Grown % Word]
        /\ last_address' = Grown % Word
        /\ last_program_counter' = program_counter
        /\ last_subset_var_id' = Pending[2] - 1
        /\ last_was_subset_var' = TRUE
        /\ UNCHANGED <<bit16_length, subset_variables_count, index, corrupted>>
    BY <1>3, <1>4 DEF PlaceSubset
  <1>6. /\ Grown \in Nat /\ Origin < Grown
        /\ Grown <= Origin + program_counter + 4 * variable_id
    BY <1>4, GrownRange
  <1>7. Grown % Word = Grown /\ Fits(Grown)
    <2>1. Origin <= Grown
      BY <1>6, ClientAssumption
    <2>2. Grown = NextAddress
      BY <1>1, <1>4 DEF NextAddress
    <2>. QED  BY <1>6, <2>1, <2>2, NotTruncated
  <1>8. Previous' = Pending
    <2>1. Previous' = Sub(index' - 1, last_subset_var_id')
      BY <1>5 DEF Previous
    <2>2. Previous' = <<index - 1, (Pending[2] - 1) + 1>>
      BY <1>5, <2>1 DEF Sub
    <2>. QED  BY <1>4, <2>2
  <1>9. last_subset_var_id' \in Nat
    BY <1>1, <1>4, <1>5
  <1>10. Gives(Grown)
    BY <1>1, <1>5, <1>7, <1>8, <1>9 DEF Gives
  <1>. QED  BY <1>7, <1>10

\* With the id presented declared and named once, pass 1 places it, unless the
\* compare past the end of the table goes astray.
LEMMA AssignEffect ==
    ASSUME IInv, ~corrupted, OriginAboveIds, variable_id < Len(order),
           AddMemAddress(variable_id, program_counter, Origin)
    PROVE  Corrupt \/ \E addr : Gives(addr) /\ Fits(addr)
  <1>1. ~PlaceNothing(variable_id)
    <2>. SUFFICES ASSUME PlaceNothing(variable_id) PROVE FALSE
      OBVIOUS
    <2>1. /\ ~MatchesMain(variable_id) /\ MatchingSubsets(variable_id) = {}
      BY DEF PlaceNothing
    <2>2. /\ Pending \in DOMAIN metadata /\ metadata[Pending].address = variable_id
          /\ Pending = <<Pending[1], Pending[2]>>
      BY CursorFacts, IdIsUnique
    <2>3. /\ index \in Nat /\ bit16_length \in Nat /\ Byte \in Nat
          /\ Pending[1] \in 0 .. bit16_length - 1 /\ Pending[2] \in 0 .. Byte - 1
      BY CursorFacts, WidthAssumption DEF IInv, TypeOK
    <2>4. CASE Pending[2] = 0
      <3>1. Pending = Main(index) /\ index < bit16_length
        BY <2>2, <2>3, <2>4, CursorFacts DEF Main
      <3>. QED  BY <2>1, <2>2, <3>1 DEF MatchesMain
    <2>5. CASE Pending[2] # 0
      <3>1. Pending[1] < index /\ Pending[2] \in 1 .. Byte
        BY <2>3, <2>5, CursorFacts
      <3>. QED  BY <2>1, <2>2, <3>1 DEF MatchingSubsets
    <2>. QED  BY <2>4, <2>5
  <1>. QED
    BY <1>1, PlaceVariableEffect, PlaceSubsetEffect DEF AddMemAddress

\* What the preprocessor does around the call.
LEMMA PresentedStep ==
    ASSUME IInv, AssignMemAddress
    PROVE  /\ pass = "assign" /\ ~corrupted /\ variable_id < Len(order)
           /\ AddMemAddress(variable_id, program_counter, Origin)
           /\ pass' = pass /\ program_counter' = program_counter /\ order' = order
           /\ variable_id \in Nat /\ variable_id' = variable_id + 1
           /\ variable_id' \in 0 .. Byte - 1 /\ variable_id' <= Len(order)
           /\ Placed' = Placed \cup {Pending}
           /\ due' \in [Placed' -> [address : Nat, code : Nat]]
           /\ \A k \in Placed' : due'[k].code <= CodeBytes'
  <1>1. /\ pass = "assign" /\ ~corrupted /\ variable_id < Len(order)
        /\ AddMemAddress(variable_id, program_counter, Origin)
        /\ UNCHANGED <<pass, program_counter, order>>
        /\ variable_id' = (variable_id + 1) % Byte
        /\ due' = [k \in DOMAIN due \cup {Pending} |->
                      IF k = Pending THEN [address |-> DueNext, code |-> CodeBytes]
                                     ELSE due[k]]
    BY DEF AssignMemAddress
  <1>2. /\ variable_id \in Nat /\ order \in Seq(DOMAIN metadata) /\ Byte \in Nat
        /\ program_counter \in Nat
        /\ due \in [Placed -> [address : Nat, code : Nat]]
    BY WidthAssumption DEF IInv, TypeOK
  <1>3. Len(order) \in Nat /\ Len(order) <= MaxDecls
    BY <1>2, LenProperties DEF IInv, OrderInv
  <1>4. variable_id' = variable_id + 1 /\ variable_id' \in 0 .. Byte - 1
    <2>1. variable_id + 1 \in Nat /\ variable_id + 1 < Byte
      BY <1>1, <1>2, <1>3, ClientAssumption
    <2>2. (variable_id + 1) % Byte = variable_id + 1
      BY <1>2, <2>1, ModSmall
    <2>. QED  BY <1>1, <1>2, <2>1, <2>2
  <1>5. Placed' = Placed \cup {Pending}
    <2>1. order' = order
      BY <1>1
    <2>2. 1 .. variable_id' = (1 .. variable_id) \cup {variable_id + 1}
      BY <1>2, <1>4
    <2>. QED  BY <2>1, <2>2 DEF Placed, Pending
  <1>6. CodeBytes \in Nat /\ CodeBytes' = CodeBytes
    BY <1>1, <1>2 DEF CodeBytes
  <1>7. DueNext \in Nat
    <2>1. CASE variable_id = 0
      BY <1>6, <2>1, ClientAssumption DEF DueNext
    <2>2. CASE variable_id > 0
      <3> DEFINE last == order[variable_id]
      <3>1. last \in Placed
        BY <1>2, <2>2 DEF Placed
      <3>2. /\ due[last].address \in Nat /\ due[last].code \in Nat
            /\ due[last].code <= CodeBytes
        BY <1>2, <3>1 DEF IInv, CursorInv
      <3>3. Bytes(metadata[last].size) \in 1 .. 4
        BY BytesType
      <3>4. DueNext = due[last].address + Bytes(metadata[last].size)
                          + (CodeBytes - due[last].code)
        BY <1>2, <2>2 DEF DueNext
      <3> HIDE DEF last
      <3>. QED  BY <1>6, <3>2, <3>3, <3>4
    <2>. QED  BY <1>2, <2>1, <2>2
  <1>8. due' \in [Placed' -> [address : Nat, code : Nat]]
    <2>1. DOMAIN due \cup {Pending} = Placed'
      BY <1>2, <1>5
    <2>. QED  BY <1>1, <1>2, <1>6, <1>7, <2>1
  <1>9. \A k \in Placed' : due'[k].code <= CodeBytes'
    <2>. SUFFICES ASSUME NEW k \in Placed' PROVE due'[k].code <= CodeBytes'
      OBVIOUS
    <2>1. CASE k = Pending
      BY <1>1, <1>6, <2>1
    <2>2. CASE k # Pending
      <3>1. k \in Placed /\ due'[k] = due[k]
        BY <1>1, <1>2, <1>5, <2>2
      <3>. QED  BY <1>6, <3>1 DEF IInv, CursorInv
    <2>. QED  BY <2>1, <2>2
  <1>10. pass' = pass /\ program_counter' = program_counter /\ order' = order
    BY <1>1
  <1>11. variable_id' <= Len(order)
    BY <1>1, <1>2, <1>3, <1>4
  <1>12. /\ pass = "assign" /\ ~corrupted /\ variable_id < Len(order)
         /\ AddMemAddress(variable_id, program_counter, Origin)
    BY <1>1
  <1>. QED
    BY <1>2, <1>4, <1>5, <1>8, <1>9, <1>10, <1>11, <1>12

LEMMA AssignStep ==
    ASSUME IInv, OriginAboveIds, AssignMemAddress
    PROVE  IInv'
  <1>1. /\ pass = "assign" /\ pass' = pass /\ ~corrupted /\ variable_id < Len(order)
        /\ program_counter' = program_counter /\ order' = order
        /\ variable_id \in Nat /\ variable_id' = variable_id + 1
        /\ variable_id' \in 0 .. Byte - 1 /\ variable_id' <= Len(order)
        /\ due' \in [Placed' -> [address : Nat, code : Nat]]
        /\ \A k \in Placed' : due'[k].code <= CodeBytes'
    BY PresentedStep
  <1>2. /\ order \in Seq(DOMAIN metadata) /\ Len(order) \in Nat
        /\ program_counter \in Nat
        /\ program_counter <= 3 * MaxCode + 2
    BY LenProperties DEF IInv, TypeOK, CursorInv
  <1>3. CASE Corrupt
    <2>1. /\ UNCHANGED <<declared, placement>> /\ corrupted' = TRUE
      BY <1>3 DEF Corrupt
    <2>2. TypeOK'
      BY <1>1, <2>1 DEF IInv, TypeOK, declared, placement
    <2>3. OrderInv'
      <3>1. /\ order' = order /\ metadata' = metadata /\ bit16_length' = bit16_length
            /\ subset_variables_count' = subset_variables_count
        BY <1>1, <2>1 DEF declared
      <3>. QED  BY <3>1, OrderKept DEF IInv
    <2>4. CursorInv'
      BY <1>1, <1>2, <2>1 DEF IInv, CursorInv, placement
    <2>5. OrdinalIds'
      BY <1>1, <1>2, <2>1 DEF IInv, OrdinalIds, declared
    <2>6. LockStep' /\ AddressInv'
      BY <2>1 DEF LockStep, AddressInv
    <2>. QED  BY <2>2, <2>3, <2>4, <2>5, <2>6 DEF IInv
  <1>4. ASSUME NEW addr, Gives(addr), Fits(addr)
        PROVE  IInv'
    <2>1. /\ metadata' = [metadata EXCEPT ![Pending].address = addr]
          /\ last_address' = addr
          /\ last_program_counter' = program_counter
          /\ Previous' = Pending
          /\ index' \in 0 .. Byte - 1
          /\ last_subset_var_id' \in Nat
          /\ last_was_subset_var' \in BOOLEAN
          /\ bit16_length' = bit16_length /\ corrupted' = corrupted
          /\ subset_variables_count' = subset_variables_count
      BY <1>4 DEF Gives
    <2>2. /\ addr \in 0 .. Word - 1 /\ addr \in Nat
          /\ Origin <= addr /\ addr <= Origin + program_counter + 4 * variable_id
      BY <1>4, WidthAssumption DEF Fits
    <2>3. /\ Pending \in DOMAIN metadata
          /\ DOMAIN metadata' = DOMAIN metadata
          /\ metadata'[Pending] = [metadata[Pending] EXCEPT !.address = addr]
          /\ \A k \in DOMAIN metadata : k # Pending => metadata'[k] = metadata[k]
      BY <1>1, <2>1, CursorFacts
    <2>4. /\ metadata'[Pending].address = addr
          /\ metadata'[Pending].size = metadata[Pending].size
      <3>1. metadata[Pending] \in [name : Names, size : DataTypes, address : 0 .. Word - 1]
        BY <2>3 DEF IInv, TypeOK
      <3>. QED  BY <2>3, <3>1
    <2>5. \A j \in 1 .. Len(order) : j # variable_id + 1 =>
              order[j] \in DOMAIN metadata /\ order[j] # Pending
      <3>1. \A i, j \in 1 .. Len(order) : order[i] = order[j] => i = j
        BY DEF IInv, OrderInv
      <3>2. variable_id + 1 \in 1 .. Len(order)
        BY <1>1, <1>2
      <3>. QED  BY <1>2, <3>1, <3>2, ElementOfSeq DEF Pending
    <2>6. TypeOK'
      <3>1. metadata \in [Entries(bit16_length, subset_variables_count) ->
                            [name : Names, size : DataTypes, address : 0 .. Word - 1]]
        BY DEF IInv, TypeOK
      <3>2. metadata' \in [Entries(bit16_length, subset_variables_count) ->
                             [name : Names, size : DataTypes, address : 0 .. Word - 1]]
        BY <2>1, <2>2, <3>1
      <3>3. order' \in Seq(DOMAIN metadata')
        BY <1>1, <1>2, <2>3
      <3>4. /\ bit16_length' \in Nat
            /\ subset_variables_count' \in [0 .. bit16_length' - 1 -> Nat]
            /\ corrupted' \in BOOLEAN /\ last_program_counter' \in Nat
            /\ program_counter' \in Nat /\ pass' \in {"declare", "assign"}
        BY <1>1, <1>2, <2>1 DEF IInv, TypeOK
      <3>. QED  BY <1>1, <2>1, <2>2, <3>2, <3>3, <3>4 DEF TypeOK
    <2>7. OrderInv'
      <3>1. /\ order' = order /\ DOMAIN metadata' = DOMAIN metadata
            /\ bit16_length' = bit16_length
            /\ subset_variables_count' = subset_variables_count
        BY <1>1, <2>1, <2>3
      <3>2. OrderInv
        BY DEF IInv
      <3>3. /\ IsFiniteSet(DOMAIN metadata')
            /\ Len(order') = Cardinality(DOMAIN metadata')
        BY <3>1, <3>2 DEF OrderInv
      <3>4. DOMAIN metadata' = {order'[j] : j \in 1 .. Len(order')}
        <4>1. DOMAIN metadata = {order[j] : j \in 1 .. Len(order)}
          BY <3>2 DEF OrderInv
        <4>2. order' = order
          BY <3>1
        <4>. QED  BY <3>1, <4>1, <4>2, Zenon
      <3>5. /\ Len(order') <= MaxDecls
            /\ \A i, j \in 1 .. Len(order') : order'[i] = order'[j] => i = j
            /\ \A j \in 1 .. Len(order') : order'[j][1] < j /\ order'[j][2] < j
            /\ order' # <<>> => /\ order'[1] = Main(0)
                                /\ bit16_length' > 0
                                /\ order'[Len(order')] = <<bit16_length' - 1,
                                       subset_variables_count'[bit16_length' - 1]>>
            /\ order' = <<>> => bit16_length' = 0
            /\ \A j \in 1 .. Len(order') - 1 : Follows(order'[j + 1], order'[j])
        BY <3>1, <3>2 DEF OrderInv
      <3>. QED  BY <3>3, <3>4, <3>5 DEF OrderInv
    <2>8. CursorInv'
      <3>1. variable_id' # 0 /\ pass' # "declare"
        BY <1>1
      <3>. QED  BY <1>1, <1>2, <2>1, <3>1 DEF CursorInv
    <2>9. OrdinalIds'
      <3>. SUFFICES ASSUME NEW j \in variable_id + 2 .. Len(order)
                    PROVE  metadata'[order[j]].address = j - 1
        BY <1>1 DEF OrdinalIds
      <3>1. /\ j \in variable_id + 1 .. Len(order) /\ j \in 1 .. Len(order)
            /\ j # variable_id + 1
        BY <1>1, <1>2
      <3>2. metadata[order[j]].address = j - 1
        BY <3>1 DEF IInv, OrdinalIds
      <3>. QED  BY <2>3, <2>5, <3>1, <3>2
    <2>10. LockStep'
      BY <1>1, <2>1 DEF LockStep, Pending
    <2>11. AddressInv'
      <3>1. /\ last_program_counter \in Nat
            /\ last_program_counter <= program_counter
        BY DEF IInv, TypeOK, CursorInv
      <3>2. \A j \in 1 .. variable_id :
               /\ j \in 1 .. Len(order) /\ j # variable_id + 1
               /\ metadata'[order[j]] = metadata[order[j]]
               /\ metadata[order[j]].address \in Nat
        <4>1. \A j \in 1 .. variable_id : j \in 1 .. Len(order) /\ j # variable_id + 1
          BY <1>1, <1>2
        <4>2. \A k \in DOMAIN metadata : metadata[k].address \in Nat
          BY WidthAssumption DEF IInv, TypeOK
        <4>. QED  BY <2>3, <2>5, <4>1, <4>2
      <3>3. \A j \in 1 .. variable_id :
               /\ Origin <= metadata[order[j]].address
               /\ metadata[order[j]].address
                      <= Origin + last_program_counter + 4 * (j - 1)
        BY <1>1 DEF IInv, AddressInv
      <3>4. order[variable_id + 1] = Pending /\ \A j \in 1 .. variable_id' :
               j \in 1 .. variable_id \/ j = variable_id + 1
        BY <1>1 DEF Pending
      <3>5. ASSUME NEW j \in 1 .. variable_id'
            PROVE  /\ Origin <= metadata'[order[j]].address
                   /\ metadata'[order[j]].address
                          <= Origin + program_counter + 4 * (j - 1)
        <4>1. CASE j \in 1 .. variable_id
          BY <1>2, <3>1, <3>2, <3>3, <4>1, ClientAssumption
        <4>2. CASE j = variable_id + 1
          BY <1>1, <1>2, <2>2, <2>4, <3>4, <4>2
        <4>. QED  BY <3>4, <4>1, <4>2
      <3>6. ASSUME NEW i \in 1 .. variable_id', NEW j \in 1 .. variable_id', i < j
            PROVE  metadata'[order[i]].address + Bytes(metadata'[order[i]].size)
                       <= metadata'[order[j]].address
        <4>1. \A l, m \in 1 .. variable_id : l < m =>
                 metadata[order[l]].address + Bytes(metadata[order[l]].size)
                     <= metadata[order[m]].address
          BY <1>1 DEF IInv, AddressInv
        <4>2. i \in 1 .. variable_id
          BY <1>1, <3>4, <3>6
        <4>3. CASE j \in 1 .. variable_id
          BY <3>2, <3>6, <4>1, <4>2, <4>3
        <4>4. CASE j = variable_id + 1
          <5> DEFINE last == metadata[order[variable_id]]
          <5>1. variable_id > 0 /\ variable_id \in 1 .. variable_id
            BY <1>1, <4>2
          <5>2. Grown = last.address + Bytes(last.size) /\ Grown <= addr
            BY <1>1, <1>4, <5>1, GrownRange DEF Fits
          <5>3. /\ last.address \in Nat /\ Bytes(last.size) \in 1 .. 4
                /\ metadata[order[i]].address \in Nat
                /\ Bytes(metadata[order[i]].size) \in 1 .. 4
            BY <3>2, <4>2, <5>1, BytesType
          <5>4. metadata[order[i]].address + Bytes(metadata[order[i]].size)
                    <= last.address + Bytes(last.size)
            <6>1. CASE i = variable_id
              BY <5>3, <6>1
            <6>2. CASE i < variable_id
              <7>1. metadata[order[i]].address + Bytes(metadata[order[i]].size)
                        <= last.address
                BY <4>1, <4>2, <5>1, <6>2
              <7> HIDE DEF last
              <7>. QED  BY <5>3, <7>1
            <6>. QED  BY <1>1, <4>2, <6>1, <6>2
          <5> HIDE DEF last
          <5>5. metadata[order[i]].address + Bytes(metadata[order[i]].size) <= addr
            BY <2>2, <5>2, <5>3, <5>4
          <5>. QED  BY <2>4, <3>2, <3>4, <4>2, <4>4, <5>5
        <4>. QED  BY <3>4, <4>3, <4>4
      <3>7. last_address' = metadata'[order[variable_id']].address
        BY <1>1, <2>1, <2>4, <3>4
      <3>. QED  BY <1>1, <2>1, <3>5, <3>6, <3>7 DEF AddressInv
    <2>. QED
      BY <2>6, <2>7, <2>8, <2>9, <2>10, <2>11 DEF IInv
  <1>5. Corrupt \/ \E addr : Gives(addr) /\ Fits(addr)
    BY PresentedStep, AssignEffect
  <1>. QED  BY <1>3, <1>4, <1>5
-----------------------------------------------------------------------------
(***************************************************************************)
(* Theorems.                                                               *)
(***************************************************************************)
LEMMA NextIInv ==
    ASSUME OriginAboveIds
    PROVE  IInv /\ [Next]_vars => IInv'
  <1> SUFFICES ASSUME IInv, [Next]_vars PROVE IInv'
    OBVIOUS
  <1>1. ASSUME NEW name \in Names, NEW size \in DataTypes,
               DeclareVariable(name, size) \/ DeclareSubset(name, size)
        PROVE  IInv'
    BY <1>1, DeclareVariableStep, DeclareSubsetStep
  <1>2. CASE StartPass1
    BY <1>2, StartPass1Step
  <1>3. CASE Code
    BY <1>3, CodeStep
  <1>4. CASE AssignMemAddress
    BY <1>4, AssignStep
  <1>5. CASE UNCHANGED vars
    <2>1. /\ UNCHANGED <<tableVars, variable_id, order, due>>
          /\ pass' = pass /\ program_counter' = program_counter
      BY <1>5 DEF vars, clientVars
    <2>2. CursorInv'
      BY <2>1 DEF IInv, CursorInv, Pending, Placed, CodeBytes, tableVars, placement
    <2>3. pass' \in {"declare", "assign"} /\ program_counter' \in Nat
      BY <2>1 DEF IInv, TypeOK
    <2>. QED  BY <2>1, <2>2, <2>3, SameTable
  <1>. QED
    BY <1>1, <1>2, <1>3, <1>4, <1>5 DEF Next, Finished

\* The strengthened invariant holds of every behaviour, for every width,
\* number of declarations, amount of code and origin above the ids.
THEOREM Inductive == ASSUME OriginAboveIds PROVE Spec => []IInv
  <1>1. Init => IInv
    BY InitIInv
  <1>2. IInv /\ [Next]_vars => IInv'
    BY NextIInv
  <1>. QED  BY <1>1, <1>2, PTL DEF Spec

\* Every variable of the table and of its client keeps its range.
THEOREM TypeCorrect == ASSUME OriginAboveIds PROVE Spec => []TypeOK
  <1>1. IInv => TypeOK
    BY DEF IInv
  <1>. QED  BY <1>1, Inductive, PTL

\* The id of the preprocessor and the cursor of the table never part, and the
\* entries still to be placed hold the ids still to be presented.
THEOREM IdsInLockStep == ASSUME OriginAboveIds PROVE Spec => [](LockStep /\ OrdinalIds)
  <1>1. IInv => LockStep /\ OrdinalIds
    BY DEF IInv
  <1>. QED  BY <1>1, Inductive, PTL

LEMMA BlocksApart ==
    \A a, b, m, n \in Nat :
        a + m <= b => (a .. a + m - 1) \cap (b .. b + n - 1) = {}
  OBVIOUS

\* No two placed variables share a byte.
THEOREM Disjoint == ASSUME OriginAboveIds PROVE Spec => []NoOverlap
  <1>1. ASSUME IInv, ~corrupted
        PROVE  \A k \in Placed :
                 /\ metadata[k].address >= Origin
                 /\ \A e \in Placed \ {k} : Block(k) \cap Block(e) = {}
    <2> SUFFICES ASSUME NEW i \in 1 .. variable_id, NEW j \in 1 .. variable_id
                 PROVE  /\ metadata[order[i]].address >= Origin
                        /\ order[i] # order[j] =>
                              Block(order[i]) \cap Block(order[j]) = {}
      BY DEF Placed
    <2>1. Origin <= metadata[order[i]].address
      BY <1>1 DEF IInv, AddressInv
    <2>2. \A l, m \in 1 .. variable_id : l < m =>
              metadata[order[l]].address + Bytes(metadata[order[l]].size)
                  <= metadata[order[m]].address
      BY <1>1 DEF IInv, AddressInv
    <2>3. \A l \in 1 .. variable_id :
              /\ metadata[order[l]].address \in Nat
              /\ Bytes(metadata[order[l]].size) \in 1 .. 4
      <3>1. order \in Seq(DOMAIN metadata) /\ variable_id \in Nat
            /\ variable_id <= Len(order)
        BY <1>1, WidthAssumption DEF IInv, TypeOK, CursorInv
      <3>2. \A l \in 1 .. variable_id : order[l] \in DOMAIN metadata
        BY <3>1, ElementOfSeq, LenProperties
      <3>3. \A k \in DOMAIN metadata : metadata[k].address \in Nat
        BY <1>1, WidthAssumption DEF IInv, TypeOK
      <3>. QED  BY <3>2, <3>3, BytesType
    <2>4. metadata[order[i]].address >= Origin
      BY <2>1, <2>3, ClientAssumption
    <2>5. CASE i < j
      BY <2>2, <2>3, <2>4, <2>5, BlocksApart DEF Block
    <2>6. CASE j < i
      <3>1. Block(order[j]) \cap Block(order[i]) = {}
        BY <2>2, <2>3, <2>6, BlocksApart DEF Block
      <3>. QED  BY <2>4, <3>1
    <2>7. CASE i = j
      BY <2>4, <2>7
    <2>. QED  BY <2>5, <2>6, <2>7
  <1>2. ASSUME IInv PROVE NoOverlap
    <2>1. CASE corrupted
      BY <2>1 DEF NoOverlap
    <2>2. CASE ~corrupted
      BY <1>1, <1>2, <2>2 DEF NoOverlap
    <2>. QED  BY <2>1, <2>2
  <1>. QED  BY <1>2, Inductive, PTL

\* A placed variable keeps the address it was given.
THEOREM PlacedOnce == ASSUME OriginAboveIds PROVE Spec => AssignedOnce
  <1> DEFINE Keeps == corrupted' \/ \A k \in Placed : metadata'[k] = metadata[k]
  <1>1. ASSUME IInv, [Next]_vars PROVE [Keeps]_vars
    <2>1. CASE pass = "declare"
      <3>1. Placed = {}
        BY <1>1, <2>1 DEF IInv, CursorInv, Placed
      <3>. QED  BY <3>1
    <2>2. CASE StartPass1 \/ Code \/ UNCHANGED vars
      BY <2>2 DEF StartPass1, Code, tableVars, declared, vars
    <2>3. CASE AssignMemAddress
      <3>1. Corrupt \/ \E addr : Gives(addr) /\ Fits(addr)
        BY <1>1, <2>3, PresentedStep, AssignEffect
      <3>2. CASE Corrupt
        BY <3>2 DEF Corrupt
      <3>3. ASSUME NEW addr, Gives(addr) PROVE Keeps
        <4>. SUFFICES ASSUME NEW j \in 1 .. variable_id
                      PROVE  metadata'[order[j]] = metadata[order[j]]
          BY DEF Placed
        <4>1. /\ ~corrupted /\ variable_id < Len(order) /\ variable_id \in Nat
              /\ order \in Seq(DOMAIN metadata)
          BY <1>1, <2>3, PresentedStep DEF IInv, TypeOK
        <4>2. j \in 1 .. Len(order) /\ variable_id + 1 \in 1 .. Len(order)
              /\ j # variable_id + 1
          BY <4>1, LenProperties
        <4>3. order[j] # Pending /\ order[j] \in DOMAIN metadata
          <5>1. \A i, l \in 1 .. Len(order) : order[i] = order[l] => i = l
            BY <1>1 DEF IInv, OrderInv
          <5>. QED  BY <4>1, <4>2, <5>1, ElementOfSeq DEF Pending
        <4>. QED  BY <3>3, <4>3 DEF Gives
      <3>. QED  BY <3>1, <3>2, <3>3
    <2>4. CASE \E name \in Names, size \in DataTypes :
                  DeclareVariable(name, size) \/ DeclareSubset(name, size)
      BY <2>1, <2>4 DEF DeclareVariable, DeclareSubset
    <2>. QED
      BY <1>1, <2>2, <2>3, <2>4 DEF Next, Finished
  <1>. QED  BY <1>1, Inductive, PTL DEF Spec, AssignedOnce

\* With the origin above every id, an address given names one entry only.
LEMMA AddressIsUnique ==
    ASSUME IInv, ~corrupted, OriginAboveIds, NEW i \in 1 .. variable_id
    PROVE  Addressed(metadata[order[i]].address) = {order[i]}
  <1>0. Len(order) <= MaxDecls
    BY DEF IInv, OrderInv
  <1>1. /\ variable_id \in Nat /\ order \in Seq(DOMAIN metadata)
        /\ Len(order) \in Nat /\ variable_id <= Len(order)
    BY WidthAssumption, LenProperties DEF IInv, TypeOK, CursorInv
  <1>2. DOMAIN metadata = {order[j] : j \in 1 .. Len(order)}
    BY DEF IInv, OrderInv
  <1>3. \A j \in 1 .. Len(order) :
            /\ metadata[order[j]].address \in Nat
            /\ Bytes(metadata[order[j]].size) \in 1 .. 4
    <2>1. \A j \in 1 .. Len(order) : order[j] \in DOMAIN metadata
      BY <1>2
    <2>2. \A k \in DOMAIN metadata : metadata[k].address \in Nat
      BY WidthAssumption DEF IInv, TypeOK
    <2>. QED  BY <2>1, <2>2, BytesType
  <1>. SUFFICES ASSUME NEW j \in 1 .. Len(order), j # i
                PROVE  metadata[order[j]].address # metadata[order[i]].address
    <2>1. order[i] \in DOMAIN metadata
      <3>1. i \in 1 .. Len(order)
        BY <1>1
      <3>. QED  BY <1>2, <3>1, Zenon
    <2>2. \A k \in DOMAIN metadata :
              metadata[k].address = metadata[order[i]].address => k = order[i]
      BY <1>2
    <2>. QED  BY <2>1, <2>2, Zenon DEF Addressed
  <1>4. CASE j <= variable_id
    <2>1. \A l, m \in 1 .. variable_id : l < m =>
              metadata[order[l]].address + Bytes(metadata[order[l]].size)
                  <= metadata[order[m]].address
      BY DEF IInv, AddressInv
    <2>2. i < j \/ j < i
      BY <1>1
    <2>. QED  BY <1>1, <1>3, <1>4, <2>1, <2>2
  <1>5. CASE j > variable_id
    <2>1. metadata[order[j]].address = j - 1
      BY <1>1, <1>5 DEF IInv, OrdinalIds
    <2>2. Origin <= metadata[order[i]].address
      BY DEF IInv, AddressInv
    <2>3. Len(order) <= Origin
      BY <1>0, <1>1, ClientAssumption DEF OriginAboveIds
    <2>. QED  BY <1>1, <1>3, <2>1, <2>2, <2>3, ClientAssumption
  <1>. QED  BY <1>1, <1>4, <1>5

\* get_variable_size answers with the size of the variable that was placed at
\* the address, although it sees nothing but the address.
THEOREM LookupFindsSize == ASSUME OriginAboveIds PROVE Spec => []SizeLookup
  <1>1. ASSUME IInv PROVE SizeLookup
    <2>. SUFFICES ASSUME ~corrupted, NEW i \in 1 .. variable_id
                  PROVE  SizeByAddress(metadata[order[i]].address)
                             = metadata[order[i]].size
      BY DEF SizeLookup, Placed
    <2>1. Addressed(metadata[order[i]].address) = {order[i]}
      BY <1>1, AddressIsUnique
    <2>2. order[i][1] = order[i][1] /\ order[i][2] <= order[i][2]
      <3>1. order[i] \in DOMAIN metadata
        BY <2>1 DEF Addressed
      <3>2. order[i] \in Entries(bit16_length, subset_variables_count)
        BY <1>1, <3>1 DEF IInv, TypeOK
      <3>3. order[i][2] \in Int
        BY <3>2, EntriesMember
      <3>. QED  BY <3>3
    <2>3. FirstInOrder({order[i]}) = order[i]
      BY <2>2 DEF FirstInOrder
    <2>. QED  BY <2>1, <2>3 DEF SizeByAddress
  <1>. QED  BY <1>1, Inductive, PTL

-----------------------------------------------------------------------------
(***************************************************************************)
(* The calls of the two passes implement AddressLayout: every step of the  *)
(* client hands one entry a fresh block above all the others, or nothing.  *)
(* And by how much the addresses lag the text.                             *)
(***************************************************************************)
\* What the refinement needs beyond IInv: the counter has seen whole
\* instructions only, and the table is corrupted by a placement or not at all.
CodeSeen ==
    \/ program_counter = 0
    \/ \E n \in Nat : n <= MaxCode /\ program_counter = 3 * n + 1

CorruptedLate == corrupted => pass = "assign" /\ variable_id > 0

RInv == IInv /\ CodeSeen /\ CorruptedLate

LEMMA InitRInv == Init => RInv
  BY InitIInv DEF Init, TableInit, RInv, CodeSeen, CorruptedLate

LEMMA NextRInv ==
    ASSUME OriginAboveIds
    PROVE  RInv /\ [Next]_vars => RInv'
  <1>. SUFFICES ASSUME RInv, [Next]_vars PROVE RInv'
    OBVIOUS
  <1>1. IInv /\ IInv'
    BY NextIInv DEF RInv
  <1>2. CASE StartPass1
    BY <1>1, <1>2 DEF StartPass1, RInv, CodeSeen, CorruptedLate, tableVars
  <1>3. CASE Code
    <2>1. /\ ~corrupted' /\ program_counter < 3 * MaxCode
          /\ program_counter' = IF program_counter = 0 THEN 4 ELSE program_counter + 3
      BY <1>3 DEF Code, tableVars
    <2>2. CASE program_counter = 0
      <3>1. 1 \in Nat /\ 1 <= MaxCode /\ program_counter' = 3 * 1 + 1
        BY <2>1, <2>2, ClientAssumption
      <3>. QED  BY <1>1, <2>1, <3>1 DEF RInv, CodeSeen, CorruptedLate
    <2>3. CASE program_counter # 0
      <3>1. PICK n \in Nat : n <= MaxCode /\ program_counter = 3 * n + 1
        BY <2>3 DEF RInv, CodeSeen
      <3>2. n + 1 \in Nat /\ n + 1 <= MaxCode /\ program_counter' = 3 * (n + 1) + 1
        BY <2>1, <2>3, <3>1, ClientAssumption
      <3>. QED  BY <1>1, <2>1, <3>2 DEF RInv, CodeSeen, CorruptedLate
    <2>. QED  BY <2>2, <2>3
  <1>4. CASE AssignMemAddress
    <2>1. /\ pass' = "assign" /\ program_counter' = program_counter
          /\ variable_id \in Nat /\ variable_id' = variable_id + 1
      BY <1>1, <1>4, PresentedStep
    <2>. QED  BY <1>1, <2>1 DEF RInv, CodeSeen, CorruptedLate
  <1>5. ASSUME NEW name \in Names, NEW size \in DataTypes,
               DeclareVariable(name, size) \/ DeclareSubset(name, size)
        PROVE  RInv'
    <2>1. /\ pass = "declare" /\ corrupted' = corrupted /\ program_counter' = program_counter
      <3>1. CASE DeclareVariable(name, size)
        BY <3>1 DEF DeclareVariable, AddVariable
      <3>2. CASE DeclareSubset(name, size)
        <4>1. bit16_length \in Nat /\ bit16_length > 0
          BY <1>1, <3>2 DEF DeclareSubset, IInv, TypeOK
        <4>. QED  BY <3>2, <4>1 DEF DeclareSubset, AddSubsetVariable
      <3>. QED  BY <1>5, <3>1, <3>2
    <2>. QED  BY <1>1, <2>1 DEF RInv, CodeSeen, CorruptedLate
  <1>6. CASE UNCHANGED vars
    BY <1>1, <1>6 DEF vars, clientVars, tableVars, RInv, CodeSeen, CorruptedLate
  <1>. QED
    BY <1>2, <1>3, <1>4, <1>5, <1>6 DEF Next, Finished
-----------------------------------------------------------------------------
\* The refinement mapping, in the words of the client.
AbstractLayout ==
    [k \in PlacedEntries |-> [from |-> metadata[k].address, bytes |-> Bytes(metadata[k].size)]]
AbstractTop ==
    IF PlacedCount = 0 THEN Origin
    ELSE metadata[order[PlacedCount]].address + Bytes(metadata[order[PlacedCount]].size)

LEMMA InitLayout == Init => Layout!LayoutInit
  <1>. SUFFICES ASSUME Init PROVE Layout!LayoutInit
    OBVIOUS
  <1>1. PlacedCount = 0
    BY DEF Init, TableInit, PlacedCount
  <1>2. PlacedEntries = {}
    BY <1>1 DEF PlacedEntries
  <1>. QED  BY <1>1, <1>2 DEF Layout!LayoutInit

\* What leaves the placed entries alone is a stutter of the layout.
LEMMA LayoutStutters ==
    ASSUME PlacedCount' = PlacedCount, PlacedCount \in Nat,
           \A j \in 1 .. PlacedCount :
               order'[j] = order[j] /\ metadata'[order[j]] = metadata[order[j]]
    PROVE  UNCHANGED Layout!layoutVars
  <1>1. PlacedEntries' = PlacedEntries
    BY DEF PlacedEntries
  <1>2. \A k \in PlacedEntries : metadata'[k] = metadata[k]
    BY DEF PlacedEntries
  <1>3. AbstractLayout' = AbstractLayout
    BY <1>1, <1>2 DEF AbstractLayout
  <1>4. AbstractTop' = AbstractTop
    <2>1. CASE PlacedCount = 0
      BY <2>1 DEF AbstractTop
    <2>2. CASE PlacedCount # 0
      <3>1. PlacedCount \in 1 .. PlacedCount
        BY <2>2
      <3>2. order'[PlacedCount'] = order[PlacedCount]
            /\ metadata'[order'[PlacedCount']] = metadata[order[PlacedCount]]
        BY <3>1
      <3>. QED  BY <3>2 DEF AbstractTop
    <2>. QED  BY <2>1, <2>2
  <1>. QED  BY <1>3, <1>4 DEF AbstractLayout, AbstractTop, Layout!layoutVars

\* A call that gives the pending entry an address places it.
LEMMA GivesPlaces ==
    ASSUME RInv, OriginAboveIds, AssignMemAddress, NEW addr, Gives(addr), Fits(addr)
    PROVE  Layout!LayoutNext
  <1>. DEFINE n == variable_id  bytes == Bytes(metadata[Pending].size)
  <1>1. /\ IInv /\ ~corrupted /\ ~corrupted' /\ n < Len(order) /\ n \in Nat
        /\ variable_id' = n + 1 /\ order' = order /\ Len(order) \in Nat
        /\ order \in Seq(DOMAIN metadata)
    <2>1. IInv
      BY DEF RInv
    <2>2. order \in Seq(DOMAIN metadata)
      BY <2>1 DEF IInv, TypeOK
    <2>. QED  BY <2>1, <2>2, PresentedStep, LenProperties DEF Gives
  <1>2. PlacedCount = n /\ PlacedCount' = n + 1
    BY <1>1 DEF PlacedCount
  <1>3. Pending = order[n + 1] /\ n + 1 \in 1 .. Len(order)
    BY <1>1 DEF Pending
  <1>4. PlacedEntries' = PlacedEntries \cup {Pending}
    BY <1>1, <1>2, <1>3 DEF PlacedEntries
  <1>5. Pending \notin PlacedEntries
    <2>1. \A i, j \in 1 .. Len(order) : order[i] = order[j] => i = j
      BY <1>1 DEF IInv, OrderInv
    <2>. QED  BY <1>1, <1>2, <1>3, <2>1 DEF PlacedEntries
  <1>6. Pending \in (0 .. MaxDecls) \X (0 .. MaxDecls)
    <2>1. /\ Pending = <<Pending[1], Pending[2]>>
          /\ Pending[1] \in 0 .. bit16_length - 1 /\ Pending[2] \in 0 .. Byte - 1
      BY <1>1, CursorFacts
    <2>2. Pending[1] < n + 1 /\ Pending[2] < n + 1 /\ Len(order) <= MaxDecls
      BY <1>1, <1>3 DEF IInv, OrderInv
    <2>. QED  BY <1>1, <2>1, <2>2, ClientAssumption
  <1>7. addr \in 0 .. Word - 1 /\ Origin <= addr /\ addr <= Origin + program_counter + 4 * n
        /\ (n > 0 => Grown <= addr)
    BY DEF Fits
  <1>8. bytes \in {1, 2, 4}
    BY DEF Bytes
  <1>9. addr + bytes <= Word
    <2>1. Len(order) <= MaxDecls
      BY <1>1 DEF IInv, OrderInv
    <2>2. program_counter <= 3 * MaxCode + 1 /\ program_counter \in Nat
      BY ClientAssumption DEF RInv, CodeSeen
    <2>. HIDE DEF bytes
    <2>. QED  BY <1>1, <1>7, <1>8, <2>1, <2>2, ClientAssumption, WidthAssumption
  <1>10. AbstractTop <= addr /\ AbstractTop \in Nat
    <2>1. CASE n = 0
      BY <1>2, <1>7, <2>1, ClientAssumption DEF AbstractTop
    <2>2. CASE n > 0
      <3>1. Grown = metadata[order[n]].address + Bytes(metadata[order[n]].size) /\ Grown \in Nat
        BY <1>1, <2>2, GrownRange
      <3>. QED  BY <1>2, <1>7, <2>2, <3>1 DEF AbstractTop
    <2>. QED  BY <1>1, <2>1, <2>2
  <1>11. metadata' = [metadata EXCEPT ![Pending].address = addr] /\ Pending \in DOMAIN metadata
    BY <1>1, CursorFacts DEF Gives
  <1>12. metadata'[Pending].address = addr /\ metadata'[Pending].size = metadata[Pending].size
    <2>1. metadata[Pending] \in [name : Names, size : DataTypes, address : 0 .. Word - 1]
      BY <1>1, <1>11 DEF IInv, TypeOK
    <2>. QED  BY <1>11, <2>1
  <1>13. \A k \in PlacedEntries : metadata'[k] = metadata[k]
    BY <1>5, <1>11
  <1>14. AbstractLayout' = [e \in PlacedEntries \cup {Pending} |->
              IF e = Pending THEN [from |-> addr, bytes |-> bytes] ELSE AbstractLayout[e]]
    BY <1>4, <1>12, <1>13 DEF AbstractLayout
  <1>15. AbstractTop' = addr + bytes
    BY <1>1, <1>2, <1>3, <1>12 DEF AbstractTop
  <1>. HIDE DEF bytes
  <1>16. DOMAIN AbstractLayout = PlacedEntries
    BY DEF AbstractLayout
  <1>17. PICK k : k = Pending
    OBVIOUS
  <1>18. PICK b \in {1, 2, 4} : b = bytes
    BY <1>8
  <1>19. Layout!Place(k, addr, b)
    BY <1>5, <1>9, <1>10, <1>14, <1>15, <1>16, <1>17, <1>18
       DEF Layout!Place, AbstractLayout, AbstractTop
  <1>20. addr \in AbstractTop .. Word
    BY <1>7, <1>10, WidthAssumption
  <1>21. k \in ((0 .. MaxDecls) \X (0 .. MaxDecls)) \ DOMAIN AbstractLayout
    BY <1>5, <1>6, <1>16, <1>17
  <1>. QED
    BY <1>19, <1>20, <1>21, Zenon DEF Layout!LayoutNext, AbstractLayout, AbstractTop

\* Every step of the client is a step of the layout or a stutter.
LEMMA StepLayout ==
    ASSUME RInv, OriginAboveIds, [Next]_vars
    PROVE  [Layout!LayoutNext]_(Layout!layoutVars)
  <1>1. IInv /\ variable_id \in Nat /\ order \in Seq(DOMAIN metadata) /\ Len(order) \in Nat
        /\ variable_id <= Len(order)
    <2>1. IInv
      BY DEF RInv
    <2>. QED  BY <2>1, WidthAssumption, LenProperties DEF IInv, TypeOK, CursorInv
  <1>2. PlacedCount \in Nat /\ PlacedCount <= variable_id
    BY <1>1 DEF RInv, CorruptedLate, PlacedCount
  <1>3. CASE AssignMemAddress
    <2>1. /\ ~corrupted /\ variable_id' = variable_id + 1 /\ order' = order
          /\ Corrupt \/ \E addr : Gives(addr) /\ Fits(addr)
      BY <1>1, <1>3, PresentedStep, AssignEffect
    <2>2. CASE Corrupt
      <3>1. corrupted' /\ metadata' = metadata
        BY <2>2 DEF Corrupt, declared
      <3>2. PlacedCount' = PlacedCount
        BY <1>1, <2>1, <3>1 DEF PlacedCount
      <3>. QED  BY <1>2, <2>1, <3>1, <3>2, LayoutStutters
    <2>. QED  BY <1>3, <2>1, <2>2, GivesPlaces
  <1>4. CASE pass = "declare"
    <2>1. variable_id = 0 /\ ~corrupted
      BY <1>1, <1>4 DEF RInv, CorruptedLate, IInv, CursorInv
    <2>2. (variable_id' = 0 /\ ~corrupted') \/ AssignMemAddress
      <3>1. ASSUME NEW name \in Names, NEW size \in DataTypes, DeclareVariable(name, size)
            PROVE  variable_id' = 0 /\ ~corrupted'
        BY <2>1, <3>1 DEF DeclareVariable, AddVariable
      <3>2. ASSUME NEW name \in Names, NEW size \in DataTypes, DeclareSubset(name, size)
            PROVE  variable_id' = 0 /\ ~corrupted'
        <4>1. bit16_length \in Nat /\ bit16_length > 0
          BY <1>1, <3>2 DEF DeclareSubset, IInv, TypeOK
        <4>. QED  BY <2>1, <3>2, <4>1 DEF DeclareSubset, AddSubsetVariable
      <3>3. StartPass1 \/ Code \/ Finished \/ UNCHANGED vars => variable_id' = 0 /\ ~corrupted'
        BY <2>1 DEF StartPass1, Code, Finished, vars, clientVars, tableVars
      <3>. QED  BY <3>1, <3>2, <3>3 DEF Next
    <2>3. CASE variable_id' = 0 /\ ~corrupted'
      <3>1. PlacedCount = 0 /\ PlacedCount' = 0
        BY <2>1, <2>3 DEF PlacedCount
      <3>. QED  BY <3>1, LayoutStutters
    <2>. QED  BY <1>3, <2>2, <2>3
  <1>5. CASE StartPass1 \/ Code \/ Finished \/ UNCHANGED vars
    <2>1. /\ variable_id' = variable_id /\ corrupted' = corrupted
          /\ order' = order /\ metadata' = metadata
      BY <1>5 DEF StartPass1, Code, Finished, vars, clientVars, tableVars, declared
    <2>. QED  BY <1>2, <2>1, LayoutStutters DEF PlacedCount
  <1>6. ASSUME NEW name \in Names, NEW size \in DataTypes,
               DeclareVariable(name, size) \/ DeclareSubset(name, size)
        PROVE  pass = "declare"
    BY <1>6 DEF DeclareVariable, DeclareSubset
  <1>. QED  BY <1>3, <1>4, <1>5, <1>6 DEF Next

\* Placement as the program does it is the layout AddressLayout describes: one
\* block of bytes for each entry, in order, above every other.
THEOREM Implements == ASSUME OriginAboveIds PROVE Spec => ImplementsLayout
  <1>1. Init => RInv /\ Layout!LayoutInit
    BY InitRInv, InitLayout
  <1>2. RInv /\ [Next]_vars => RInv'
    BY NextRInv
  <1>3. RInv /\ [Next]_vars => [Layout!LayoutNext]_(Layout!layoutVars)
    BY StepLayout
  <1>. QED  BY <1>1, <1>2, <1>3, PTL DEF Spec, ImplementsLayout, Layout!LayoutSpec

-----------------------------------------------------------------------------
(***************************************************************************)
(* By how much an address falls short of the place the text gives the      *)
(* variable: one byte for each separate block of code behind the first     *)
(* variable that was placed at a counter other than 0.                     *)
(***************************************************************************)
\* The counter is 0 or has counted an instruction, and the client remembers the
\* code in front of the variable placed last by the counter the table remembers.
CounterSeen ==
    /\ program_counter = 0 \/ program_counter >= 4
    /\ last_program_counter = 0 \/ last_program_counter >= 4
    /\ ~corrupted /\ variable_id > 0 =>
           due[order[variable_id]].code =
               IF last_program_counter = 0 THEN 0 ELSE last_program_counter - 1

LagInv == IInv /\ CounterSeen /\ LagPerBlock

LEMMA InitLag == Init => LagInv
  BY InitIInv DEF Init, TableInit, LagInv, CounterSeen, LagPerBlock

\* Steps that place nothing keep the lag of what is placed.
LEMMA LagStutters ==
    ASSUME LagInv, IInv', program_counter' = 0 \/ program_counter' >= 4,
           UNCHANGED <<last_program_counter, variable_id, due, corrupted>>,
           \A j \in 1 .. variable_id :
               order'[j] = order[j] /\ metadata'[order[j]] = metadata[order[j]]
    PROVE  LagInv'
  <1>1. variable_id \in Nat
    BY DEF LagInv, IInv, TypeOK
  <1>2. \A j \in 1 .. variable_id : Lag(j)' = Lag(j)
    BY DEF Lag
  <1>3. CounterSeen'
    BY <1>1 DEF LagInv, CounterSeen
  <1>4. LagPerBlock'
    <2>1. ~corrupted /\ variable_id > 0 => Lag(1)' = 0
      BY <1>1, <1>2 DEF LagInv, LagPerBlock
    <2>2. ASSUME ~corrupted, NEW j \in 1 .. variable_id - 1
          PROVE  Lag(j + 1)' - Lag(j)' =
                     IF due[order'[j]].code \in {0, due[order'[j + 1]].code} THEN 0 ELSE 1
      <3>1. j \in 1 .. variable_id /\ j + 1 \in 1 .. variable_id
        BY <1>1
      <3>2. Lag(j + 1) - Lag(j) =
                IF due[order[j]].code \in {0, due[order[j + 1]].code} THEN 0 ELSE 1
        BY <2>2 DEF LagInv, LagPerBlock
      <3>. QED  BY <1>2, <3>1, <3>2
    <2>3. Lag(1)' = (due[order[1]].address - metadata[order[1]].address)'
      BY DEF Lag
    <2>. QED  BY <2>1, <2>2 DEF LagPerBlock
  <1>. QED  BY <1>3, <1>4 DEF LagInv

\* A call that places the pending entry adds its lag: nothing for code counted
\* from 0, one byte for code counted from behind another block.
LEMMA LagPlaces ==
    ASSUME LagInv, OriginAboveIds, AssignMemAddress, IInv',
           NEW addr, Gives(addr), Fits(addr)
    PROVE  LagInv'
  <1>0. PICK n : n = variable_id
    OBVIOUS
  <1>. DEFINE last == order[n]
  <1>1. /\ IInv /\ ~corrupted /\ ~corrupted' /\ n < Len(order) /\ n \in Nat
        /\ n + 1 \in 1 .. Len(order) /\ Len(order) \in Nat
        /\ variable_id' = n + 1 /\ order' = order /\ program_counter' = program_counter
        /\ order \in Seq(DOMAIN metadata)
    <2>1. IInv
      BY DEF LagInv
    <2>2. order \in Seq(DOMAIN metadata)
      BY <2>1 DEF IInv, TypeOK
    <2>. QED  BY <1>0, <2>1, <2>2, PresentedStep, LenProperties DEF Gives
  <1>2. /\ Pending = order[n + 1]
        /\ \A j \in 1 .. n : order[j] # Pending /\ order[j] \in DOMAIN metadata
    <2>1. \A i, j \in 1 .. Len(order) : order[i] = order[j] => i = j
      BY <1>1 DEF IInv, OrderInv
    <2>. QED  BY <1>0, <1>1, <2>1, ElementOfSeq DEF Pending
  <1>3. /\ last_program_counter \in Nat /\ program_counter \in Nat
        /\ last_program_counter <= program_counter
        /\ last_program_counter' = program_counter
        /\ CodeBytes \in Nat /\ CodeBytes' = CodeBytes
        /\ due \in [Placed -> [address : Nat, code : Nat]]
    <2>1. /\ last_program_counter \in Nat /\ program_counter \in Nat
          /\ due \in [Placed -> [address : Nat, code : Nat]]
      BY <1>1 DEF IInv, TypeOK
    <2>2. last_program_counter <= program_counter
      BY <1>1 DEF IInv, CursorInv
    <2>3. CodeBytes \in Nat /\ CodeBytes' = CodeBytes
      BY <1>1, <2>1 DEF CodeBytes
    <2>. QED  BY <2>1, <2>2, <2>3 DEF Gives
  <1>4. /\ due'[Pending].address = DueNext /\ due'[Pending].code = CodeBytes
        /\ \A j \in 1 .. n : due'[order[j]] = due[order[j]]
    <2>1. due' = [k \in DOMAIN due \cup {Pending} |->
                     IF k = Pending THEN [address |-> DueNext, code |-> CodeBytes]
                                    ELSE due[k]]
      BY DEF AssignMemAddress
    <2>2. \A j \in 1 .. n : order[j] \in DOMAIN due
      BY <1>0, <1>3 DEF Placed
    <2>. QED  BY <1>2, <2>1, <2>2
  <1>5. /\ metadata'[Pending].address = addr
        /\ \A j \in 1 .. n : metadata'[order[j]] = metadata[order[j]]
    <2>1. Pending \in DOMAIN metadata
          /\ metadata' = [metadata EXCEPT ![Pending].address = addr]
      BY <1>0, <1>1, CursorFacts DEF Gives
    <2>2. metadata[Pending] \in [name : Names, size : DataTypes, address : 0 .. Word - 1]
      BY <1>1, <2>1 DEF IInv, TypeOK
    <2>. QED  BY <1>2, <2>1, <2>2
  <1>6. addr = NextAddress /\ addr \in Nat
    BY WidthAssumption DEF Fits
  <1>7. \A j \in 1 .. n : Lag(j)' = Lag(j)
    BY <1>1, <1>4, <1>5 DEF Lag
  <1>8. Lag(n + 1)' = DueNext - addr
    <2>1. Lag(n + 1)' = due'[order'[n + 1]].address - metadata'[order'[n + 1]].address
      BY DEF Lag
    <2>. QED  BY <1>1, <1>2, <1>4, <1>5, <2>1
  <1>9. CounterSeen'
    <2>1. due'[order'[variable_id']].code = CodeBytes
      BY <1>0, <1>1, <1>2, <1>4
    <2>. QED  BY <1>0, <1>1, <1>3, <2>1 DEF LagInv, CounterSeen, CodeBytes
  <1>10. CASE n = 0
    <2>1. DueNext = Origin + CodeBytes /\ addr = Origin + CodeBytes
      BY <1>0, <1>6, <1>10 DEF DueNext, NextAddress
    <2>2. Lag(1)' = 0
      BY <1>3, <1>8, <1>10, <2>1, ClientAssumption
    <2>. QED  BY <1>0, <1>1, <1>9, <1>10, <2>2 DEF LagInv, LagPerBlock
  <1>11. CASE n > 0
    <2>1. n \in 1 .. n /\ last \in Placed
      BY <1>0, <1>1, <1>11 DEF Placed
    <2>2. /\ due[last].address \in Nat /\ due[last].code \in Nat
          /\ due[last].code <= CodeBytes
      BY <1>1, <1>3, <2>1 DEF IInv, CursorInv
    <2>3. /\ metadata[last].address \in Nat /\ Bytes(metadata[last].size) \in 1 .. 4
      <3>1. last \in DOMAIN metadata
        BY <1>2, <2>1
      <3>2. metadata \in [DOMAIN metadata ->
                 [name : Names, size : DataTypes, address : 0 .. Word - 1]]
        BY <1>1 DEF IInv, TypeOK
      <3>. HIDE DEF last
      <3>. QED  BY <3>1, <3>2, WidthAssumption, BytesType
    <2>4. DueNext = due[last].address + Bytes(metadata[last].size)
                        + (CodeBytes - due[last].code)
      BY <1>0, <1>11 DEF DueNext
    <2>5. Grown = metadata[last].address + Bytes(metadata[last].size)
      BY <1>0, <1>1, <1>11, GrownRange
    <2>6. due[last].code = IF last_program_counter = 0 THEN 0
                                                       ELSE last_program_counter - 1
      BY <1>0, <1>1, <1>11 DEF LagInv, CounterSeen
    <2>7. Lag(n) = due[last].address - metadata[last].address
      BY DEF Lag
    <2>8. (program_counter = 0 \/ program_counter >= 4)
          /\ (last_program_counter = 0 \/ last_program_counter >= 4)
      BY DEF LagInv, CounterSeen
    <2>9. (DueNext - addr) - Lag(n) = IF due[last].code \in {0, CodeBytes} THEN 0 ELSE 1
      <3>. DEFINE b == Bytes(metadata[last].size)
                  a == metadata[last].address
                  d == due[last].address
                  c == due[last].code
      <3>. HIDE DEF a, b, c, d, last
      <3>1. CASE program_counter = last_program_counter
        <4>1. addr = a + b
          BY <1>0, <1>6, <1>11, <2>5, <3>1 DEF NextAddress, a, b
        <4>2. c = CodeBytes
          BY <2>6, <3>1 DEF CodeBytes, c
        <4>3. DueNext = d + b
          BY <1>3, <2>2, <2>3, <2>4, <4>2 DEF b, c, d
        <4>4. (DueNext - addr) - Lag(n) = 0
          BY <2>2, <2>3, <2>7, <4>1, <4>3 DEF a, b, d
        <4>. QED  BY <4>2, <4>4 DEF c
      <3>2. CASE program_counter # last_program_counter
        <4>1. addr = (a + b) + ((program_counter - 1) - last_program_counter)
          BY <1>0, <1>6, <1>11, <2>5, <3>2 DEF NextAddress, a, b
        <4>2. CodeBytes = program_counter - 1 /\ program_counter >= 4
          BY <1>3, <2>8, <3>2 DEF CodeBytes
        <4>3. DueNext = (d + b) + ((program_counter - 1) - c)
          BY <2>4, <4>2 DEF b, c, d
        <4>4. /\ a \in Nat /\ b \in Nat /\ c \in Nat /\ d \in Nat /\ Lag(n) = d - a
          BY <2>2, <2>3, <2>7 DEF a, b, c, d
        <4>5. (DueNext - addr) - Lag(n) = last_program_counter - c
          BY <1>3, <4>1, <4>3, <4>4
        <4>6. c = IF last_program_counter = 0 THEN 0 ELSE last_program_counter - 1
          BY <2>6 DEF c
        <4>7. CASE last_program_counter = 0
          BY <4>5, <4>6, <4>7 DEF c
        <4>8. CASE last_program_counter # 0
          <5>1. c = last_program_counter - 1 /\ c # 0 /\ c # CodeBytes
            BY <1>3, <2>8, <3>2, <4>2, <4>6, <4>8
          <5>. QED  BY <1>3, <4>5, <5>1 DEF c
        <4>. QED  BY <4>7, <4>8
      <3>. QED  BY <3>1, <3>2
    <2>10. ASSUME NEW j \in 1 .. n
           PROVE  Lag(j + 1)' - Lag(j)' =
                      IF due'[order[j]].code \in {0, due'[order[j + 1]].code} THEN 0 ELSE 1
      <3>1. CASE j = n
        <4>1. due'[order[j]].code = due[last].code /\ due'[order[j + 1]].code = CodeBytes
          BY <1>2, <1>4, <3>1
        <4>2. Lag(j + 1)' - Lag(j)' = (DueNext - addr) - Lag(n)
          BY <1>7, <1>8, <3>1
        <4>. QED  BY <2>9, <4>1, <4>2
      <3>2. CASE j \in 1 .. n - 1
        <4>1. j \in 1 .. n /\ j + 1 \in 1 .. n
          BY <1>1, <3>2
        <4>2. Lag(j + 1) - Lag(j) =
                  IF due[order[j]].code \in {0, due[order[j + 1]].code} THEN 0 ELSE 1
          BY <1>0, <1>1, <3>2 DEF LagInv, LagPerBlock
        <4>. QED  BY <1>4, <1>7, <4>1, <4>2
      <3>. QED  BY <1>1, <3>1, <3>2
    <2>11. Lag(1)' = 0
      <3>1. Lag(1) = 0 /\ 1 \in 1 .. n
        BY <1>0, <1>1, <1>11 DEF LagInv, LagPerBlock
      <3>. QED  BY <1>7, <3>1
    <2>12. 1 .. variable_id' - 1 = 1 .. n
      BY <1>1
    <2>. QED  BY <1>0, <1>1, <1>9, <2>10, <2>11, <2>12 DEF LagInv, LagPerBlock
  <1>. QED  BY <1>1, <1>10, <1>11

LEMMA NextLag ==
    ASSUME OriginAboveIds
    PROVE  LagInv /\ [Next]_vars => LagInv'
  <1>. SUFFICES ASSUME LagInv, [Next]_vars PROVE LagInv'
    OBVIOUS
  <1>1. IInv /\ IInv'
    BY NextIInv DEF LagInv
  <1>2. CASE AssignMemAddress
    <2>1. CASE Corrupt
      <3>1. corrupted'
        BY <2>1 DEF Corrupt
      <3>2. CounterSeen'
        <4>1. /\ variable_id \in Nat /\ variable_id' = variable_id + 1
              /\ program_counter' = program_counter
              /\ last_program_counter' = last_program_counter
          BY <1>1, <1>2, <2>1, PresentedStep DEF Corrupt, placement
        <4>. QED  BY <3>1, <4>1 DEF CounterSeen, LagInv
      <3>. QED  BY <1>1, <3>1, <3>2 DEF LagInv, LagPerBlock
    <2>2. Corrupt \/ \E addr : Gives(addr) /\ Fits(addr)
      BY <1>1, <1>2, PresentedStep, AssignEffect
    <2>. QED  BY <1>1, <1>2, <2>1, <2>2, LagPlaces
  <1>3. CASE pass = "declare"
    <2>1. variable_id = 0 /\ program_counter = 0 /\ last_program_counter = 0
      BY <1>1, <1>3 DEF IInv, CursorInv
    <2>2. CASE AssignMemAddress
      BY <1>3, <2>2 DEF AssignMemAddress
    <2>3. CASE ~AssignMemAddress
      <3>1. /\ variable_id' = 0 /\ program_counter' = 0 /\ last_program_counter' = 0
        BY <1>1, <1>3, <2>1, <2>3
           DEF Next, DeclareVariable, AddVariable, DeclareSubset, AddSubsetVariable,
               StartPass1, Code, Finished, vars, clientVars, tableVars, placement,
               IInv, TypeOK
      <3>. QED  BY <1>1, <3>1 DEF LagInv, CounterSeen, LagPerBlock
    <2>. QED  BY <1>2, <2>3
  <1>4. CASE StartPass1 \/ Code \/ Finished \/ UNCHANGED vars
    <2>1. /\ UNCHANGED <<last_program_counter, variable_id, due, corrupted, order, metadata>>
          /\ program_counter' = 0 \/ program_counter' >= 4
      <3>1. program_counter \in Nat /\ (program_counter = 0 \/ program_counter >= 4)
        BY <1>1 DEF LagInv, CounterSeen, IInv, TypeOK
      <3>. QED  BY <1>4, <3>1 DEF StartPass1, Code, Finished, vars, clientVars, tableVars,
                                  declared, placement
    <2>. QED  BY <1>1, <2>1, LagStutters
  <1>5. ASSUME NEW name \in Names, NEW size \in DataTypes,
               DeclareVariable(name, size) \/ DeclareSubset(name, size)
        PROVE  pass = "declare"
    BY <1>5 DEF DeclareVariable, DeclareSubset
  <1>. QED  BY <1>2, <1>3, <1>4, <1>5 DEF Next

\* The address of a variable falls short of its place by one byte for each block
\* of code between two variables behind the first counted one, and by no more.
THEOREM LagIsPerBlock == ASSUME OriginAboveIds PROVE Spec => []LagPerBlock
  <1>1. Init => LagInv
    BY InitLag
  <1>2. LagInv /\ [Next]_vars => LagInv'
    BY NextLag
  <1>3. LagInv => LagPerBlock
    BY DEF LagInv
  <1>. QED  BY <1>1, <1>2, <1>3, PTL DEF Spec
=============================================================================
