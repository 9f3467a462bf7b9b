--------------------------- MODULE TransactionsProofs ---------------------------
(***************************************************************************)
(* For any transactions, items and names: a save meets a line number that  *)
(* is taken once at most, after the worker came in between; an item is not *)
(* shown with the translation of a name it no longer has; and importing    *)
(* what was just exported restores it.                                     *)
(***************************************************************************)
EXTENDS Transactions, FiniteSetTheorems, TLAPS

-----------------------------------------------------------------------------
(* The inductive invariant.                                                *)

Assumptions == NoneAssumption /\ NamesAssumption /\ MaxLinesAssumption /\ ItemsAssumption

\* A language is of the name itself, or of an empty one that a default replaced.
LangFits(row) ==
    row.lang \in {None, row.name} \/ (row.lang = Empty /\ row.name \in {NewItem, Imported})

\* Items of the transactions "owners": no two with one number, and what is known
\* of a name's language and of its translation is of the name itself.
ItemsFit(rows, names, owners) ==
    /\ rows = [i \in DOMAIN rows |-> rows[i]]
    /\ DOMAIN rows \subseteq Items
    /\ \A i \in DOMAIN rows :
        /\ rows[i] \in Item
        /\ rows[i].tx \in owners
        /\ LangFits(rows[i])
        /\ rows[i].base => /\ i \in DOMAIN names
                           /\ names[i] \in Names
                           /\ rows[i].raw = names[i]
    /\ \A i, j \in DOMAIN rows : rows[i].tx = rows[j].tx /\ rows[i].line = rows[j].line => i = j

\* A file holds each transaction and each item once, with the transaction of
\* every item, and the same of the items as above.
FileFits ==
    /\ file.failed \in BOOLEAN
    /\ file.tx \subseteq [id : Tx, date : Dates]
    /\ file.items \subseteq [id : Items, row : Item]
    /\ \A e, f \in file.tx : e.id = f.id => e = f
    /\ \A e, f \in file.items : e.id = f.id => e = f
    /\ \A e, f \in file.items : e.row.tx = f.row.tx /\ e.row.line = f.row.line => e = f
    /\ \A e \in file.items :
        /\ \E f \in file.tx : f.id = e.row.tx
        /\ LangFits(e.row)
        /\ e.row.base = FALSE

\* The worker's transactions are of receipts, which the user cannot delete here.
JobsHaveReceipts == \A t \in job : t \in DOMAIN tx /\ tx[t].receipt

\* In the middle of a save the last line is what was read, or the worker has just
\* committed the items of a receipt's transaction.
EditFits ==
    edit # None =>
        /\ edit.tx \in DOMAIN tx /\ edit.seen \subseteq ItemsOf(edit.tx)
        /\ edit.last \in Nat
        /\ \/ \A n \in Lines(edit.tx) : n <= edit.last
           \/ tx[edit.tx].receipt /\ edit.tx \notin job /\ refused[edit.tx] = 0

IInv ==
    /\ DOMAIN tx \subseteq Tx /\ tx \in [DOMAIN tx -> Row]
    /\ ItemsFit(items, read, DOMAIN tx)
    /\ FileFits
    /\ JobsHaveReceipts
    /\ premium \in BOOLEAN
    /\ EditFits
    /\ refused \in [Tx -> Nat] /\ EditsAreStored
    /\ DOMAIN read \subseteq Items

\* What the runs check follows.
LEMMA InvariantSuffices ==
    ASSUME Assumptions, IInv
    PROVE  TypeOK /\ EditsAreStored /\ TranslationFitsName
<1>1. TypeOK
  <2>1. edit # None => edit.tx \in DOMAIN tx /\ edit.seen \subseteq DOMAIN items
    BY DEF IInv, EditFits, ItemsOf
  <2> QED BY <2>1 DEF IInv, TypeOK, ItemsFit, FileFits, JobsHaveReceipts
<1>2. EditsAreStored
  BY DEF IInv
<1>3. TranslationFitsName
  <2> SUFFICES ASSUME NEW i \in DOMAIN items
               PROVE  /\ TranslationSource(i) = "translatable_name" =>
                          items[i].name = read[i] \/ {items[i].name, read[i]} \cap Blanks # {}
                      /\ TranslationSource(i) = "description" =>
                          \/ items[i].lang = items[i].name
                          \/ items[i].lang = Empty /\ items[i].name \in {NewItem, Imported}
    BY DEF TranslationFitsName
  <2>1. /\ LangFits(items[i])
        /\ items[i].base => items[i].raw = read[i] /\ read[i] \in Names
    BY DEF IInv, ItemsFit
  <2>2. None \notin Names
    BY DEF Assumptions, NoneAssumption
  <2> QED BY <2>1, <2>2 DEF TranslationSource, UserEdited, LangFits
<1> QED BY <1>1, <1>2, <1>3

-----------------------------------------------------------------------------
(* Numbers and counts.                                                     *)

\* A finite set of numbers has a largest one: the numbers above it are the
\* fewest, and there is no infinite descent of finite sets.
LEMMA LargestIsThere ==
    ASSUME NEW S \in SUBSET Nat, IsFiniteSet(S), S # {}
    PROVE  \E n \in S : \A m \in S : m <= n
<1> DEFINE Above(n) == {m \in S : m > n}
           T == {Above(n) : n \in S}
<1>1. T \subseteq FiniteSubsetsOf(S)
  <2> SUFFICES ASSUME NEW n \in S PROVE Above(n) \in FiniteSubsetsOf(S)
    OBVIOUS
  <2>1. Above(n) \in SUBSET S
    OBVIOUS
  <2> HIDE DEF Above
  <2> QED BY <2>1, FS_Subset DEF FiniteSubsetsOf
<1>2. PICK x \in T : \A y \in T : <<y, x>> \notin StrictSubsetOrdering(S)
  <2>1. T # {}
    OBVIOUS
  <2>2. IsWellFoundedOn(StrictSubsetOrdering(S), FiniteSubsetsOf(S))
    BY FS_StrictSubsetOrderingWellFounded
  <2> HIDE DEF T
  <2> QED BY <1>1, <2>1, <2>2, WFMin
<1>3. PICK n \in S : x = Above(n)
  BY <1>2
<1>4. ASSUME NEW m \in S, m > n PROVE FALSE
  <2>1. Above(m) \subseteq Above(n)
    <3> SUFFICES ASSUME NEW k \in S, k > m PROVE k > n
      OBVIOUS
    <3>1. k \in Nat /\ m \in Nat /\ n \in Nat
      OBVIOUS
    <3> QED BY <1>4, <3>1
  <2>2. m \in Above(n) /\ m \notin Above(m)
    BY <1>4
  <2>3. Above(m) \in SUBSET S /\ Above(n) \in SUBSET S /\ Above(m) \in T
    OBVIOUS
  <2> HIDE DEF Above, T
  <2>4. <<Above(m), Above(n)>> \in StrictSubsetOrdering(S)
    BY <2>1, <2>2, <2>3 DEF StrictSubsetOrdering
  <2> QED BY <1>2, <1>3, <2>3, <2>4
<1>5. \A m \in S : m <= n
  BY <1>4
<1> QED BY <1>5

\* A finite set has a subset of every smaller size.
LEMMA SubsetOfSize ==
    ASSUME NEW S, IsFiniteSet(S), NEW n \in 0..Cardinality(S)
    PROVE  \E T \in SUBSET S : Cardinality(T) = n
<1>1. Cardinality(S) \in Nat /\ ExistsBijection(1..Cardinality(S), S)
  BY FS_CardinalityType
<1>2. PICK f \in Bijection(1..Cardinality(S), S) : TRUE
  BY <1>1 DEF ExistsBijection
<1> DEFINE T == {f[i] : i \in 1..n}
           g == [i \in 1..n |-> f[i]]
<1>3. f \in [1..Cardinality(S) -> S] /\ \A i, j \in 1..Cardinality(S) : f[i] = f[j] => i = j
  BY <1>2 DEF Bijection, Injection, IsInjective
<1>4. 1..n \subseteq 1..Cardinality(S) /\ n \in Nat
  BY <1>1
<1>5. g \in Bijection(1..n, T)
  BY <1>3, <1>4 DEF Bijection, Injection, Surjection, IsInjective
<1>6. ExistsBijection(1..n, T)
  BY <1>5 DEF ExistsBijection
<1>7. Cardinality(T) = n
  BY <1>4, <1>6, FS_CountingElements
<1>8. T \in SUBSET S
  BY <1>3, <1>4
<1> QED BY <1>7, <1>8

\* LastLine is the largest number, 0 if there is none.
LEMMA LastLineIsLast ==
    ASSUME Assumptions, IInv, NEW t \in Tx
    PROVE  LastLine(t) \in Nat /\ \A n \in Lines(t) : n \in Nat \ {0} /\ n <= LastLine(t)
<1>1. Lines(t) \subseteq Nat \ {0}
  BY DEF Lines, ItemsOf, IInv, ItemsFit, Item
<1>2. IsFiniteSet(Lines(t))
  <2>1. IsFiniteSet(ItemsOf(t))
    <3>1. ItemsOf(t) \in SUBSET Items
      BY DEF ItemsOf, IInv, ItemsFit
    <3> QED BY <3>1, FS_Subset DEF Assumptions, ItemsAssumption
  <2> DEFINE line == [i \in ItemsOf(t) |-> items[i].line]
  <2>2. line \in Surjection(ItemsOf(t), Lines(t))
    BY DEF Surjection, Lines
  <2> QED BY <2>1, <2>2, FS_Surjection
<1>3. CASE Lines(t) = {}
  BY <1>3 DEF LastLine
<1>4. CASE Lines(t) # {}
  <2>1. \E n \in Lines(t) : \A m \in Lines(t) : m <= n
    BY <1>1, <1>2, <1>4, LargestIsThere
  <2>2. LastLine(t) \in Lines(t) /\ \A m \in Lines(t) : m <= LastLine(t)
    BY <1>4, <2>1 DEF LastLine
  <2> QED BY <1>1, <2>2
<1> QED BY <1>3, <1>4
-----------------------------------------------------------------------------
(* New, dropped and edited items.                                          *)

\* The ids of new items are fresh, and no more than were asked for.
LEMMA NewItemsAreFresh ==
    ASSUME Assumptions, NEW most \in Nat, NEW new \in NewItems(most)
    PROVE  new \subseteq FreshItems /\ IsFiniteSet(new) /\ Cardinality(new) \in 0..most
<1>1. IsFiniteSet(FreshItems)
  <2>1. FreshItems \in SUBSET Items
    BY DEF FreshItems
  <2> QED BY <2>1, FS_Subset DEF Assumptions, ItemsAssumption
<1>2. PICK n \in 0..most :
        /\ n <= Cardinality(FreshItems)
        /\ new = CHOOSE s \in SUBSET FreshItems : Cardinality(s) = n
  BY DEF NewItems
<1>3. n \in 0..Cardinality(FreshItems)
  BY <1>1, <1>2, FS_CardinalityType
<1>4. \E s \in SUBSET FreshItems : Cardinality(s) = n
  BY <1>1, <1>3, SubsetOfSize
<1>5. new \in SUBSET FreshItems /\ Cardinality(new) = n
  BY <1>2, <1>4
<1> QED BY <1>1, <1>2, <1>5, FS_Subset

\* Rows of new items: of one transaction, with numbers of their own.
RowsOf(f, new, t) ==
    /\ f = [i \in DOMAIN f |-> f[i]] /\ DOMAIN f = new
    /\ \A i \in new : /\ f[i] \in Item /\ f[i].tx = t /\ LangFits(f[i])
                      /\ f[i].base => f[i].raw = f[i].name
    /\ \A i, j \in new : f[i].line = f[j].line => i = j

\* A description, or what stands in for an empty one.
LEMMA NamedIsName ==
    ASSUME Assumptions, NEW n \in Names, NEW default \in {NewItem, Imported}
    PROVE  Named(n, default) \in Names /\ (Named(n, default) = n \/ (n = Empty /\ Named(n, default) = default))
  BY DEF Named, Assumptions, NamesAssumption

\* f is what the user enters as new items of t.
Entering(f, new, t, first, names) ==
    /\ t \in Tx /\ first \in Nat \ {0} /\ names \subseteq Names /\ IsFiniteSet(new)
    /\ f \in Entered(new, t, first, names)

\* Items that the user enters are numbered apart from "first" on.
LEMMA EnteredRows ==
    ASSUME Assumptions, NEW f, NEW new, NEW t, NEW first, NEW names,
           Entering(f, new, t, first, names)
    PROVE  RowsOf(f, new, t) /\ \A i \in new : f[i].line >= first /\ f[i].base = FALSE
<1> USE DEF Entering
<1>1. PICK order \in Orders(new, first), given \in [new -> names], known \in SUBSET new :
        f = [i \in new |->
               [tx |-> t, line |-> order[i], name |-> Named(given[i], NewItem),
                lang |-> IF i \in known THEN given[i] ELSE None, raw |-> None, base |-> FALSE]]
  BY DEF Entered
<1>2. Cardinality(new) \in Nat
  BY FS_CardinalityType
<1>3. /\ order \in [new -> first..(first + Cardinality(new) - 1)]
      /\ \A i, j \in new : order[i] = order[j] => i = j
  BY DEF Orders
<1>4. \A i \in new : order[i] \in Nat \ {0} /\ order[i] >= first
  BY <1>2, <1>3
<1>5. ASSUME NEW i \in new
      PROVE  /\ f[i] \in Item /\ f[i].tx = t /\ f[i].line = order[i]
             /\ LangFits(f[i]) /\ f[i].base = FALSE
  <2> DEFINE name == Named(given[i], NewItem)
             lang == IF i \in known THEN given[i] ELSE None
  <2>1. f[i] = [tx |-> t, line |-> order[i], name |-> name, lang |-> lang, raw |-> None, base |-> FALSE]
    BY <1>1
  <2>2. given[i] \in Names
    OBVIOUS
  <2>3. name \in Names /\ (name = given[i] \/ (given[i] = Empty /\ name = NewItem))
    BY <2>2, NamedIsName
  <2>4. lang \in {None, given[i]} /\ lang \in Names \cup {None}
    BY <2>2
  <2> HIDE DEF name, lang
  <2>5. f[i] \in Item
    BY <1>4, <2>1, <2>3, <2>4 DEF Item
  <2>6. f[i].tx = t /\ f[i].line = order[i] /\ f[i].name = name /\ f[i].lang = lang /\ f[i].base = FALSE
    BY <2>1
  <2> QED BY <2>3, <2>4, <2>5, <2>6 DEF LangFits
<1>6. \A i, j \in new : f[i].line = f[j].line => i = j
  <2>1. \A i \in new : f[i].line = order[i]
    BY <1>5
  <2> QED BY <1>3, <2>1
<1>7. f = [i \in DOMAIN f |-> f[i]] /\ DOMAIN f = new
  BY <1>1
<1> QED BY <1>4, <1>5, <1>6, <1>7 DEF RowsOf

\* Items that the worker reads, if no two have one number.
LEMMA ExtractedRows ==
    ASSUME Assumptions, NEW t \in Tx, NEW new, NEW known, NEW f \in Extracted(new, t, known),
           \A i, j \in new : f[i].line = f[j].line => i = j
    PROVE  RowsOf(f, new, t)
<1>1. PICK line \in [new -> 1..MaxLineNo], name \in [new -> Names \ {Empty}],
           normalized \in [new -> BOOLEAN] :
        f = [i \in new |->
               [tx |-> t, line |-> line[i], name |-> name[i], raw |-> name[i],
                lang |-> IF i \in known THEN name[i] ELSE None, base |-> normalized[i]]]
  BY DEF Extracted
<1>2. ASSUME NEW i \in new
      PROVE  f[i] \in Item /\ f[i].tx = t /\ LangFits(f[i]) /\ f[i].raw = f[i].name
  <2> DEFINE lang == IF i \in known THEN name[i] ELSE None
             base == normalized[i]
  <2>1. f[i] = [tx |-> t, line |-> line[i], name |-> name[i], raw |-> name[i], lang |-> lang, base |-> base]
    BY <1>1
  <2>2. /\ name[i] \in Names /\ line[i] \in Nat \ {0} /\ base \in BOOLEAN
        /\ lang \in {None, name[i]}
    BY DEF Assumptions, MaxLinesAssumption
  <2> HIDE DEF lang, base
  <2> QED BY <2>1, <2>2 DEF Item, LangFits
<1>3. f = [i \in DOMAIN f |-> f[i]] /\ DOMAIN f = new
  BY <1>1
<1> QED BY <1>2, <1>3 DEF RowsOf

\* f are new rows of t, with numbers that are free, and names what the worker read.
Adding(f, new, t, names, owners) ==
    /\ t \in Tx \cap owners /\ DOMAIN tx \subseteq owners
    /\ new \in SUBSET FreshItems /\ RowsOf(f, new, t)
    /\ \A i \in new : f[i].line \notin Lines(t)
    /\ \A i \in DOMAIN read : i \in DOMAIN names /\ names[i] = read[i]
    /\ \A i \in new : f[i].base => i \in DOMAIN names /\ names[i] = f[i].name

\* New rows beside those there are.
LEMMA PutFits ==
    ASSUME IInv, NEW f, NEW new, NEW t, NEW names, NEW owners, Adding(f, new, t, names, owners)
    PROVE  /\ ItemsFit(Put(f), names, owners)
           /\ DOMAIN Put(f) = DOMAIN items \cup new
           /\ \A i \in DOMAIN items : Put(f)[i] = items[i]
           /\ \A i \in new : Put(f)[i] = f[i]
<1> USE DEF Adding
<1> DEFINE rows == Put(f)
<1>1. /\ DOMAIN rows = DOMAIN items \cup new /\ new \cap DOMAIN items = {}
      /\ new \subseteq Items
      /\ \A i \in DOMAIN items : rows[i] = items[i]
      /\ \A i \in new : rows[i] = f[i]
      /\ rows = [i \in DOMAIN rows |-> rows[i]]
  BY DEF Put, FreshItems, RowsOf
<1> HIDE DEF rows
<1>2. ASSUME NEW i \in DOMAIN rows
      PROVE  /\ rows[i] \in Item /\ rows[i].tx \in owners
             /\ LangFits(rows[i])
             /\ rows[i].base => /\ i \in DOMAIN names /\ names[i] \in Names
                                /\ rows[i].raw = names[i]
  <2>1. CASE i \in DOMAIN items
    BY <1>1, <2>1 DEF IInv, ItemsFit
  <2>2. CASE i \in new
    <3>1. /\ f[i] \in Item /\ f[i].tx = t /\ LangFits(f[i])
          /\ f[i].base => f[i].raw = f[i].name
      BY <2>2 DEF RowsOf
    <3>2. f[i].name \in Names
      BY <3>1 DEF Item
    <3> QED BY <1>1, <2>2, <3>1, <3>2
  <2> QED BY <1>1, <2>1, <2>2
<1>3. ASSUME NEW i \in DOMAIN rows, NEW j \in DOMAIN rows,
             rows[i].tx = rows[j].tx, rows[i].line = rows[j].line
      PROVE  i = j
  <2>1. CASE i \in DOMAIN items /\ j \in DOMAIN items
    BY <1>1, <1>3, <2>1 DEF IInv, ItemsFit
  <2>2. CASE i \in new /\ j \in new
    BY <1>1, <1>3, <2>2 DEF RowsOf
  <2>3. \A k \in DOMAIN items : items[k].tx = t => items[k].line \in Lines(t)
    BY DEF Lines, ItemsOf
  <2>4. \A k \in new : f[k].tx = t
    BY DEF RowsOf
  <2> QED BY <1>1, <1>3, <2>1, <2>2, <2>3, <2>4
<1>4. DOMAIN rows \subseteq Items
  BY <1>1 DEF IInv, ItemsFit
<1> QED BY <1>1, <1>2, <1>3, <1>4 DEF ItemsFit, rows

\* Items that are left when others are dropped.
LEMMA DropFits ==
    ASSUME NEW rows, NEW names, NEW owners, ItemsFit(rows, names, owners), NEW gone, NEW left,
           \A i \in DOMAIN rows \ gone : rows[i].tx \in left
    PROVE  ItemsFit(Drop(rows, gone), names, left)
<1>1. /\ DOMAIN Drop(rows, gone) = DOMAIN rows \ gone
      /\ \A i \in DOMAIN Drop(rows, gone) : Drop(rows, gone)[i] = rows[i]
      /\ Drop(rows, gone) = [i \in DOMAIN Drop(rows, gone) |-> Drop(rows, gone)[i]]
  BY DEF Drop
<1> QED BY <1>1 DEF ItemsFit

\* An item whose description or language is edited.
LEMMA EditedFits ==
    ASSUME Assumptions, NEW rows, NEW names, NEW owners, ItemsFit(rows, names, owners),
           IInv, NEW e \in DOMAIN items, e \in DOMAIN rows, rows[e] = items[e],
           NEW row \in Edited(e)
    PROVE  ItemsFit([rows EXCEPT ![e] = row], names, owners)
<1>1. items[e] \in Item /\ LangFits(items[e])
  BY DEF IInv, ItemsFit
<1>2. /\ row \in Item /\ row.tx = items[e].tx /\ row.line = items[e].line
      /\ row.base = items[e].base /\ row.raw = items[e].raw
      /\ LangFits(row)
  <2> DEFINE old == items[e]
  <2>1. \/ row = old
        \/ \E n \in Names : row = [old EXCEPT !.name = n, !.lang = None]
        \/ \E n \in Names : row = [old EXCEPT !.name = n, !.lang = n]
    BY DEF Edited
  <2>2. old \in Item /\ LangFits(old)
    BY <1>1
  <2> HIDE DEF old
  <2>3. CASE row = old
    BY <2>2, <2>3 DEF old
  <2>4. ASSUME NEW n \in Names, NEW lang \in {None, n}, row = [old EXCEPT !.name = n, !.lang = lang]
        PROVE  /\ row \in Item /\ row.tx = old.tx /\ row.line = old.line
               /\ row.base = old.base /\ row.raw = old.raw /\ LangFits(row)
    BY <2>2, <2>4 DEF Item, LangFits
  <2> QED BY <2>1, <2>3, <2>4 DEF old
<1> DEFINE edited == [rows EXCEPT ![e] = row]
<1>3. /\ DOMAIN edited = DOMAIN rows /\ edited = [i \in DOMAIN edited |-> edited[i]]
      /\ \A i \in DOMAIN rows : edited[i] = IF i = e THEN row ELSE rows[i]
  BY DEF ItemsFit
<1> HIDE DEF edited
<1>4. \A i \in DOMAIN rows : /\ edited[i] \in Item
                             /\ edited[i].tx = rows[i].tx /\ edited[i].line = rows[i].line
                             /\ edited[i].base = rows[i].base /\ edited[i].raw = rows[i].raw
                             /\ LangFits(edited[i])
  BY <1>2, <1>3 DEF ItemsFit
<1> QED BY <1>3, <1>4 DEF ItemsFit, edited
-----------------------------------------------------------------------------
(* The actions.                                                            *)

\* process_receipt: the transaction of a receipt, without its items.
LEMMA BookReceiptKept ==
    ASSUME Assumptions, IInv, NEW t \in Tx, NEW date \in Dates, BookReceipt(t, date)
    PROVE  IInv'
<1>1. /\ t \notin DOMAIN tx
      /\ DOMAIN tx' = DOMAIN tx \cup {t} /\ tx' \in [DOMAIN tx' -> Row]
      /\ tx'[t].receipt /\ \A x \in DOMAIN tx : tx'[x] = tx[x]
  BY DEF BookReceipt, FreshTx, Row, IInv
<1>2. ItemsFit(items, read, DOMAIN tx')
  BY <1>1 DEF IInv, ItemsFit
<1>3. JobsHaveReceipts'
  BY <1>1 DEF BookReceipt, IInv, JobsHaveReceipts
<1>4. EditFits'
  BY <1>1 DEF BookReceipt, IInv, EditFits, ItemsOf, Lines
<1>5. EditsAreStored'
  BY <1>1 DEF BookReceipt, IInv, EditsAreStored
<1> QED BY <1>1, <1>2, <1>3, <1>4, <1>5 DEF BookReceipt, IInv, FileFits

\* process_receipt: the items, if their numbers are free and differ.
LEMMA BookItemsKept ==
    ASSUME Assumptions, IInv, NEW t \in Tx, BookItems(t)
    PROVE  IInv'
<1>1. /\ UNCHANGED <<tx, premium, file, edit, refused>>
      /\ t \in job /\ job' = job \ {t} /\ t \in DOMAIN tx /\ tx[t].receipt
  BY DEF BookItems, IInv, JobsHaveReceipts
<1>2. JobsHaveReceipts' /\ EditsAreStored'
  BY <1>1 DEF IInv, JobsHaveReceipts, EditsAreStored
<1>new. PICK new \in NewItems(MaxLines) : \E known \in {{}, new} : \E f \in Extracted(new, t, known) :
        IF /\ \A i \in new : f[i].line \notin Lines(t)
           /\ \A i, j \in new : f[i].line = f[j].line => i = j
        THEN /\ items' = Put(f)
             /\ read' = [i \in DOMAIN read \cup new |-> IF i \in new THEN f[i].name ELSE read[i]]
        ELSE UNCHANGED <<items, read>>
  BY DEF BookItems
<1>known. PICK known \in {{}, new} : \E f \in Extracted(new, t, known) :
        IF /\ \A i \in new : f[i].line \notin Lines(t)
           /\ \A i, j \in new : f[i].line = f[j].line => i = j
        THEN /\ items' = Put(f)
             /\ read' = [i \in DOMAIN read \cup new |-> IF i \in new THEN f[i].name ELSE read[i]]
        ELSE UNCHANGED <<items, read>>
  BY <1>new
<1>3. PICK f \in Extracted(new, t, known) :
        IF /\ \A i \in new : f[i].line \notin Lines(t)
           /\ \A i, j \in new : f[i].line = f[j].line => i = j
        THEN /\ items' = Put(f)
             /\ read' = [i \in DOMAIN read \cup new |-> IF i \in new THEN f[i].name ELSE read[i]]
        ELSE UNCHANGED <<items, read>>
  BY <1>known
<1>4. CASE /\ \A i \in new : f[i].line \notin Lines(t)
           /\ \A i, j \in new : f[i].line = f[j].line => i = j
  <2>1. /\ items' = Put(f)
        /\ read' = [i \in DOMAIN read \cup new |-> IF i \in new THEN f[i].name ELSE read[i]]
    BY <1>3, <1>4
  <2>2. new \in SUBSET FreshItems
    BY NewItemsAreFresh DEF Assumptions, MaxLinesAssumption
  <2>3. RowsOf(f, new, t)
    BY <1>4, ExtractedRows
  <2>5. /\ \A i \in DOMAIN read : i \in DOMAIN read' /\ read'[i] = read[i]
        /\ \A i \in new : i \in DOMAIN read' /\ read'[i] = f[i].name
        /\ DOMAIN read' \subseteq Items
    BY <2>1, <2>2 DEF FreshItems, IInv
  <2>6. /\ ItemsFit(Put(f), read', DOMAIN tx)
        /\ DOMAIN Put(f) = DOMAIN items \cup new
        /\ \A i \in DOMAIN items : Put(f)[i] = items[i]
        /\ \A i \in new : Put(f)[i] = f[i]
    <3>1. t \in Tx \cap DOMAIN tx /\ DOMAIN tx \subseteq DOMAIN tx
      BY <1>1
    <3>2. \A i \in new : f[i].base => i \in DOMAIN read' /\ read'[i] = f[i].name
      BY <2>5
    <3>3. Adding(f, new, t, read', DOMAIN tx)
      BY <1>4, <2>2, <2>3, <2>5, <3>1, <3>2 DEF Adding
    <3> QED BY <3>3, PutFits
  <2>7. EditFits'
    <3> SUFFICES ASSUME edit # None
                 PROVE  /\ edit.tx \in DOMAIN tx' /\ edit.seen \subseteq ItemsOf(edit.tx)'
                        /\ edit.last \in Nat
                        /\ \/ \A n \in Lines(edit.tx)' : n <= edit.last
                           \/ tx'[edit.tx].receipt /\ edit.tx \notin job' /\ refused'[edit.tx] = 0
      BY <1>1 DEF EditFits
    <3>1. /\ edit.tx \in DOMAIN tx /\ edit.seen \subseteq ItemsOf(edit.tx) /\ edit.last \in Nat
          /\ \/ \A n \in Lines(edit.tx) : n <= edit.last
             \/ tx[edit.tx].receipt /\ edit.tx \notin job /\ refused[edit.tx] = 0
      BY DEF IInv, EditFits
    <3>2. ItemsOf(edit.tx) \subseteq ItemsOf(edit.tx)'
      <4>1. /\ DOMAIN items' = DOMAIN items \cup new
            /\ \A i \in DOMAIN items : items'[i] = items[i]
        BY <2>1, <2>6
      <4> QED BY <1>1, <4>1 DEF ItemsOf
    <3>3. CASE edit.tx = t
      <4>1. refused[t] = 0
        <5>1. refused[t] \in Nat /\ ~(refused[t] > 0)
          BY <1>1 DEF IInv, EditsAreStored
        <5> QED BY <5>1
      <4> QED BY <1>1, <3>1, <3>2, <3>3, <4>1
    <3>4. CASE edit.tx # t
      <4>1. \A i \in new : f[i].tx = t
        BY <2>3 DEF RowsOf
      <4>2. /\ DOMAIN items' = DOMAIN items \cup new
            /\ \A i \in DOMAIN items : items'[i] = items[i]
            /\ \A i \in new : items'[i].tx # edit.tx
        BY <2>1, <2>6, <3>4, <4>1
      <4>3. Lines(edit.tx)' = Lines(edit.tx)
        BY <1>1, <4>2 DEF Lines, ItemsOf
      <4> QED BY <1>1, <3>1, <3>2, <4>3
    <3> QED BY <3>3, <3>4
  <2> QED BY <1>1, <1>2, <2>1, <2>5, <2>6, <2>7 DEF IInv, FileFits
<1>5. CASE UNCHANGED <<items, read>>
  <2>1. EditFits'
    BY <1>1, <1>5 DEF IInv, EditFits, ItemsOf, Lines
  <2> QED BY <1>1, <1>2, <1>5, <2>1 DEF IInv, FileFits
<1> QED BY <1>3, <1>4, <1>5

\* POST /transactions: a transaction with its items.
LEMMA CreateTransactionKept ==
    ASSUME Assumptions, IInv, NEW t \in Tx, NEW date \in Dates, CreateTransaction(t, date)
    PROVE  IInv'
<1>1. /\ t \notin DOMAIN tx
      /\ DOMAIN tx' = DOMAIN tx \cup {t} /\ tx' \in [DOMAIN tx' -> Row]
      /\ \A x \in DOMAIN tx : tx'[x] = tx[x]
      /\ UNCHANGED <<job, premium, file, edit, refused, read>> /\ edit = None
  BY DEF CreateTransaction, FreshTx, Row, IInv, Free
<1>new. PICK new \in NewItems(1) : \E f \in Entered(new, t, 1, Names \ {Empty}) : items' = Put(f)
  BY DEF CreateTransaction
<1>2. PICK f \in Entered(new, t, 1, Names \ {Empty}) : items' = Put(f)
  BY <1>new
<1>3. new \in SUBSET FreshItems /\ IsFiniteSet(new)
  BY 1 \in Nat, NewItemsAreFresh
<1>one. 1 \in Nat \ {0} /\ Names \ {Empty} \subseteq Names
  OBVIOUS
<1>4. RowsOf(f, new, t) /\ \A i \in new : f[i].base = FALSE
  <2>1. Entering(f, new, t, 1, Names \ {Empty})
    BY <1>2, <1>3, <1>one DEF Entering
  <2> QED BY <2>1, EnteredRows
<1>5. Lines(t) = {}
  BY <1>1 DEF Lines, ItemsOf, IInv, ItemsFit
<1>6. ItemsFit(Put(f), read, DOMAIN tx')
  <2>1. t \in Tx \cap DOMAIN tx' /\ DOMAIN tx \subseteq DOMAIN tx'
    BY <1>1
  <2>2. /\ \A i \in new : f[i].line \notin Lines(t)
        /\ \A i \in new : f[i].base => i \in DOMAIN read /\ read[i] = f[i].name
        /\ \A i \in DOMAIN read : i \in DOMAIN read /\ read[i] = read[i]
    BY <1>4, <1>5
  <2>3. Adding(f, new, t, read, DOMAIN tx')
    BY <1>3, <1>4, <2>1, <2>2 DEF Adding
  <2> QED BY <2>3, PutFits
<1>7. JobsHaveReceipts' /\ EditsAreStored' /\ EditFits'
  BY <1>1 DEF IInv, JobsHaveReceipts, EditsAreStored, EditFits
<1> QED BY <1>1, <1>2, <1>6, <1>7 DEF IInv, FileFits

\* PATCH /transactions: what is read.
LEMMA ReadForUpdateKept ==
    ASSUME Assumptions, IInv, NEW t \in Tx, ReadForUpdate(t)
    PROVE  IInv'
<1>1. /\ t \in DOMAIN tx /\ edit' = [tx |-> t, seen |-> ItemsOf(t), last |-> LastLine(t)]
      /\ UNCHANGED <<tx, items, job, premium, file, refused, read>>
  BY DEF ReadForUpdate
<1>2. edit'.tx = t /\ edit'.seen = ItemsOf(t) /\ edit'.last = LastLine(t)
  BY <1>1
<1>3. LastLine(t) \in Nat /\ \A n \in Lines(t) : n <= LastLine(t)
  BY LastLineIsLast
<1>4. \A n \in {items[i].line : i \in {j \in DOMAIN items : items[j].tx = t}} : n <= LastLine(t)
  BY <1>3 DEF Lines, ItemsOf
<1>5. EditFits'
  <2> SUFFICES /\ edit'.tx \in DOMAIN tx' /\ edit'.last \in Nat
               /\ edit'.seen \subseteq {j \in DOMAIN items' : items'[j].tx = edit'.tx}
               /\ \A n \in {items'[i].line : i \in {j \in DOMAIN items' : items'[j].tx = edit'.tx}} :
                    n <= edit'.last
    BY DEF EditFits, ItemsOf, Lines
  <2>1. edit'.seen = {j \in DOMAIN items : items[j].tx = t}
    BY <1>2 DEF ItemsOf
  <2> QED BY <1>1, <1>2, <1>3, <1>4, <2>1
<1> QED BY <1>1, <1>5 DEF IInv, FileFits, JobsHaveReceipts, EditsAreStored

\* PATCH /transactions: new items are numbered after all that were read, so that
\* they meet none that is to be deleted, and only what the worker committed since.
LEMMA CommitUpdateKept ==
    ASSUME Assumptions, IInv, CommitUpdate
    PROVE  IInv'
<1> DEFINE t == edit.tx
<1>1. /\ edit # None /\ edit' = None /\ UNCHANGED <<tx, job, premium, file, read>>
  BY DEF CommitUpdate, Free
<1>2. /\ t \in DOMAIN tx /\ t \in Tx /\ edit.seen \subseteq ItemsOf(t) /\ edit.last \in Nat
      /\ \/ \A n \in Lines(t) : n <= edit.last
         \/ tx[t].receipt /\ t \notin job /\ refused[t] = 0
  BY <1>1 DEF IInv, EditFits
<1> DEFINE Commits(kept, new, f) ==
        IF \E i \in new : f[i].line \in Lines(t)
        THEN refused' = [refused EXCEPT ![t] = @ + 1] /\ UNCHANGED items
        ELSE /\ UNCHANGED refused
             /\ \/ items' = Drop(Put(f), edit.seen \ kept)
                \/ \E e \in kept : \E row \in Edited(e) :
                    items' = Drop([Put(f) EXCEPT ![e] = row], edit.seen \ kept)
<1>new. PICK kept \in SUBSET edit.seen, new \in NewItems(1) :
          \E f \in Entered(new, t, NextLine(kept), Names) : Commits(kept, new, f)
  BY DEF CommitUpdate
<1>3. PICK f \in Entered(new, t, NextLine(kept), Names) : Commits(kept, new, f)
  BY <1>new
<1>4. new \in SUBSET FreshItems /\ IsFiniteSet(new)
  BY 1 \in Nat, NewItemsAreFresh
<1>5. NextLine(kept) \in Nat \ {0} /\ NextLine(kept) = edit.last + 1
  BY <1>2 DEF NextLine
<1>6. RowsOf(f, new, t) /\ \A i \in new : f[i].line >= NextLine(kept) /\ f[i].base = FALSE
  <2>1. Names \subseteq Names
    OBVIOUS
  <2> HIDE DEF t, Commits
  <2>2. Entering(f, new, t, NextLine(kept), Names)
    BY <1>2, <1>4, <1>5, <2>1 DEF Entering
  <2> QED BY <2>2, EnteredRows
<1>7. EditFits' /\ JobsHaveReceipts'
  BY <1>1 DEF IInv, EditFits, JobsHaveReceipts
<1>8. CASE \E i \in new : f[i].line \in Lines(t)
  <2>1. refused' = [refused EXCEPT ![t] = @ + 1] /\ UNCHANGED items
    BY <1>3, <1>8
  <2>2. ~\A n \in Lines(t) : n <= edit.last
    <3>1. PICK i \in new : f[i].line \in Lines(t)
      BY <1>8
    <3>2. f[i].line \in Nat /\ f[i].line >= edit.last + 1
      BY <1>5, <1>6 DEF RowsOf, Item
    <3>3. ~(f[i].line <= edit.last)
      BY <1>2, <3>2
    <3> QED BY <3>1, <3>3
  <2>3. tx[t].receipt /\ t \notin job /\ refused[t] = 0
    BY <1>2, <2>2
  <2>4. refused' \in [Tx -> Nat] /\ refused'[t] = 1 /\ \A x \in Tx \ {t} : refused'[x] = refused[x]
    BY <1>2, <2>1, <2>3 DEF IInv
  <2>5. EditsAreStored'
    BY <1>1, <1>2, <2>3, <2>4 DEF IInv, EditsAreStored
  <2> HIDE DEF t
  <2> QED BY <1>1, <1>7, <2>1, <2>4, <2>5 DEF IInv, FileFits
<1>9. CASE \A i \in new : f[i].line \notin Lines(t)
  <2>1. /\ UNCHANGED refused
        /\ \/ items' = Drop(Put(f), edit.seen \ kept)
           \/ \E e \in kept : \E row \in Edited(e) :
                items' = Drop([Put(f) EXCEPT ![e] = row], edit.seen \ kept)
    BY <1>3, <1>9
  <2>2. /\ ItemsFit(Put(f), read, DOMAIN tx)
        /\ DOMAIN Put(f) = DOMAIN items \cup new
        /\ \A i \in DOMAIN items : Put(f)[i] = items[i]
        /\ \A i \in new : Put(f)[i] = f[i]
    <3>1. t \in Tx \cap DOMAIN tx /\ DOMAIN tx \subseteq DOMAIN tx
      BY <1>2
    <3>2. /\ \A i \in new : f[i].base => i \in DOMAIN read /\ read[i] = f[i].name
          /\ \A i \in DOMAIN read : i \in DOMAIN read /\ read[i] = read[i]
      BY <1>6
    <3> HIDE DEF t, Commits
    <3>3. Adding(f, new, t, read, DOMAIN tx)
      BY <1>4, <1>6, <1>9, <3>1, <3>2 DEF Adding
    <3> QED BY <3>3, PutFits
  <2>3. ItemsFit(items', read, DOMAIN tx)
    <3>1. CASE items' = Drop(Put(f), edit.seen \ kept)
      <4>1. \A i \in DOMAIN Put(f) \ (edit.seen \ kept) : Put(f)[i].tx \in DOMAIN tx
        BY <2>2 DEF ItemsFit
      <4> QED BY <2>2, <3>1, <4>1, DropFits
    <3>2. ASSUME NEW e \in kept, NEW row \in Edited(e),
                 items' = Drop([Put(f) EXCEPT ![e] = row], edit.seen \ kept)
          PROVE  ItemsFit(items', read, DOMAIN tx)
      <4> DEFINE edited == [Put(f) EXCEPT ![e] = row]
      <4>1. e \in DOMAIN items /\ e \in DOMAIN Put(f) /\ Put(f)[e] = items[e]
        BY <1>2, <2>2 DEF ItemsOf
      <4>2. ItemsFit(edited, read, DOMAIN tx)
        BY <2>2, <4>1, EditedFits
      <4> HIDE DEF edited
      <4>3. \A i \in DOMAIN edited \ (edit.seen \ kept) : edited[i].tx \in DOMAIN tx
        BY <4>2 DEF ItemsFit
      <4>4. items' = Drop(edited, edit.seen \ kept)
        BY <3>2 DEF edited
      <4> QED BY <4>2, <4>3, <4>4, DropFits
    <3> QED BY <2>1, <3>1, <3>2
  <2>4. EditsAreStored'
    BY <1>1, <2>1 DEF IInv, EditsAreStored
  <2> HIDE DEF t
  <2> QED BY <1>1, <1>7, <2>1, <2>3, <2>4 DEF IInv, FileFits
<1> QED BY <1>8, <1>9

\* PATCH /transactions: nothing comes of it.
LEMMA AbandonUpdateKept ==
    ASSUME IInv, AbandonUpdate
    PROVE  IInv'
  BY DEF AbandonUpdate, IInv, FileFits, JobsHaveReceipts, EditFits, EditsAreStored

\* DELETE /transactions: the items go with their transaction.
LEMMA DeleteTransactionKept ==
    ASSUME Assumptions, IInv, NEW t \in Tx, DeleteTransaction(t)
    PROVE  IInv'
<1>1. /\ t \in DOMAIN tx /\ ~tx[t].receipt
      /\ DOMAIN tx' = DOMAIN tx \ {t} /\ tx' \in [DOMAIN tx' -> Row]
      /\ \A x \in DOMAIN tx' : tx'[x] = tx[x]
      /\ items' = Drop(items, ItemsOf(t))
      /\ UNCHANGED <<job, premium, file, edit, refused, read>> /\ edit = None
  BY DEF DeleteTransaction, IInv, Free
<1>2. \A i \in DOMAIN items \ ItemsOf(t) : items[i].tx \in DOMAIN tx'
  BY <1>1 DEF ItemsOf, IInv, ItemsFit
<1>3. ItemsFit(items', read, DOMAIN tx')
  BY <1>1, <1>2, DropFits DEF IInv
<1>4. JobsHaveReceipts' /\ EditsAreStored' /\ EditFits'
  BY <1>1 DEF IInv, JobsHaveReceipts, EditsAreStored, EditFits
<1> QED BY <1>1, <1>3, <1>4 DEF IInv, FileFits

\* DELETE /transactions/{id}/items.
LEMMA DeleteItemKept ==
    ASSUME Assumptions, IInv, NEW t \in Tx, NEW i \in Items, DeleteItem(t, i)
    PROVE  IInv'
<1>1. /\ items' = Drop(items, {i}) /\ edit = None
      /\ UNCHANGED <<tx, job, premium, file, edit, refused, read>>
  BY DEF DeleteItem, Free
<1>2. \A k \in DOMAIN items \ {i} : items[k].tx \in DOMAIN tx
  BY DEF IInv, ItemsFit
<1>3. ItemsFit(items', read, DOMAIN tx)
  BY <1>1, <1>2, DropFits DEF IInv
<1> QED BY <1>1, <1>3 DEF IInv, FileFits, JobsHaveReceipts, EditsAreStored, EditFits
-----------------------------------------------------------------------------
(* Export and import.                                                      *)

\* What an export holds.
LEMMA ExportedRows ==
    ASSUME IInv
    PROVE  /\ \A e \in Exported.tx : e.id \in Selected /\ e = [id |-> e.id, date |-> tx[e.id].date]
           /\ \A t \in Selected : [id |-> t, date |-> tx[t].date] \in Exported.tx
           /\ \A e \in Exported.items : /\ e.id \in DOMAIN items /\ items[e.id].tx \in Selected
                                        /\ e = [id |-> e.id, row |-> Copy(e.id)]
           /\ \A i \in DOMAIN items : items[i].tx \in Selected =>
                [id |-> i, row |-> Copy(i)] \in Exported.items
           /\ \A i \in DOMAIN items :
                /\ Copy(i) \in Item /\ Copy(i).base = FALSE
                /\ Copy(i).tx = items[i].tx /\ Copy(i).line = items[i].line
                /\ Copy(i).name = items[i].name /\ Copy(i).lang = items[i].lang
           /\ Exported.failed = FALSE
<1>1. \A i \in DOMAIN items :
                /\ Copy(i) \in Item /\ Copy(i).base = FALSE
                /\ Copy(i).tx = items[i].tx /\ Copy(i).line = items[i].line
                /\ Copy(i).name = items[i].name /\ Copy(i).lang = items[i].lang
  BY DEF IInv, ItemsFit, Item, Copy
<1> QED BY <1>1 DEF Exported

\* GET /data/export.
LEMMA ExportKept ==
    ASSUME Assumptions, IInv, Export
    PROVE  IInv'
<1>1. /\ UNCHANGED <<tx, items, job, premium, edit, refused, read>> /\ edit = None
      /\ file' \in {Failed, Exported}
  BY DEF Export, Free
<1>2. ASSUME file' = Failed PROVE FileFits'
  <2>1. file'.tx = {} /\ file'.items = {} /\ file'.failed
    BY <1>2 DEF Failed
  <2> QED BY <2>1 DEF FileFits
<1>3. ASSUME file' = Exported PROVE FileFits'
  <2>1. Selected \subseteq Tx /\ \A t \in Selected : tx[t].date \in Dates
    BY DEF Selected, IInv, Row
  <2>2. file'.tx \subseteq [id : Tx, date : Dates]
    BY <1>3, <2>1, ExportedRows
  <2>3. file'.items \subseteq [id : Items, row : Item]
    <3>1. DOMAIN items \subseteq Items
      BY DEF IInv, ItemsFit
    <3>2. ASSUME NEW e \in file'.items PROVE e \in [id : Items, row : Item]
      <4>1. e.id \in DOMAIN items /\ e = [id |-> e.id, row |-> Copy(e.id)] /\ Copy(e.id) \in Item
        BY <1>3, ExportedRows
      <4> QED BY <3>1, <4>1
    <3> QED BY <3>2
  <2>4. \A e, f \in file'.tx : e.id = f.id => e = f
    BY <1>3, ExportedRows
  <2>5. \A e \in file'.items : e.id \in DOMAIN items /\ e.row = Copy(e.id)
    BY <1>3, ExportedRows
  <2>6. \A e, f \in file'.items : e.id = f.id => e = f
    BY <1>3, ExportedRows
  <2>7. \A e, f \in file'.items : e.row.tx = f.row.tx /\ e.row.line = f.row.line => e = f
    <3> SUFFICES ASSUME NEW e \in file'.items, NEW f \in file'.items,
                        e.row.tx = f.row.tx, e.row.line = f.row.line
                 PROVE  e = f
      OBVIOUS
    <3>a. ASSUME NEW i \in DOMAIN items
          PROVE  Copy(i).tx = items[i].tx /\ Copy(i).line = items[i].line
      BY ExportedRows
    <3>1. items[e.id].tx = items[f.id].tx /\ items[e.id].line = items[f.id].line
      <4> HIDE <1>3
      <4> QED BY <2>5, <3>a
    <3>2. e.id = f.id
      BY <2>5, <3>1 DEF IInv, ItemsFit
    <3> QED BY <2>6, <3>2
  <2>8. ASSUME NEW e \in file'.items
        PROVE  /\ \E f \in file'.tx : f.id = e.row.tx
               /\ LangFits(e.row) /\ e.row.base = FALSE
    <3>1. items[e.id].tx \in Selected /\ e.row.tx = items[e.id].tx
      BY <1>3, <2>5, ExportedRows
    <3>2. [id |-> e.row.tx, date |-> tx[e.row.tx].date] \in file'.tx
      BY <1>3, <3>1, ExportedRows
    <3>3. LangFits(e.row) /\ e.row.base = FALSE
      <4>1. \A i \in DOMAIN items : LangFits(items[i])
        BY DEF IInv, ItemsFit
      <4>2. ASSUME NEW i \in DOMAIN items
            PROVE  LangFits(Copy(i)) /\ Copy(i).base = FALSE
        BY <4>1, ExportedRows DEF LangFits
      <4>3. e.id \in DOMAIN items /\ e.row = Copy(e.id)
        BY <2>5
      <4> QED BY <4>2, <4>3, Zenon
    <3> QED BY <3>2, <3>3
  <2>9. file'.failed \in BOOLEAN
    BY <1>3, ExportedRows
  <2> QED BY <2>2, <2>3, <2>4, <2>6, <2>7, <2>8, <2>9 DEF FileFits
<1> QED BY <1>1, <1>2, <1>3 DEF IInv, JobsHaveReceipts, EditsAreStored, EditFits

\* What an import makes of transactions and items.
LEMMA ImportedRows ==
    ASSUME IInv, Import
    PROVE  /\ UNCHANGED <<job, premium, file, edit, refused, read>> /\ edit = None
           /\ DOMAIN tx' = DOMAIN tx \cup {e.id : e \in file.tx}
           /\ tx' = [t \in DOMAIN tx' |-> tx'[t]]
           /\ \A e \in file.tx :
                tx'[e.id] = [receipt |-> e.id \in DOMAIN tx /\ tx[e.id].receipt, date |-> e.date]
           /\ \A t \in DOMAIN tx \ {e.id : e \in file.tx} : tx'[t] = tx[t]
           /\ DOMAIN items' = (DOMAIN items \ Replaced) \cup {e.id : e \in file.items}
           /\ items' = [i \in DOMAIN items' |-> items'[i]]
           /\ \A e \in file.items : items'[e.id] = [e.row EXCEPT !.name = Named(@, Imported)]
           /\ \A i \in DOMAIN items' \ {e.id : e \in file.items} : items'[i] = items[i]
<1>1. /\ tx' = [t \in DOMAIN tx \cup {e.id : e \in file.tx} |->
                  IF t \in {e.id : e \in file.tx}
                  THEN [receipt |-> t \in DOMAIN tx /\ tx[t].receipt,
                        date |-> (CHOOSE e \in file.tx : e.id = t).date]
                  ELSE tx[t]]
      /\ items' = [i \in (DOMAIN items \ Replaced) \cup {e.id : e \in file.items} |->
                    IF i \in {e.id : e \in file.items}
                    THEN [(CHOOSE e \in file.items : e.id = i).row EXCEPT !.name = Named(@, Imported)]
                    ELSE items[i]]
      /\ UNCHANGED <<job, premium, file, edit, refused, read>> /\ edit = None
  BY DEF Import, Free
<1>2. \A e \in file.tx : (CHOOSE f \in file.tx : f.id = e.id) = e
  BY DEF IInv, FileFits
<1>3. \A e \in file.items : (CHOOSE f \in file.items : f.id = e.id) = e
  BY DEF IInv, FileFits
<1>4. /\ DOMAIN tx' = DOMAIN tx \cup {e.id : e \in file.tx}
      /\ tx' = [t \in DOMAIN tx' |-> tx'[t]]
      /\ \A t \in DOMAIN tx \ {e.id : e \in file.tx} : tx'[t] = tx[t]
  BY <1>1
<1>5. ASSUME NEW e \in file.tx
      PROVE  tx'[e.id] = [receipt |-> e.id \in DOMAIN tx /\ tx[e.id].receipt, date |-> e.date]
  <2>1. e.id \in {f.id : f \in file.tx}
    OBVIOUS
  <2> QED BY <1>1, <1>2, <2>1
<1>6. /\ DOMAIN items' = (DOMAIN items \ Replaced) \cup {e.id : e \in file.items}
      /\ items' = [i \in DOMAIN items' |-> items'[i]]
      /\ \A i \in DOMAIN items' \ {e.id : e \in file.items} : items'[i] = items[i]
  BY <1>1
<1>7. ASSUME NEW e \in file.items PROVE items'[e.id] = [e.row EXCEPT !.name = Named(@, Imported)]
  <2>1. e.id \in {f.id : f \in file.items}
    OBVIOUS
  <2> QED BY <1>1, <1>3, <2>1
<1> QED BY <1>1, <1>4, <1>5, <1>6, <1>7

\* A row of the file as it is stored.
LEMMA ImportedRow ==
    ASSUME Assumptions, IInv, NEW e \in file.items,
           NEW row, row = [e.row EXCEPT !.name = Named(@, Imported)]
    PROVE  /\ row \in Item /\ row.tx = e.row.tx /\ row.line = e.row.line
           /\ row.lang = e.row.lang /\ row.name = Named(e.row.name, Imported)
           /\ LangFits(row) /\ row.base = FALSE
<1>1. e.row \in Item /\ LangFits(e.row) /\ e.row.base = FALSE
  BY DEF IInv, FileFits
<1>2. e.row.name \in Names
  BY <1>1 DEF Item
<1> DEFINE name == Named(e.row.name, Imported)
<1>3. name \in Names /\ (name = e.row.name \/ (e.row.name = Empty /\ name = Imported))
  BY <1>2, NamedIsName
<1>4. row = [e.row EXCEPT !.name = name]
  BY <1>1 DEF Item
<1> HIDE DEF name
<1>5. /\ row \in Item /\ row.tx = e.row.tx /\ row.line = e.row.line
      /\ row.lang = e.row.lang /\ row.name = name /\ row.base = e.row.base
  BY <1>1, <1>3, <1>4 DEF Item
<1>6. LangFits(row)
  BY <1>1, <1>3, <1>5 DEF LangFits
<1> QED BY <1>1, <1>5, <1>6 DEF name

\* POST /data/import.
LEMMA ImportKept ==
    ASSUME Assumptions, IInv, Import
    PROVE  IInv'
<1> DEFINE ids == {e.id : e \in file.tx}
           new == {e.id : e \in file.items}
<1>1. \A i \in DOMAIN items \ Replaced : items[i].tx \in DOMAIN tx \ ids
  BY DEF Replaced, IInv, ItemsFit
<1>2. ids \subseteq Tx /\ new \subseteq Items
  BY DEF IInv, FileFits
<1>3. \A t \in DOMAIN tx' : tx'[t] \in Row
  <2> SUFFICES ASSUME NEW t \in DOMAIN tx' PROVE tx'[t] \in Row
    OBVIOUS
  <2>1. CASE t \in ids
    <3>1. PICK e \in file.tx : t = e.id
      BY <2>1
    <3>2. e.date \in Dates
      BY DEF IInv, FileFits
    <3> DEFINE receipt == e.id \in DOMAIN tx /\ tx[e.id].receipt
    <3>3. tx'[t] = [receipt |-> receipt, date |-> e.date] /\ receipt \in BOOLEAN
      BY <3>1, ImportedRows DEF IInv, Row
    <3> HIDE DEF receipt
    <3> QED BY <3>2, <3>3 DEF Row
  <2>2. CASE t \notin ids
    BY <2>2, ImportedRows DEF IInv
  <2> QED BY <2>1, <2>2
<1>4. DOMAIN tx' \subseteq Tx /\ tx' \in [DOMAIN tx' -> Row]
  BY <1>2, <1>3, ImportedRows DEF IInv
<1>5. \A t \in DOMAIN tx : tx[t].receipt => t \in DOMAIN tx' /\ tx'[t].receipt
  <2> SUFFICES ASSUME NEW t \in DOMAIN tx, tx[t].receipt PROVE t \in DOMAIN tx' /\ tx'[t].receipt
    OBVIOUS
  <2>1. CASE t \in ids
    <3>1. PICK e \in file.tx : t = e.id
      BY <2>1
    <3> DEFINE receipt == e.id \in DOMAIN tx /\ tx[e.id].receipt
    <3>2. tx'[t] = [receipt |-> receipt, date |-> e.date] /\ receipt
      BY <3>1, ImportedRows
    <3> HIDE DEF receipt
    <3>3. tx'[t].receipt
      BY <3>2
    <3> QED BY <3>3, ImportedRows
  <2>2. CASE t \notin ids
    BY <2>2, ImportedRows
  <2> QED BY <2>1, <2>2
<1>6. JobsHaveReceipts' /\ EditsAreStored' /\ EditFits'
  <2>1. JobsHaveReceipts'
    BY <1>5, ImportedRows DEF IInv, JobsHaveReceipts
  <2>2. EditsAreStored'
    BY <1>5, ImportedRows DEF IInv, EditsAreStored
  <2>3. EditFits'
    BY ImportedRows DEF EditFits
  <2> QED BY <2>1, <2>2, <2>3
<1>7. ASSUME NEW i \in DOMAIN items'
      PROVE  \/ \E e \in file.items : i = e.id /\ items'[i] = [e.row EXCEPT !.name = Named(@, Imported)]
             \/ i \in DOMAIN items \ Replaced /\ items'[i] = items[i] /\ i \notin new
  <2>1. CASE i \in new
    <3>1. PICK e \in file.items : i = e.id
      BY <2>1
    <3>2. items'[e.id] = [e.row EXCEPT !.name = Named(@, Imported)]
      BY ImportedRows
    <3> QED BY <3>1, <3>2
  <2>2. CASE i \notin new
    BY <2>2, ImportedRows
  <2> QED BY <2>1, <2>2
<1>8. ASSUME NEW i \in DOMAIN items'
      PROVE  /\ items'[i] \in Item /\ items'[i].tx \in DOMAIN tx'
             /\ LangFits(items'[i])
             /\ items'[i].base => /\ i \in DOMAIN read /\ read[i] \in Names
                                  /\ items'[i].raw = read[i]
  <2>1. ASSUME NEW e \in file.items, i = e.id, items'[i] = [e.row EXCEPT !.name = Named(@, Imported)]
        PROVE  /\ items'[i] \in Item /\ items'[i].tx \in DOMAIN tx'
               /\ LangFits(items'[i]) /\ ~items'[i].base
    <3>1. e.row.tx \in ids
      BY DEF IInv, FileFits
    <3>2. /\ items'[i] \in Item /\ items'[i].tx = e.row.tx
          /\ LangFits(items'[i]) /\ items'[i].base = FALSE
      BY <2>1, ImportedRow
    <3> QED BY <3>1, <3>2, ImportedRows
  <2>2. CASE i \in DOMAIN items \ Replaced /\ items'[i] = items[i]
    BY <1>1, <2>2, ImportedRows DEF IInv, ItemsFit
  <2> QED BY <1>7, <2>1, <2>2
<1>9. ASSUME NEW i \in DOMAIN items', NEW j \in DOMAIN items',
             items'[i].tx = items'[j].tx, items'[i].line = items'[j].line
      PROVE  i = j
  <2>1. \A e \in file.items : e.row.tx \in ids
    BY DEF IInv, FileFits
  <2>2. ASSUME NEW e \in file.items, NEW f \in file.items, i = e.id, j = f.id,
               items'[i] = [e.row EXCEPT !.name = Named(@, Imported)],
               items'[j] = [f.row EXCEPT !.name = Named(@, Imported)]
        PROVE  i = j
    <3>1. items'[i].tx = e.row.tx /\ items'[i].line = e.row.line
      BY <2>2, ImportedRow
    <3>2. items'[j].tx = f.row.tx /\ items'[j].line = f.row.line
      BY <2>2, ImportedRow
    <3> QED BY <1>9, <2>2, <3>1, <3>2 DEF IInv, FileFits
  <2>4. ASSUME NEW e \in file.items, NEW k \in DOMAIN items',
               items'[k] = [e.row EXCEPT !.name = Named(@, Imported)]
        PROVE  items'[k].tx \in ids
    BY <2>1, <2>4, ImportedRow
  <2>3. CASE /\ i \in DOMAIN items \ Replaced /\ items'[i] = items[i]
             /\ j \in DOMAIN items \ Replaced /\ items'[j] = items[j]
    BY <1>9, <2>3 DEF IInv, ItemsFit
  <2> QED BY <1>1, <1>7, <1>9, <2>2, <2>3, <2>4
<1>10. ItemsFit(items', read, DOMAIN tx')
  <2>1. DOMAIN items' \subseteq Items
    BY <1>2, ImportedRows DEF IInv, ItemsFit
  <2>2. items' = [i \in DOMAIN items' |-> items'[i]]
    BY ImportedRows
  <2> QED BY <1>8, <1>9, <2>1, <2>2 DEF ItemsFit
<1> QED BY <1>4, <1>6, <1>10, ImportedRows DEF IInv, FileFits

\* The file that was just exported holds what there is, so that its rows go
\* where they came from.
LEMMA ImportOfExported ==
    ASSUME Assumptions, IInv, Import, file = Exported
    PROVE  /\ tx' = tx /\ DOMAIN items' = DOMAIN items
           /\ \A i \in DOMAIN items :
                /\ items'[i].name \in {items[i].name, Named(items[i].name, Imported)}
                /\ \A column \in {"tx", "line", "lang"} : items'[i][column] = items[i][column]
<1> DEFINE ids == {e.id : e \in file.tx}
           new == {e.id : e \in file.items}
<1>1. ids = Selected
  BY ExportedRows
<1>2. new = {i \in DOMAIN items : items[i].tx \in Selected}
  BY ExportedRows
<1>3. Replaced = new
  BY <1>1, <1>2 DEF Replaced
<1>4. tx' = tx
  <2>1. DOMAIN tx' = DOMAIN tx
    BY <1>1, ImportedRows DEF Selected
  <2>2. \A t \in DOMAIN tx : tx'[t] = tx[t]
    <3> SUFFICES ASSUME NEW t \in DOMAIN tx PROVE tx'[t] = tx[t]
      OBVIOUS
    <3>1. CASE t \in Selected
      <4> DEFINE e == [id |-> t, date |-> tx[t].date]
      <4>1. e \in file.tx /\ e.id = t /\ e.date = tx[t].date
        BY <3>1, ExportedRows
      <4> HIDE DEF e
      <4>2. tx'[t] = [receipt |-> t \in DOMAIN tx /\ tx[t].receipt, date |-> tx[t].date]
        <5>1. tx'[e.id] = [receipt |-> e.id \in DOMAIN tx /\ tx[e.id].receipt, date |-> e.date]
          BY <4>1, ImportedRows
        <5> QED BY <4>1, <5>1
      <4>3. tx[t] \in Row
        BY DEF IInv
      <4> QED BY <4>2, <4>3 DEF Row
    <3>2. CASE t \notin Selected
      BY <1>1, <3>2, ImportedRows
    <3> QED BY <3>1, <3>2
  <2> QED BY <2>1, <2>2, ImportedRows DEF IInv
<1>5. DOMAIN items' = DOMAIN items
  BY <1>2, <1>3, ImportedRows
<1>6. ASSUME NEW i \in DOMAIN items
      PROVE  /\ items'[i].tx = items[i].tx /\ items'[i].line = items[i].line
             /\ items'[i].lang = items[i].lang
             /\ items'[i].name \in {items[i].name, Named(items[i].name, Imported)}
  <2>1. CASE i \in new
    <3>1. PICK e \in file.items : i = e.id
      BY <2>1
    <3>2. e.row = Copy(i)
      BY <3>1, ExportedRows
    <3>3. items'[i] = [e.row EXCEPT !.name = Named(@, Imported)]
      BY <3>1, ImportedRows
    <3>4. /\ items'[i].tx = e.row.tx /\ items'[i].line = e.row.line
          /\ items'[i].lang = e.row.lang /\ items'[i].name = Named(e.row.name, Imported)
      BY <3>3, ImportedRow
    <3> QED BY <3>2, <3>4, ExportedRows
  <2>2. CASE i \notin new
    BY <1>5, <2>2, ImportedRows
  <2> QED BY <2>1, <2>2
<1> QED BY <1>4, <1>5, <1>6

-----------------------------------------------------------------------------
(* The theorems.                                                           *)

\* Nothing is there at first.
LEMMA InitHolds == Init => IInv
  BY DEF Init, NoFile, IInv, ItemsFit, FileFits, JobsHaveReceipts, EditFits, EditsAreStored

\* One case for each action.
LEMMA NextKept == ASSUME Assumptions, IInv, [Next]_vars PROVE IInv'
<1>1. CASE UNCHANGED vars
  BY <1>1 DEF vars, IInv, FileFits, JobsHaveReceipts, EditFits, EditsAreStored, ItemsOf, Lines
<1>2. CASE Next
  BY <1>2, BookReceiptKept, BookItemsKept, CreateTransactionKept, ReadForUpdateKept,
     CommitUpdateKept, AbandonUpdateKept, DeleteTransactionKept, DeleteItemKept, ExportKept, ImportKept DEF Next
<1> QED BY <1>1, <1>2

\* The invariant holds, on which the theorems below rest.
THEOREM InductiveInvariant == ASSUME Assumptions PROVE Spec => []IInv
<1>1. IInv /\ [Next]_vars => IInv'
  BY NextKept
<1> QED BY InitHolds, <1>1, PTL DEF Spec

\* Transactions, items and files keep their types; a transaction has each line
\* number once, and its items go with it.
THEOREM TransactionTypes == ASSUME Assumptions PROVE Spec => []TypeOK
<1>1. IInv => TypeOK
  BY InvariantSuffices
<1> QED BY <1>1, InductiveInvariant, PTL

\* A save is refused for a line number once at most, for a receipt's transaction
\* whose items the worker has committed since it was read.
THEOREM EditsTheorem == ASSUME Assumptions PROVE Spec => []EditsAreStored
<1>1. IInv => EditsAreStored
  BY InvariantSuffices
<1> QED BY <1>1, InductiveInvariant, PTL

\* After any edits and imports an item is shown with a translation of the name
\* it has, or of one that is blank or that a default replaced, or with none.
THEOREM TranslationTheorem == ASSUME Assumptions PROVE Spec => []TranslationFitsName
<1>1. IInv => TranslationFitsName
  BY InvariantSuffices
<1> QED BY <1>1, InductiveInvariant, PTL

\* An export that is imported at once changes no transaction and no column of an
\* item that it holds, but an empty description.
THEOREM ImportTheorem == ASSUME Assumptions PROVE Spec => ImportRestores
<1> DEFINE Restored == Import /\ file = Exported =>
        /\ tx' = tx /\ DOMAIN items' = DOMAIN items
        /\ \A i \in DOMAIN items :
            /\ items'[i].name \in {items[i].name, Named(items[i].name, Imported)}
            /\ \A column \in {"tx", "line", "lang"} : items'[i][column] = items[i][column]
<1>1. IInv /\ [Next]_vars => [Restored]_vars
  BY ImportOfExported
<1> QED BY <1>1, InductiveInvariant, PTL DEF Spec, ImportRestores
=============================================================================
