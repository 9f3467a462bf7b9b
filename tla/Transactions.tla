------------------------------ MODULE Transactions ------------------------------
(***************************************************************************)
(* A user's transactions with their items: what the user creates, edits    *)
(* and deletes (backend/app/api/routers/transactions_crud.py), what the    *)
(* worker books for a receipt in two commits, and export and import        *)
(* (backend/app/api/routers/data.py).                                      *)
(*                                                                         *)
(* No handler of these routes awaits anything after its first read, so the *)
(* requests of the API process follow one another.  The worker is another  *)
(* process: the user can edit a transaction before its items are there,    *)
(* and the worker can commit them between an edit's reads and its commit.  *)
(* Names are taken up to case and the length of their spaces.              *)
(***************************************************************************)
EXTENDS FiniteSets, Naturals

CONSTANTS
    Tx,        \* ids of transactions
    Items,     \* ids of items
    Names,     \* descriptions of an item
    Empty,     \* the description without a character
    Blanks,    \* descriptions without a letter: Empty, or spaces only
    NewItem,   \* the descriptions that stand in for an empty one: of an item
    Imported,  \* that is added, and of one that is imported
    MaxLines,  \* how many items the worker reads from a receipt
    MaxLineNo, \* bound on line numbers, which grow as items are replaced
    None

\* What is taken of the constants; the instance for TLC assumes it.
NoneAssumption == None \notin Names
NamesAssumption == Empty \in Blanks /\ Blanks \subseteq Names /\ {NewItem, Imported} \subseteq Names
MaxLinesAssumption == MaxLines \in Nat /\ MaxLineNo \in Nat
ItemsAssumption == IsFiniteSet(Items)

VARIABLES
    tx,        \* transactions, by id
    items,     \* transaction_items, by id
    job,       \* transactions whose items the worker has yet to commit
    premium,   \* the user has premium.exports
    file,      \* what an export answered last
    edit,      \* what update_transaction has read: a transaction, its items,
               \* and their highest line number
    refused,   \* history: how many saves of each transaction met the unique
               \* constraint on line numbers
    read       \* history: the name of each item that the worker read

vars == <<tx, items, job, premium, file, edit, refused, read>>

-----------------------------------------------------------------------------
\* occurred_at: not known, older than 30 days, or later.
Dates == {"unknown", "old", "recent"}
Row == [receipt : BOOLEAN, date : Dates]

\* An item: its transaction and line_no; its description, and the one that came
\* with description_lang (None: the language is null); raw_name, and whether the
\* worker's translatable_name is there.
Item == [tx : Tx, line : Nat \ {0}, name : Names, lang : Names \cup {None},
         raw : Names \cup {None}, base : BOOLEAN]

\* A slip: the language of a description is not exported.
CopyWithoutLanguage(i) == [items[i] EXCEPT !.raw = None, !.base = FALSE, !.lang = None]

\* An export carries no raw_name and no translatable_name, and no receipt.
Copy(i) == [items[i] EXCEPT !.raw = None, !.base = FALSE]

Failed == [tx |-> {}, items |-> {}, failed |-> TRUE]
NoFile == [tx |-> {}, items |-> {}, failed |-> FALSE]

TypeOK ==
    /\ DOMAIN tx \subseteq Tx /\ \A t \in DOMAIN tx : tx[t] \in Row
    /\ DOMAIN items \subseteq Items
    /\ \A i \in DOMAIN items : items[i] \in Item /\ items[i].tx \in DOMAIN tx
    /\ \A i, j \in DOMAIN items :
        items[i].tx = items[j].tx /\ items[i].line = items[j].line => i = j
    /\ job \subseteq DOMAIN tx
    /\ premium \in BOOLEAN
    /\ file.failed \in BOOLEAN
    /\ edit # None => edit.tx \in DOMAIN tx /\ edit.seen \subseteq DOMAIN items
    /\ refused \in [Tx -> Nat]
    /\ DOMAIN read \subseteq Items

Init ==
    /\ tx = [t \in {} |-> None] /\ items = [i \in {} |-> None]
    /\ job = {}
    /\ premium \in BOOLEAN
    /\ file = NoFile
    /\ edit = None
    /\ refused = [t \in Tx |-> 0]
    /\ read = [i \in {} |-> None]

-----------------------------------------------------------------------------
(* Helpers.                                                                *)

ItemsOf(t) == {i \in DOMAIN items : items[i].tx = t}
Lines(t) == {items[i].line : i \in ItemsOf(t)}
LastLine(t) == IF Lines(t) = {} THEN 0 ELSE CHOOSE n \in Lines(t) : \A m \in Lines(t) : m <= n

FreshTx == Tx \ (DOMAIN tx \cup {e.id : e \in file.tx})
FreshItems == Items \ (DOMAIN items \cup DOMAIN read \cup {e.id : e \in file.items})

\* Sets of up to "most" items that are new; which ids they get is of no account.
NewItems(most) ==
    {CHOOSE s \in SUBSET FreshItems : Cardinality(s) = n :
        n \in {k \in 0..most : k <= Cardinality(FreshItems)}}

\* The items of f replace those with the same ids.
Put(f) == [i \in DOMAIN items \cup DOMAIN f |-> IF i \in DOMAIN f THEN f[i] ELSE items[i]]
Drop(f, s) == [i \in DOMAIN f \ s |-> f[i]]

\* A description, with "default" in place of an empty one.
Named(name, default) == IF name = Empty THEN default ELSE name

\* Items of t as the user enters them, numbered from "first" on.
Orders(new, first) ==
    {o \in [new -> first..(first + Cardinality(new) - 1)] : \A i, j \in new : o[i] = o[j] => i = j}
Entered(new, t, first, names) ==
    {[i \in new |->
        [tx |-> t, line |-> order[i], name |-> Named(given[i], NewItem),
         lang |-> IF i \in known THEN given[i] ELSE None, raw |-> None, base |-> FALSE]] :
        order \in Orders(new, first), given \in [new -> names], known \in SUBSET new}

\* Items of t as the worker reads them: with the numbers on the receipt, in its
\* language if it is known, and with a translatable name for some.
Extracted(new, t, known) ==
    {[i \in new |->
        [tx |-> t, line |-> line[i], name |-> name[i], raw |-> name[i],
         lang |-> IF i \in known THEN name[i] ELSE None, base |-> normalized[i]]] :
        line \in [new -> 1..MaxLineNo], name \in [new -> Names \ {Empty}],
        normalized \in [new -> BOOLEAN]}

\* A slip: the language stays when the name changes.
EditedKeepsLanguage(i) ==
    {[items[i] EXCEPT !.name = n, !.lang = l] : n \in Names, l \in {items[i].lang, None}}
    \cup {[items[i] EXCEPT !.name = n, !.lang = n] : n \in Names}

\* An item as the user leaves it: a new name without a language clears it, a
\* language can be given to any name or taken away.
Edited(i) ==
    {[items[i] EXCEPT !.name = n, !.lang = None] : n \in Names}
    \cup {[items[i] EXCEPT !.name = n, !.lang = n] : n \in Names} \cup {items[i]}

\* The items that give way to those of the file.
Replaced == {i \in DOMAIN items : \E e \in file.tx : e.id = items[i].tx}

\* A slip: numbers are given anew after the items that stay.
NextAfterKept(kept) ==
    LET lines == {items[i].line : i \in kept} IN
    IF lines = {} THEN 1 ELSE 1 + CHOOSE n \in lines : \A m \in lines : m <= n

\* The number that update_transaction gives to the first new item.
NextLine(kept) == edit.last + 1

\* No request is in the middle of its work.
Free == edit = None

-----------------------------------------------------------------------------
(* The worker.                                                             *)

BookReceipt(t, date) ==
    /\ t \in FreshTx
    /\ tx' = [x \in DOMAIN tx \cup {t} |->
                IF x = t THEN [receipt |-> TRUE, date |-> date] ELSE tx[x]]
    /\ job' = job \cup {t}
    /\ UNCHANGED <<items, premium, file, edit, refused, read>>

\* Lines that the user has taken, or that the receipt has twice, make the commit
\* fail; the retry finds the transaction, and takes the receipt for done.
BookItems(t) ==
    /\ t \in job
    /\ job' = job \ {t}
    /\ \E new \in NewItems(MaxLines) : \E known \in {{}, new} : \E f \in Extracted(new, t, known) :
        IF /\ \A i \in new : f[i].line \notin Lines(t)
           /\ \A i, j \in new : f[i].line = f[j].line => i = j
        THEN /\ items' = Put(f)
             /\ read' = [i \in DOMAIN read \cup new |-> IF i \in new THEN f[i].name ELSE read[i]]
        ELSE UNCHANGED <<items, read>>
    /\ UNCHANGED <<tx, premium, file, edit, refused>>

-----------------------------------------------------------------------------
(* Transactions.                                                           *)

CreateTransaction(t, date) ==
    /\ Free
    /\ t \in FreshTx
    /\ tx' = [x \in DOMAIN tx \cup {t} |->
                IF x = t THEN [receipt |-> FALSE, date |-> date] ELSE tx[x]]
    /\ \E new \in NewItems(1) : \E f \in Entered(new, t, 1, Names \ {Empty}) : items' = Put(f)
    /\ UNCHANGED <<job, premium, file, edit, refused, read>>

\* update_transaction reads the items, and later commits.
ReadForUpdate(t) ==
    /\ Free
    /\ t \in DOMAIN tx
    /\ edit' = [tx |-> t, seen |-> ItemsOf(t), last |-> LastLine(t)]
    /\ UNCHANGED <<tx, items, job, premium, file, refused, read>>

\* The payload lists the items that stay, one of them edited, and new ones; the
\* others of those read are deleted.  The ORM inserts before it deletes, so a new
\* item's line must be free of all the items there are.
CommitUpdate ==
    /\ ~Free
    /\ \E kept \in SUBSET edit.seen, new \in NewItems(1) :
        /\ new # {} => NextLine(kept) <= MaxLineNo
        /\ \E f \in Entered(new, edit.tx, NextLine(kept), Names) :
            IF \E i \in new : f[i].line \in Lines(edit.tx)
            THEN refused' = [refused EXCEPT ![edit.tx] = @ + 1] /\ UNCHANGED items
            ELSE /\ UNCHANGED refused
                 /\ \/ items' = Drop(Put(f), edit.seen \ kept)
                    \/ \E e \in kept : \E row \in Edited(e) :
                        items' = Drop([Put(f) EXCEPT ![e] = row], edit.seen \ kept)
    /\ edit' = None
    /\ UNCHANGED <<tx, job, premium, file, read>>

\* The process dies, or the save is refused for another column.
AbandonUpdate ==
    /\ ~Free
    /\ edit' = None
    /\ UNCHANGED <<tx, items, job, premium, file, refused, read>>

\* A receipt's transaction is deleted with its receipt only.
DeleteTransaction(t) ==
    /\ Free
    /\ t \in DOMAIN tx /\ ~tx[t].receipt
    /\ tx' = [x \in DOMAIN tx \ {t} |-> tx[x]]
    /\ items' = Drop(items, ItemsOf(t))
    /\ UNCHANGED <<job, premium, file, edit, refused, read>>

DeleteItem(t, i) ==
    /\ Free
    /\ i \in ItemsOf(t)
    /\ items' = Drop(items, {i})
    /\ UNCHANGED <<tx, job, premium, file, edit, refused, read>>

-----------------------------------------------------------------------------
(* Export and import.                                                      *)

\* The free plan exports 30 days.
Selected == {t \in DOMAIN tx : premium \/ tx[t].date = "recent"}

Exported ==
    [tx |-> {[id |-> t, date |-> tx[t].date] : t \in Selected},
     items |-> {[id |-> i, row |-> Copy(i)] : i \in {j \in DOMAIN items : items[j].tx \in Selected}},
     failed |-> FALSE]

\* The schema of the file wants a date.
Export ==
    /\ Free
    /\ file' = IF \E t \in Selected : tx[t].date = "unknown" THEN Failed ELSE Exported
    /\ UNCHANGED <<tx, items, job, premium, edit, refused, read>>

\* A transaction of the file keeps its receipt if it is still there, and gets
\* the items of the file in place of its own, an empty description replaced.
\* Item ids that another transaction holds do not occur: items never change
\* their transaction.
Import ==
    LET ids == {e.id : e \in file.tx}
        new == {e.id : e \in file.items}
        RowOf(t) == CHOOSE e \in file.tx : e.id = t
        ItemOf(i) == CHOOSE e \in file.items : e.id = i
    IN
    /\ Free
    /\ file.tx # {}
    /\ tx' = [t \in DOMAIN tx \cup ids |->
                IF t \in ids
                THEN [receipt |-> t \in DOMAIN tx /\ tx[t].receipt, date |-> RowOf(t).date]
                ELSE tx[t]]
    /\ items' = [i \in (DOMAIN items \ Replaced) \cup new |->
                    IF i \in new THEN [ItemOf(i).row EXCEPT !.name = Named(@, Imported)]
                    ELSE items[i]]
    /\ UNCHANGED <<job, premium, file, edit, refused, read>>

-----------------------------------------------------------------------------
Next ==
    \/ \E t \in Tx :
        \/ \E d \in Dates : BookReceipt(t, d) \/ CreateTransaction(t, d)
        \/ BookItems(t) \/ ReadForUpdate(t) \/ DeleteTransaction(t)
        \/ \E i \in Items : DeleteItem(t, i)
    \/ CommitUpdate \/ AbandonUpdate
    \/ Export \/ Import

Spec == Init /\ [][Next]_vars

-----------------------------------------------------------------------------
(* What is shown in another language (read_models.py).                     *)

\* _item_description_user_edited: a blank description, or a blank name on the
\* receipt, is none that the user changed.
UserEdited(i) ==
    /\ items[i].raw \notin Blanks \cup {None} /\ items[i].name \notin Blanks
    /\ items[i].name # items[i].raw

\* _preferred_item_translation_source: the worker's translatable name, unless
\* the user has changed the description; else the description, if its language
\* is known.
TranslationSource(i) ==
    IF items[i].base /\ ~UserEdited(i) THEN "translatable_name"
    ELSE IF items[i].lang # None THEN "description" ELSE "none"

-----------------------------------------------------------------------------
(* Properties.                                                             *)

\* A save is refused for its line numbers only when the worker committed the
\* transaction's items in the middle of it: once at most, so that the same save
\* tried again gets through, and never for a transaction entered by hand.  The
\* items that a save replaces, there until the new ones are inserted, never are
\* in its way.
EditsAreStored ==
    \A t \in Tx : refused[t] > 0 => refused[t] = 1 /\ t \in DOMAIN tx \ job /\ tx[t].receipt

\* An item is not shown with the translation of a name it no longer has, after
\* any edits and imports: the worker's only while the name is the one it read,
\* or one of them is blank, and the description's only in the language it was
\* given with, or one given for an empty description that a default replaced.
TranslationFitsName ==
    \A i \in DOMAIN items :
        /\ TranslationSource(i) = "translatable_name" =>
            items[i].name = read[i] \/ {items[i].name, read[i]} \cap Blanks # {}
        /\ TranslationSource(i) = "description" =>
            \/ items[i].lang = items[i].name
            \/ items[i].lang = Empty /\ items[i].name \in {NewItem, Imported}

\* A file that was just exported, whether it holds all transactions or those of
\* 30 days, once imported changes nothing but the names that the worker derived
\* and an empty description, which comes back as the default one.
ImportRestores ==
    [][Import /\ file = Exported =>
        /\ tx' = tx /\ DOMAIN items' = DOMAIN items
        /\ \A i \in DOMAIN items :
            /\ items'[i].name \in {items[i].name, Named(items[i].name, Imported)}
            /\ \A column \in {"tx", "line", "lang"} : items'[i][column] = items[i][column]]_vars

\* The export answers: "Export user's categories and transactions as JSON."
ExportAnswers == ~file.failed

=============================================================================
