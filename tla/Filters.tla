-------------------------------- MODULE Filters --------------------------------
(***************************************************************************)
(* The request filters of the graphical client.  A filter may pass what it *)
(* matches to another one: both are linked to each other, so that filters  *)
(* form chains.  The filter dialog edits copies that are linked again by   *)
(* name; when it is left with OK they replace the filters and are written  *)
(* to a file, beside the program or, if that fails, among the user's       *)
(* settings.  At the next start the user's file is read if there is one.   *)
(***************************************************************************)
EXTENDS Integers, Sequences, FiniteSets, SequencesExt, Functions

CONSTANTS
  Names,     \* of filters
  SectionOf, \* name -> its section in the file, where case does not matter
  TypeOf,    \* name -> the request type of a filter that is made with it
  AnyType,   \* ertUndefined
  Nil,       \* no filter, no list
  MaxEdits   \* operations of the user

VARIABLES
  main,   \* FFilters of the main form
  dialog, \* FFilterList of the dialog, while it is open
  beside, \* filters.ini in the program's directory
  own,    \* filters.ini among the user's settings
  edits,
  known   \* history: what OK saved, whether the file is the one to be read,
          \* whether the dialog has changed its copies

vars == <<main, dialog, beside, own, edits, known>>

Actions == {"include", "pass"}  \* the other two are like the first

NewFilter(type) ==
  [type |-> type, action |-> "include", ephemeral |-> FALSE, next |-> Nil, prev |-> Nil]

\* A TObjectList of filters: their order, and each by its name.
Empty == [order |-> <<>>, f |-> <<>>]
Has(l, n) == n \in DOMAIN l.f
Put(l, n, filter, at) ==
  [order |-> InsertAt(l.order, at, n),
   f |-> [m \in DOMAIN l.f \cup {n} |-> IF m = n THEN filter ELSE l.f[m]]]
AddLast(l, n, filter) == Put(l, n, filter, Len(l.order) + 1)

Init ==
  /\ main = Empty /\ dialog = Nil
  /\ beside = Nil /\ own = Nil
  /\ edits = 0
  /\ known = [saved |-> Nil, sure |-> TRUE, touched |-> FALSE]

-----------------------------------------------------------------------------
(* Chains.                                                                  *)

\* The field of one filter, of Nil nothing.
Set(l, n, field, value) ==
  IF n = Nil THEN l
  ELSE [l EXCEPT !.f = [m \in DOMAIN l.f |->
                          IF m = n THEN [l.f[m] EXCEPT ![field] = value] ELSE l.f[m]]]

Compatible(l, a, b) == l.f[a].type \in {AnyType, l.f[b].type}


UnlinkPrev(l, n) == Set(Set(l, l.f[n].prev, "next", Nil), n, "prev", Nil)

UnlinkNext(l, n) == Set(Set(l, l.f[n].next, "prev", Nil), n, "next", Nil)

\* What AddNext does when the types are compatible.
AddNext(l, a, b) ==
  LET free == UnlinkNext(UnlinkPrev(l, b), a)
  IN Set(Set(Set(free, a, "action", "pass"), b, "prev", a), a, "next", b)

RemoveFromChain(l, n) ==
  LET prev == l.f[n].prev
      next == l.f[n].next
      before == Set(l, prev, "next", next)
      alone == IF next = Nil THEN Set(before, prev, "action", "include") ELSE before
      after == Set(alone, next, "prev", prev)
  IN Set(Set(after, n, "next", Nil), n, "prev", Nil)

Without(l, n) ==
  LET left == RemoveFromChain(l, n)
  IN [order |-> Remove(l.order, n), f |-> Restrict(left.f, DOMAIN l.f \ {n})]

SetAction(l, n, action) ==
  Set(IF l.f[n].action = "pass" /\ action # "pass" THEN UnlinkNext(l, n) ELSE l,
      n, "action", action)

\* The other filters of a chain; FEphemeral of the filter itself is not set.
Reached(l, n, field) ==
  FoldLeft(LAMBDA s, i : s \cup ({l.f[m][field] : m \in s} \ {Nil}), {n}, l.order) \ {n}
SetEphemeral(l, n, value) ==
  LET others == Reached(l, n, "prev") \cup Reached(l, n, "next")
  IN [l EXCEPT !.f = [m \in DOMAIN l.f |->
                        IF m \in others THEN [l.f[m] EXCEPT !.ephemeral = value]
                        ELSE l.f[m]]]

\* What the constructor of the dialog makes of the filters.
Copies(l) ==
  LET bare == [l EXCEPT !.f = [n \in DOMAIN l.f |->
                                 [l.f[n] EXCEPT !.next = Nil, !.prev = Nil]]]
      link(c, n) == IF c.f[n].action = "pass" /\ l.f[n].next # Nil
                       /\ Compatible(c, n, l.f[n].next)
                    THEN AddNext(c, n, l.f[n].next) ELSE c
  IN FoldLeft(link, bare, l.order)

-----------------------------------------------------------------------------
(* Files: sequences of sections.                                            *)

\* Save: a section that exists is written over, but keeps a Next of before.
Save(file, l, n) ==
  LET old == {i \in DOMAIN file : SectionOf[file[i].name] = SectionOf[n]}
      new == [name |-> n, type |-> l.f[n].type, action |-> l.f[n].action,
              next |-> l.f[n].next]
  IN IF old = {} THEN Append(file, new)
     ELSE [i \in DOMAIN file |->
             IF i \in old
             THEN [new EXCEPT !.name = file[i].name,
                              !.next = IF @ = Nil THEN file[i].next ELSE @]
             ELSE file[i]]

Persistent(l) == SelectSeq(l.order, LAMBDA n : ~l.f[n].ephemeral)

\* SaveList, which fails after the first k filters, or writes all of them.
SaveList(l, k) == FoldLeft(LAMBDA file, n : Save(file, l, n), <<>>, SubSeq(Persistent(l), 1, k))

\* LoadList, into an empty list.
LoadList(file) ==
  LET load(l, s) == IF Has(l, s.name) THEN l
                    ELSE AddLast(l, s.name, [NewFilter(s.type) EXCEPT !.action = s.action])
      link(l, s) == IF s.next # Nil /\ Has(l, s.next) /\ l.f[s.name].action = "pass"
                       /\ Compatible(l, s.name, s.next)
                    THEN AddNext(l, s.name, s.next) ELSE l
  IN FoldLeft(link, FoldLeft(load, Empty, file), file)

\* What FormCreate reads: the user's file if it exists.
NextStart == IF own # Nil THEN LoadList(own)
             ELSE IF beside # Nil THEN LoadList(beside) ELSE Empty

-----------------------------------------------------------------------------
(* The user.                                                                *)

Edit == edits < MaxEdits /\ edits' = edits + 1
Change(l) ==
  /\ Edit /\ dialog # Nil
  /\ dialog' = l
  /\ known' = [known EXCEPT !.touched = TRUE]
  /\ UNCHANGED <<main, beside, own>>

\* The program is started again.
Restart ==
  /\ Edit /\ dialog = Nil
  /\ main' = NextStart
  /\ UNCHANGED <<dialog, beside, own, known>>

\* PopupFilterClick, for one that is inserted at the front or added at the end.
PopupFilter(n, at) ==
  /\ Edit /\ dialog = Nil /\ ~Has(main, n)
  /\ main' = Put(main, n, NewFilter(TypeOf[n]), at)
  /\ UNCHANGED <<dialog, beside, own, known>>

OpenDialog ==
  /\ Edit /\ dialog = Nil
  /\ dialog' = Copies(main)
  /\ known' = [known EXCEPT !.touched = FALSE]
  /\ UNCHANGED <<main, beside, own>>

\* The rest of AddButtonClick, once the filter is in the list.
Configure(l, n, action, target, ephemeral) ==
  LET acted == SetAction(l, n, action)
  IN SetEphemeral(IF action = "pass" THEN AddNext(acted, n, target) ELSE acted, n, ephemeral)

\* AddButtonClick.  A filter that cannot be linked is not added.
AddFilter(n, action, target, ephemeral) ==
  /\ dialog # Nil /\ ~Has(dialog, n)
  /\ LET l == AddLast(dialog, n, NewFilter(TypeOf[n]))
     IN /\ action = "pass" => Has(dialog, target) /\ Compatible(l, n, target)
        /\ Change(Configure(l, n, action, target, ephemeral))

\* ApplyButton.  When the link fails the action has been set already.
ApplyFilter(n, action, target, ephemeral) ==
  /\ dialog # Nil /\ Has(dialog, n)
  /\ action = "pass" => Has(dialog, target)
  /\ Change(IF action = "pass" /\ ~Compatible(dialog, n, target)
            THEN SetAction(dialog, n, action)
            ELSE Configure(dialog, n, action, target, ephemeral))

DeleteFilter(n) == dialog # Nil /\ Has(dialog, n) /\ Change(Without(dialog, n))

\* UpDownButtonClick
Exchange(i) ==
  /\ dialog # Nil /\ i < Len(dialog.order)
  /\ Change([dialog EXCEPT !.order = [@ EXCEPT ![i] = dialog.order[i + 1],
                                               ![i + 1] = dialog.order[i]]])

Cancel ==
  /\ dialog # Nil /\ dialog' = Nil
  /\ UNCHANGED <<main, beside, own, edits, known>>

\* FiltersMenuItemClick after OK: the file beside the program, all of it or
\* only k filters; then the user's.
Ok(k, m) ==
  LET all == Len(Persistent(dialog))
  IN /\ dialog # Nil
     /\ k \in 0..all /\ m \in 0..all /\ (k = all => m = 0)
     /\ main' = dialog /\ dialog' = Nil
     /\ beside' = SaveList(dialog, k)
     /\ own' = IF k = all THEN own ELSE SaveList(dialog, m)
     /\ known' = [known EXCEPT !.saved = dialog,
                    !.sure = IF k = all THEN own = Nil ELSE m = all]
     /\ UNCHANGED edits

Next ==
  \/ Restart \/ OpenDialog \/ Cancel
  \/ \E n \in Names :
       \/ PopupFilter(n, 1) \/ PopupFilter(n, Len(main.order) + 1)
       \/ DeleteFilter(n)
       \/ \E action \in Actions, target \in Names, ephemeral \in BOOLEAN :
            \/ AddFilter(n, action, target, ephemeral)
            \/ ApplyFilter(n, action, target, ephemeral)
  \/ \E i \in 1..Cardinality(Names) : Exchange(i)
  \/ \E k, m \in 0..Cardinality(Names) : Ok(k, m)

Spec == Init /\ [][Next]_vars

-----------------------------------------------------------------------------
(* What must hold.                                                          *)

Chained(l) ==
  /\ ToSet(l.order) = DOMAIN l.f /\ IsInjective(l.order)
  /\ \A n \in DOMAIN l.f :
       /\ l.f[n].next # Nil =>
            /\ Has(l, l.f[n].next) /\ l.f[l.f[n].next].prev = n
            /\ l.f[n].action = "pass" /\ Compatible(l, n, l.f[n].next)
       /\ l.f[n].prev # Nil => Has(l, l.f[n].prev) /\ l.f[l.f[n].prev].next = n

\* Links lead both ways, to filters that are in the same list, from filters
\* that pass to ones that their type lets them pass to (RequestFilter.pas,
\* AddNext, RemoveFromChain, SetAction, LoadList; FillterForm.pas).
LinksSound == Chained(main) /\ (dialog # Nil => Chained(dialog))

\* The dialog opens with the filters as they are (TFilterFrm.Create).
CopiesSound == dialog # Nil /\ ~known.touched => dialog = main

\* What is left of a list without its ephemeral filters.
Lasting(l) ==
  LET stays == ToSet(Persistent(l))
      kept(n) == IF n \in stays THEN n ELSE Nil
  IN [order |-> Persistent(l),
      f |-> [n \in stays |-> [l.f[n] EXCEPT !.next = kept(@), !.prev = kept(@)]]]

Distinct(l) == \A m, n \in DOMAIN l.f : m # n => SectionOf[m] # SectionOf[n]

\* The next start finds the filters that OK saved last, in their order and
\* with their links, unless no file could be written, or an older file of the
\* user hides the one beside the program, or two names differ only in case
\* (SaveList, LoadList, FiltersMenuItemClick, FormCreate).
FiltersSaved ==
  known.saved # Nil /\ known.sure /\ Distinct(known.saved) => NextStart = Lasting(known.saved)

FiltersSound == LinksSound /\ CopiesSound /\ FiltersSaved
=============================================================================
