------------------------------ MODULE Attributes -------------------------------
(***************************************************************************)
(* What an item has beside its kind and its count: ItemAttributes          *)
(* (Source/ItemAttributes.h and .cpp), with the constructor, the clone and *)
(* the copies of Item (item.cpp).                                          *)
(*                                                                         *)
(* At this commit setIntAttr, setStrAttr and increaseIntAttr change what   *)
(* an item has and never give it what it lacks, so that no item ever has   *)
(* an attribute.  How attributes are saved and loaded is left out for that *)
(* reason: nothing of them is ever written.                                *)
(***************************************************************************)
EXTENDS Integers, Functions

CONSTANTS
  Samples,                 (* item objects                                 *)
  Charged, Timed, Liquid,  (* those of kinds with charges, with a time,    *)
                           (* with a fluid                                 *)
  Numbers                  (* the values an attribute is set to; of a text *)
                           (* 0 stands for the empty one                   *)

IntAttrs == {"actionid", "uniqueid", "duration", "decaying", "charges", "fluidtype"}
StrAttrs == {"desc", "text", "writtenby"}

VARIABLES
  sample,      (* the items: flags, and the values of the list             *)
  kept         (* ghost: what the last call of a setter set is there       *)

attributeVars == <<sample, kept>>

-----------------------------------------------------------------------------
(* ItemAttributes: flags, and values, whose order in the list is of no use. *)

Has(x, t) == t \in x.flags
\* ItemAttributes::getIntAttr, which does not look at the flags.
GetInt(x, t) == IF t \in DOMAIN x.values THEN x.values[t] ELSE 0

\* ItemAttributes::getStrAttr
GetStr(x, t) == IF Has(x, t) THEN GetInt(x, t) ELSE 0

AddAttr(x, t, v) ==
  [x EXCEPT !.values = [u \in DOMAIN x.values \cup {t} |-> IF u = t THEN v ELSE x.values[u]],
            !.flags = x.flags \cup {t}]

\* ItemAttributes::setIntAttr and increaseIntAttr
SetInt(x, t, v) == IF t \in DOMAIN x.values THEN [x EXCEPT !.values[t] = v] ELSE x
Increase(x, t, v) == SetInt(x, t, GetInt(x, t) + v)

\* ItemAttributes::setStrAttr; its way to addAttr is behind the flag that addAttr sets.
SetStr(x, t, v) ==
  IF ~Has(x, t) THEN x
  ELSE IF t \in DOMAIN x.values THEN [x EXCEPT !.values[t] = v] ELSE AddAttr(x, t, v)

\* ItemAttributes::removeAttribute
RemoveAttribute(x, t) ==
  IF Has(x, t)
  THEN [x EXCEPT !.values = Restrict(x.values, DOMAIN x.values \ {t}), !.flags = x.flags \ {t}]
  ELSE x

\* ItemAttributes::setActionId, setUniqueId: never below a least value, here 1.
AtLeastOne(n) == IF n = 0 THEN 1 ELSE n

\* Item::setUniqueId
SetUniqueId(x, n) == IF GetInt(x, "uniqueid") # 0 THEN x ELSE SetInt(x, "uniqueid", AtLeastOne(n))

-----------------------------------------------------------------------------
(* Item: its creation and its copies.                                      *)

\* Item::Item, with the charges, the fluid and the time of its kind, here 1.
CreateSample(i) ==
  LET blank   == [flags |-> {}, values |-> <<>>]
      charged == IF i \in Charged THEN SetInt(blank, "charges", 1) ELSE blank
      filled  == IF i \in Liquid THEN SetInt(charged, "fluidtype", 1) ELSE charged
  IN IF i \in Timed THEN SetInt(filled, "duration", 1) ELSE filled

\* Item::copyAttributes: other takes all, and it is this that loses its time.
Copied(x) == RemoveAttribute(RemoveAttribute(x, "decaying"), "duration")

-----------------------------------------------------------------------------

AttributesInit == sample = [i \in Samples |-> CreateSample(i)] /\ kept = TRUE

ItemBecomes(i, x) == sample' = [sample EXCEPT ![i] = x] /\ kept' = TRUE

\* Lua's doSetItemActionId, doSetItemText and their like, and what the game sets.
SetAttr(i, t, v) ==
  /\ t \in StrAttrs => v # 0
  /\ sample' = [sample EXCEPT ![i] =
       CASE t \in StrAttrs   -> SetStr(@, t, v)
         [] t = "uniqueid"   -> SetUniqueId(@, v)
         [] t = "actionid"   -> SetInt(@, t, AtLeastOne(v))
         [] OTHER            -> SetInt(@, t, v)]
  /\ kept' = (t \notin {"uniqueid", "actionid"} => GetInt(sample'[i], t) = v)

\* Item::decreaseDuration
LoseTime(i) == GetInt(sample[i], "duration") > 0 /\ ItemBecomes(i, Increase(sample[i], "duration", -1))

\* resetText, resetWriter, resetSpecialDescription
Reset(i, t) == t \in StrAttrs /\ ItemBecomes(i, RemoveAttribute(sample[i], t))

\* Item::copyAttributes; Item::clone, of an item of its kind.
CopyTo(i, j) ==
  /\ i # j /\ kept' = TRUE
  /\ sample' = [sample EXCEPT ![j] = sample[i], ![i] = Copied(@)]
CloneTo(i, j) == i # j /\ ItemBecomes(j, sample[i])

AttributesNext ==
  \/ \E i \in Samples, t \in IntAttrs \cup StrAttrs, v \in Numbers : SetAttr(i, t, v)
  \/ \E i \in Samples, t \in StrAttrs : Reset(i, t)
  \/ \E i \in Samples : LoseTime(i)
  \/ \E i, j \in Samples : CopyTo(i, j) \/ CloneTo(i, j)

AttributesSpec == AttributesInit /\ [][AttributesNext]_attributeVars

-----------------------------------------------------------------------------

\* What was just set is there.  addAttr, which asserts that the item does not
\* have the attribute yet, was written to be called for what it lacks.
SetIsKept == kept
================================================================================
