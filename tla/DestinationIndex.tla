-------------------------- MODULE DestinationIndex --------------------------
(***************************************************************************)
(* DestinationIndex of copier.py: what _build_index found in a destination *)
(* folder, from which each file of the source takes (pops) the item that   *)
(* already stands for it.  One index serves all the files of one level of  *)
(* the traversal, from several threads, under the engine's lock.           *)
(*                                                                         *)
(* Items of the destination are numbered in the order Drive lists them     *)
(* (name, then createdTime).  items[i].of is the entry an item is a copy   *)
(* of, with its name and content; an item that the tool made also carries  *)
(* that entry's id in its appProperties.  0 stands for "no item".          *)
(***************************************************************************)
EXTENDS Integers, FiniteSets

CONSTANTS
  Entries,  \* source files, and shortcuts to files: the effective ids
  None,
  Name,     \* Name[e]: the name of e
  Md5,      \* Md5[e]: the md5 of its content, None for a Google-native document
  Size      \* Size[e]: its size, None for a Google-native document

Modes == {"checksum", "name_size", "name_only"}
Indexes == [prop : [Entries -> Nat], rest : SUBSET Nat]

First(S)  == IF S = {} THEN 0 ELSE CHOOSE i \in S : \A j \in S : i <= j
Latest(S) == IF S = {} THEN 0 ELSE CHOOSE i \in S : \A j \in S : j <= i

\* A bug: appProperties are not among the fields asked for.
BuildBug(items, listed) == [prop |-> [e \in Entries |-> 0], rest |-> listed]

\* DestinationIndex.build: app_props keeps the last item of a key, by_name all.
Build(items, listed) ==
  [prop |-> [e \in Entries |-> Latest({i \in listed : items[i].tool /\ items[i].of = e})],
   rest |-> listed]

\* An item leaves both maps at once.
Pop(index, i) ==
  [prop |-> [e \in Entries |-> IF index.prop[e] = i THEN 0 ELSE index.prop[e]],
   rest |-> index.rest \ {i}]

\* pop_by_app_prop: the item that carries the entry's id.
ByAppProp(index, e) == index.prop[e]

\* The candidates of pop_match, once no item carries the entry's id.
Candidates(items, index, e, mode) ==
  LET named == {i \in index.rest : Name[items[i].of] = Name[e]}
      md5   == {i \in named : Md5[e] # None /\ Md5[items[i].of] = Md5[e]}
      size  == {i \in named : Size[e] # None /\ Size[items[i].of] = Size[e]}
  IN  CASE mode = "name_only" -> named
        [] mode = "checksum"  -> md5
        [] mode = "name_size" -> IF md5 # {} THEN md5 ELSE size

\* pop_match: the item that will stand for the entry.
Match(items, index, e, mode) ==
  IF ByAppProp(index, e) # 0 THEN ByAppProp(index, e)
                             ELSE First(Candidates(items, index, e, mode))

\* Equal name and content; a Google-native document is only equal to itself.
Same(e, f) == e = f \/ (Name[e] = Name[f] /\ Md5[e] = Md5[f] /\ Md5[e] # None)
=============================================================================
