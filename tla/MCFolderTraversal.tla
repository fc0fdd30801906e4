-------------------------- MODULE MCFolderTraversal --------------------------
(* Source trees for FolderTraversal. *)
EXTENDS FolderTraversal, TLC

CONSTANTS r, D, G,          \* folders
          a, b1, b2, c,     \* files
          SD, LR, Ta        \* shortcuts: to D, to r (a loop), to a

MCTarget == SD :> D @@ LR :> r @@ Ta :> a

\* b1 and b2 have the same name and content; c is a Google-native document.
MCName == a :> 1 @@ b1 :> 2 @@ b2 :> 2 @@ c :> 3 @@ Ta :> 4
MCMd5  == a :> 1 @@ b1 :> 2 @@ b2 :> 2 @@ c :> None @@ Ta :> 1
MCSize == a :> 1 @@ b1 :> 1 @@ b2 :> 1 @@ c :> None @@ Ta :> 1

Tree(children) == children @@ [f \in Folders |-> <<>>]
Opts(skips, fasts, drys, modes) ==
  [skip : skips, fast : fasts, dry : drys, mode : modes]

\* D is reached by itself and through a shortcut, and has a loop in it.
Aliased == Tree(r :> <<D, SD>> @@ D :> <<a, LR>>)
\* A shortcut to a file, two equal files, and a folder with nothing in it.
Twins   == Tree(r :> <<D, Ta, b1, b2>> @@ D :> <<>>)
\* A file and a shortcut to it.
Crossed == Tree(r :> <<a, Ta>>)
\* Three levels, with nothing that is reached twice.
Nested  == Tree(r :> <<D>> @@ D :> <<G, c>> @@ G :> <<b1>>)

AliasedOptions == Opts({FALSE}, BOOLEAN, {FALSE}, {"checksum"})
TwinsOptions   == Opts({FALSE}, {FALSE}, BOOLEAN, {"checksum", "name_size"})
CrossedOptions == Opts({FALSE}, {FALSE}, {FALSE}, {"checksum"})
NestedOptions  == Opts({TRUE}, {FALSE}, BOOLEAN, {"checksum"})
                  \union Opts({FALSE}, {TRUE}, {FALSE}, {"checksum"})
DoublesOptions == Opts({TRUE}, {FALSE}, {FALSE}, {"checksum"})

\* Each large tree with one fault of any kind, and with two of the frequent kinds,
\* for Nested also of those that make or take a second folder, for Twins of those
\* that leave an outdated log behind, for Crossed of those that leave a failed item
\* behind.
AnyOnce  == [faults |-> FaultKinds, budget |-> 1]
Twice    == [faults |-> {"copy", "crash"}, budget |-> 2]
Doubles  == [faults |-> {"resent", "search", "verify", "create", "crash"}, budget |-> 2]
Crossing == [faults |-> {"copy", "shortcut", "crash"}, budget |-> 2]
Outdate  == [faults |-> {"copy", "crash", "trash"}, budget |-> 2]

Scene(children, options, env) ==
  [children |-> children, options |-> options, faults |-> env.faults,
   budget |-> env.budget]

MCScenarios ==
  {Scene(Aliased, AliasedOptions, AnyOnce), Scene(Aliased, AliasedOptions, Twice),
   Scene(Nested, DoublesOptions, Doubles),
   Scene(Nested, NestedOptions, AnyOnce), Scene(Nested, NestedOptions, Twice),
   Scene(Crossed, CrossedOptions, Crossing),
   Scene(Twins, TwinsOptions, AnyOnce), Scene(Twins, TwinsOptions, Outdate)}

\* What the theorems ask of the trees and the modes.  What those about MirrorPromise
\* ask besides, VerificationsTell, holds of all scenes but the one with Doubles.
ASSUME ModesAssumption == ModesTell
ASSUME TreesAssumption == \A s \in MCScenarios : OneWayDown(s.children)
ASSUME SkipsAssumption == SkipsTell

\* D is reached in two ways and has a folder in it.
TwiceReached ==
  {Scene(Tree(r :> <<SD, D>> @@ D :> <<G>> @@ G :> <<a>>),
         Opts({FALSE}, {FALSE}, {FALSE}, {"checksum"}), [faults |-> {}, budget |-> 0])}
=============================================================================
