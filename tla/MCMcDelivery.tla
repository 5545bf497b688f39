---------------------------- MODULE MCMcDelivery ----------------------------
(* McDelivery for TLC, on a board of two by two. *)
EXTENDS McDelivery, TLC

CONSTANTS there, back

Entry(ks, ls, cs) == [keys |-> ks, links |-> ls, cores |-> cs]

\* The tables with the entries m gives, by chip and index.
TableOf(m) ==
  [c \in Chips |-> [i \in Indices |->
     IF <<c, i>> \in DOMAIN m THEN m[<<c, i>>] ELSE Unset]]

\* A path over chips 0, 1 and 3: key "there" goes from chip 0 to the cores of
\* 1 and 3, "back" from 3 to those of 1 and 0.  On chip 1 both entries match
\* "there".
path ==
  TableOf(   <<0, 0>> :> Entry({there}, {NORTH}, {})
          @@ <<0, 1>> :> Entry({back}, {}, {1})
          @@ <<1, 0>> :> Entry({there}, {EAST}, {1})
          @@ <<1, 1>> :> Entry({there, back}, {SOUTH}, {0})
          @@ <<3, 0>> :> Entry({there}, {}, {1})
          @@ <<3, 1>> :> Entry({back}, {WEST}, {}))

\* Chip 0 reaches chip 3 by its diagonal and by two sides, so that "there"
\* comes three times; "back" is lost on chip 0 until a core of that chip has
\* installed its entry.
diamond ==
  TableOf(   <<0, 0>> :> Entry({there}, {EAST, NORTH_EAST, NORTH}, {})
          @@ <<1, 0>> :> Entry({there}, {EAST}, {})
          @@ <<2, 0>> :> Entry({there}, {NORTH}, {0})
          @@ <<3, 0>> :> Entry({there}, {}, {1})
          @@ <<3, 1>> :> Entry({back}, {SOUTH_WEST}, {}))

tables == {path, diamond}
senders == {<<0, 1>>, <<3, 1>>}

\* A core of chip 0 may have the packets of "back" sent to its core 0, and
\* asks for an entry past the last.
entries ==
  [c \in Chips |->
     IF c = 0 THEN [entry : {0, NUM_ROUTES - 1},
                    route : {Entry({back}, {}, {0})}]
     ELSE {}]
=============================================================================
