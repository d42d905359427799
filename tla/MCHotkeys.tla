----------------------------- MODULE MCHotkeys -----------------------------
(* The keys of both sides, a mouse on a screen of 4 by 3 pixels and beside it, and *)
(* windows inside, across and outside the screen. *)
EXTENDS HotkeyListener

Sides == {"LeftOption", "RightOption", "RightShift", "LeftCommand", "RightCommand"}
AllSides == {"LeftOption", "RightOption", "RightShift", "LeftCommand", "RightCommand",
             "RightControl"}
KindOf(keys) ==
  [k \in keys |-> CASE k \in {"LeftOption", "RightOption"} -> "option"
                    [] k \in {"LeftCommand", "RightCommand"} -> "command"
                    [] k = "RightShift" -> "shift"
                    [] k = "RightControl" -> "control"]
SidesKind == KindOf(Sides)
AllSidesKind == KindOf(AllSides)

\* Who takes bounds with a twin key about, who steers, and who captures and toggles.
Mixes == {{"RightOption", "LeftOption", "left"}, {"RightOption", "minus", "comma", "other"},
          {"RightShift", "RightCommand", "LeftCommand"}}

\* The keys of the README's example, and the default toggle key.
ConfiguredKeys == {{"LeftCommand", "RightControl", "RightCommand"}}

Places == {[x |-> -3, y |-> 1], [x |-> 1, y |-> 5], [x |-> 7, y |-> 4]}
Toolbars == [app \in {"Safari", "Notes"} |-> IF app = "Safari" THEN 1 ELSE 0]
Fronts == [app : {"Safari", "Notes"}, x : {-1, 1}, y : {0, 1}, width : {1, 3, 4}, height : {1, 2}]
            \union [app : {"Safari"}, x : {0}, y : {0}, width : {4, 5}, height : {3}]
=============================================================================
