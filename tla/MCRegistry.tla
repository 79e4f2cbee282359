----------------------------- MODULE MCRegistry -----------------------------
(***************************************************************************)
(* Small instances of Registry: one signal type, at most one version of it *)
(* at the start, one that is short of 1.10.0 among them, and routing by    *)
(* the port a signal names.                                                *)
(***************************************************************************)
EXTENDS Registry

CONSTANTS strict, skip, broken, red, blue

Ports == {"Dover", "dover", "D*", "d*"}
InLowerCase == [s \in Ports |-> IF s \in {"D*", "d*"} THEN "d*" ELSE "dover"]
PortGlobs == {p \in Ports \X Ports :
  p[1] = p[2] \/ p \in {<<"D*", "Dover">>, <<"d*", "dover">>}}

StrictHasPort == [u \in Schemas |-> IF u = strict THEN {"port"} ELSE {}]

ByName == [field |-> "port", rules |->
  {[seq |-> 1, pattern |-> "Dover", operator |-> "equals", nocase |-> FALSE, isn |-> red],
   [seq |-> 2, pattern |-> "D*", operator |-> "does_not_match", nocase |-> FALSE, isn |-> blue]}]
Others == [field |-> "port", rules |->
  {[seq |-> 2, pattern |-> "dover", operator |-> "does_not_equal", nocase |-> TRUE, isn |-> red],
   [seq |-> 1, pattern |-> "D*", operator |-> "matches", nocase |-> FALSE, isn |-> blue]}]
Both == {ByName, Others}

Start(number) == {[id |-> 0, slug |-> "port", ver |-> <<1, number, 0>>, schema |-> strict]}
Starts == {{}, Start(9)}

=============================================================================
