----------------------------- MODULE BufferingMC -----------------------------
\* Model-checking instances of Buffering.
EXTENDS Buffering, TLC

MCParts == <<{"info"}, {"id3"}, {"codec"}, {"audio"}>>
MCSizes == [info |-> {2}, id3 |-> {2}, codec |-> {3}, audio |-> {10}]
===============================================================================
