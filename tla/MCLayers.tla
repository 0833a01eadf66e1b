------------------------------ MODULE MCLayers ------------------------------
(* Seven templates over hosts of four, eight and unknown GPUs, a few values *)
(* of every knob.                                                          *)
EXTENDS Layers

T(values, gpus) == [values |-> values, gpus |-> gpus]

MCTemplates ==
  {T(<<>>, 0), T(<<>>, 4), T(<<>>, 8),
   T([variant |-> "nvfp4", share |-> "long"], 8),
   T([share |-> "malformed", tp |-> 99], 8),
   T([draft |-> "off", tp |-> 4], 8),
   T([family |-> "qwen36", tokens |-> 3], 1)}

MCOffered ==
  [family |-> {"glm52", "qwen36"}, variant |-> {"exl3-tr3", "nvfp4", "qwen36-nvfp4"},
   tp |-> {4, 8}, dcp |-> {2, 4}, draft |-> {"native", "off"}, tokens |-> {3, 5},
   share |-> {"default", "short"}]
=============================================================================
