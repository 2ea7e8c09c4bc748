-------------------------- MODULE MCVisionRuntime --------------------------
(* VisionRuntime on small instances: two cameras, of which the calibration  *)
(* knows the first.                                                         *)
EXTENDS VisionRuntime

CONSTANTS c1, c2

TwoCameras == {c1, c2}
AnyCallMayHang == {"read", "infer"}
CameraMayHang == {"read"}
=============================================================================
