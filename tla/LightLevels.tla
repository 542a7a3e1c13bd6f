----------------------------- MODULE LightLevels -----------------------------
(***************************************************************************)
(* The two conversions of src/light.py: Home Assistant counts brightness in*)
(* 0..255, the modules in percent.  Both truncate (int), so that they are  *)
(* not inverses of each other.  For all arguments in range the floating    *)
(* point expressions of the code truncate as the exact quotients do.       *)
(***************************************************************************)
EXTENDS Naturals

Byte == 0..255
Percent == 0..100

\* Mutation: the scale is taken for 2.5.
ToPercentCoarse(b) == (b * 2) \div 5

\* int((brightness / 255) * 100)
ToPercent(b) == (b * 100) \div 255

\* int((value / 100) * 255)
ToByte(v) == (v * 255) \div 100

\* The brightness b stands for the level v: one is what the other converts to.
Stands(b, v) == ToPercent(b) = v \/ ToByte(v) = b
=============================================================================
