---------------------------- MODULE MCFarcadeGl -----------------------------
(* The instances on which TLC checks FarcadeGl.                            *)
EXTENDS FarcadeGl

CONSTANTS blend, phong, gouraud, s1, s2, s3, t1, t2, u1, l1, half, zero, one

MCCaps == {blend}
MCPrograms == {phong, gouraud}
MCShaders == {s1, s2, s3}
MCPlain == {s3}
MCTextures == {t1, t2}
MCUnits == {u1}
MCLayouts == {l1}
MCViewports == {half}
MCValues == {zero, one}
MCApplications ==
    {{"shader", "matrices", "program"}, {"shader", "uniform"}, {"uniform", "shader", "matrices"},
     {"shader", "flip", "gpu"}, {"caps", "layout", "memory"}, {"layout", "texture"},
     {"texture", "pixels", "gpu"}, {"caps", "program", "texture"},
     {"matrices", "flip", "gpu"}, {"caps", "flip", "window", "gpu"}, {"viewport", "texture", "memory"}}
=============================================================================
