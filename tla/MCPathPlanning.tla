-------------------------- MODULE MCPathPlanning --------------------------
EXTENDS PathPlanning

\* Batteries in pixels: a square given counter-clockwise, one that crosses itself as
\* given, a triangle, a notched outline, a line, a square with a corner twice, a dot,
\* a single corner.
MCBatteries ==
  { << <<0, 0>>, <<0, 4>>, <<4, 4>>, <<4, 0>> >>,
    << <<5, 1>>, <<8, 3>>, <<8, 1>>, <<5, 3>> >>,
    << <<1, 6>>, <<6, 5>>, <<3, 9>> >>,
    << <<5, 5>>, <<9, 5>>, <<7, 6>>, <<9, 9>>, <<5, 9>> >>,
    << <<1, 7>>, <<8, 7>> >>,
    << <<1, 1>>, <<3, 1>>, <<1, 1>>, <<3, 3>>, <<1, 3>> >>,
    << <<4, 4>>, <<4, 4>> >>,
    << <<3, 3>> >> }

MCPixels == (0..9) \X (0..9)

\* Three views of the board, in tenths of mm: all of it in reach, from above with some
\* perspective; one moved so that some of it is not; one so flat that the lower rows of
\* the image are beyond the horizon, which the lens bends.
MCMappings ==
  { [x |-> 200, y |-> 250, scale |-> 200, depth |-> 20, tilt |-> 1, bend |-> 0,
      start |-> <<220, 200>>],
    [x |-> 140, y |-> 300, scale |-> 400, depth |-> 20, tilt |-> -1, bend |-> 0,
      start |-> <<160, 200>>],
    [x |-> 200, y |-> 250, scale |-> 100, depth |-> 16, tilt |-> -2, bend |-> 1,
      start |-> <<220, 200>>] }

\* A plane in perspective; it leans a little.
MCBoard(m, p) ==
  LET away == m.depth * p.d + m.tilt * p.y - (m.bend * p.x * (9 * p.d - p.x)) \div (10 * p.d)
  IN  IF away <= 0 THEN <<>>
      ELSE << m.x + (m.scale * p.x) \div away,
              m.y - (m.scale * p.y) \div away,
              (m.scale * p.y) \div (4 * away) >>

MCRing == [min |-> 180, max |-> 360, y |-> 80]
===========================================================================
