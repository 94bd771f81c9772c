---------------------------- MODULE PathPlanning ----------------------------
(***************************************************************************)
(* From detected batteries to a job: POST /path/populate                   *)
(* (populate_pixel_path_from_batteries in app/services/orchestrator.py)    *)
(* puts measuring points on the perimeters, and POST /job (create_job in   *)
(* app/api/routes.py) converts the points to waypoints and refuses those   *)
(* the arm cannot reach. Neither takes a lock: a calibration may publish   *)
(* another mapping between two conversions.                                *)
(*                                                                         *)
(* Board tells where the ray through a pixel meets the board, by any lens  *)
(* and perspective, in integers of a unit as small as one likes; step, 10  *)
(* mm over measuringPointsPerCm, is in that unit. On the image arithmetic  *)
(* is exact, atan2 by its half-planes and cross products; [x, y, d] is the *)
(* point <<x/d, y/d>>.                                                     *)
(***************************************************************************)
EXTENDS Integers, Sequences, SequencesExt

CONSTANTS
  Pixels,      \* where corners of batteries may be,
  Batteries,   \* and the corner lists a client may send for one battery
  MaxBatteries,\* bound: batteries in a request
  Steps,       \* distances between measuring points that may be asked for
  Mappings,    \* mappings a calibration may publish; start is the start pose
  Board(_, _), \* of a mapping and a point of the image: where on the board, if anywhere
  MaxPoints,   \* MAX_POPULATED_PATH_POINTS
  Ring,        \* MIN_ and MAX_REACH_RADIUS_MM, MIN_Y_POSITION_MM: [min, max, y]
  MaxRecalibrations  \* bound: mappings published during the requests

ASSUME PlanningAssumption ==
  /\ MaxPoints \in Nat /\ MaxBatteries \in Nat /\ MaxRecalibrations \in Nat
  /\ Steps \subseteq Nat \ {0}
  /\ Pixels \subseteq Int \X Int /\ Batteries \subseteq Seq(Pixels)
  /\ \A m \in Mappings : m.start \in Int \X Int
  /\ Ring \in [min : Int, max : Int, y : Int]

Space    == Int \X Int \X Int
Pixel(c) == [x |-> c[1], y |-> c[2], d |-> 1]

\* Different corners that are seen on the board are at different places of it.
ASSUME BoardAssumption == \A m \in Mappings : \A c, d \in Pixels :
  Board(m, Pixel(c)) \in Space /\ Board(m, Pixel(c)) = Board(m, Pixel(d)) => c = d

VARIABLES
  mapping, recalibrations,  \* _mapping_data, and how often it was replaced
  checked,    \* NENABOT_REACHABILITY_CHECK
  batteries,  \* the request to populate: corners of each battery,
  step,       \* the distance of measuring points,
  level,      \* and whether workZ is within MIN_ and MAX_Z_HEIGHT_MM
  pc,         \* where the two requests are, or how the last one was answered
  ordered,    \* ordered_batteries: corners in the order of the walk, and their distance
  edge,       \* the edge to sample next: [battery, corner]
  path,       \* the points of the answer, posted as they are as a job
  waypoints   \* robot_waypoints of the job

request == <<checked, batteries, step, level>>
board   == <<mapping, recalibrations>>
vars    == <<board, request, pc, ordered, edge, path, waypoints>>

Init ==
  /\ mapping \in Mappings /\ recalibrations = 0
  /\ checked \in BOOLEAN
  /\ batteries \in BoundedSeq(Batteries, MaxBatteries)
  /\ step \in Steps /\ level \in BOOLEAN
  /\ pc = "order" /\ ordered = <<>>
  /\ edge = [battery |-> 1, corner |-> 1]
  /\ path = <<>> /\ waypoints = <<>>

-----------------------------------------------------------------------------
(* Geometry.                                                               *)

Square(n)   == n * n
Minus(p, q) == <<p[1] - q[1], p[2] - q[2]>>
\* Positive if v lies clockwise of u on the screen, whose y axis points down.
Cross(u, v) == u[1] * v[2] - u[2] * v[1]

\* _plane_point_from_pixel; it raises if the ray misses the board.
Place(p) == Board(mapping, p)
Hits(p)  == Place(p) \in Space
\* pixel_to_robot; z is workZ.
Waypoint(p) == [x |-> Place(p)[1], y |-> Place(p)[2]]

\* Squares of _distance_from_start and of the length of an edge on the board.
DistanceFromStart(c) ==
  LET p == Place(Pixel(c)) IN Square(p[1] - mapping.start[1]) + Square(p[2] - mapping.start[2])
EdgeLength(a, b) ==
  LET p == Place(Pixel(a))  q == Place(Pixel(b))
  IN  Square(p[1] - q[1]) + Square(p[2] - q[2]) + Square(p[3] - q[3])

\* is_waypoint_reachable and is_reachable_mm
InRing(w) ==
  /\ w.y >= Ring.y
  /\ Square(w.x) + Square(w.y) \in Square(Ring.min) .. Square(Ring.max)
Reachable(w) == checked => level /\ InRing(w)

\* Angles of directions by atan2: above the centre, right of it, below it, left of it.
HalfPlane(v) == IF v[2] < 0 THEN 0 ELSE IF v[2] > 0 THEN 2 ELSE IF v[1] >= 0 THEN 1 ELSE 3
Angular(u, v) == \/ HalfPlane(u) < HalfPlane(v)
                 \/ HalfPlane(u) = HalfPlane(v) /\ Cross(u, v) > 0

\* sorted with a key: equal elements keep their order. The place of an element is the
\* number of those before it.
StableSort(s, less(_, _)) ==
  LET before(i, j) == less(s[i], s[j]) \/ (~less(s[j], s[i]) /\ i < j)
      place(i) == Cardinality({j \in DOMAIN s : before(j, i)}) + 1
  IN  [k \in DOMAIN s |-> s[CHOOSE i \in DOMAIN s : place(i) = k]]

\* The direction of a corner from the mean of all, times their number.
FromCentre(corners, c) ==
  LET n == Len(corners) IN
    <<n * c[1] - SumFunction([i \in 1..n |-> corners[i][1]]),
      n * c[2] - SumFunction([i \in 1..n |-> corners[i][2]])>>

Successor(s, i)  == s[(i % Len(s)) + 1]
Rotate(s, first) == SubSeq(s, first, Len(s)) \o SubSeq(s, 1, first - 1)
Nearest(corners) ==
  CHOOSE i \in DOMAIN corners :
    /\ \A j \in DOMAIN corners : DistanceFromStart(corners[i]) <= DistanceFromStart(corners[j])
    /\ \A j \in 1..(i - 1) : DistanceFromStart(corners[i]) < DistanceFromStart(corners[j])

\* Wrong: the corners are taken to come in clockwise order.
Normalize_AsGiven(corners) == Rotate(corners, Nearest(corners))
\* _normalize_corners_clockwise_start_nearest
Normalize(corners) ==
  LET clockwise == StableSort(corners, LAMBDA c, d :
                     Angular(FromCentre(corners, c), FromCentre(corners, d)))
  IN  Rotate(clockwise, Nearest(clockwise))

\* Wrong: the points are further apart than asked for.
SampleCount_Floor(length) == CHOOSE n \in 1..(length + 1) :
  /\ n = 1 \/ Square(n * step) <= length
  /\ Square((n + 1) * step) > length
\* max(1, ceil(edge_length_mm / step_mm)), from the square of the length.
SampleCount(length) == CHOOSE n \in 1..(length + 1) :
  /\ Square(n * step) >= length
  /\ n = 1 \/ Square((n - 1) * step) < length

\* Point m of n on an edge: equal parts of it on the image, whatever they are on the board.
SampleAt(from, to, n, m) == [x |-> n * from[1] + (m - 1) * (to[1] - from[1]),
                             y |-> n * from[2] + (m - 1) * (to[2] - from[2]), d |-> n]
Sample(b, c, at, m) ==
  [battery |-> b, corner |-> c, nr |-> m, at |-> at, reachable |-> Reachable(Waypoint(at))]

\* Wrong: a sample on the corner where the next edge begins, too.
Samples_Closed(b, c, from, to) ==
  LET n == SampleCount(EdgeLength(from, to)) IN
    [m \in 1..(n + 1) |-> Sample(b, c, SampleAt(from, to, n, m), m)]
\* The points of an edge, without its end.
Samples(b, c, from, to) ==
  LET n == SampleCount(EdgeLength(from, to)) IN
    [m \in 1..n |-> Sample(b, c, SampleAt(from, to, n, m), m)]

-----------------------------------------------------------------------------
(* POST /path/populate.                                                    *)

\* Batteries are taken in the order of the request; those without an edge are left out.
MeasureBattery ==
  /\ pc = "order" /\ batteries # <<>>
  /\ Len(Head(batteries)) < 2 \/ \A c \in ToSet(Head(batteries)) : Hits(Pixel(c))
  /\ batteries' = Tail(batteries)
  /\ LET corners == Normalize(Head(batteries)) IN
       ordered' = IF Len(Head(batteries)) < 2 THEN ordered
                  ELSE Append(ordered, [corners |-> corners,
                                        distance |-> DistanceFromStart(corners[1])])
  /\ UNCHANGED <<board, checked, step, level, pc, edge, path, waypoints>>

SortBatteries ==
  /\ pc = "order" /\ batteries = <<>> /\ pc' = "walk"
  /\ ordered' = StableSort(ordered, LAMBDA a, b : a.distance < b.distance)
  /\ UNCHANGED <<board, request, edge, path, waypoints>>

Walking == pc = "walk" /\ edge.battery <= Len(ordered)
Corners == ordered[edge.battery].corners
From    == Corners[edge.corner]
To      == Successor(Corners, edge.corner)
NextEdge == IF edge.corner < Len(Corners) THEN [edge EXCEPT !.corner = @ + 1]
            ELSE [battery |-> edge.battery + 1, corner |-> 1]

Measuring == Walking /\ Hits(Pixel(From)) /\ Hits(Pixel(To))
Length    == EdgeLength(From, To)
SeesEdge  == LET n == SampleCount(Length) IN \A m \in 1..n : Hits(SampleAt(From, To, n, m))

SkipEdge ==
  /\ Measuring /\ Length = 0
  /\ edge' = NextEdge
  /\ UNCHANGED <<board, request, pc, ordered, path, waypoints>>

\* Wrong: the limit is looked at before the points of the edge are added.
SampleEdge_ChecksLate ==
  /\ Measuring /\ Length # 0
  /\ Len(path) <= MaxPoints
  /\ SeesEdge
  /\ path' = path \o Samples(edge.battery, edge.corner, From, To)
  /\ edge' = NextEdge
  /\ UNCHANGED <<board, request, pc, ordered, waypoints>>

\* Wrong: the walk ends at the last corner.
SampleEdge_Open ==
  /\ Measuring /\ Length # 0
  /\ Len(path) + SampleCount(Length) <= MaxPoints
  /\ SeesEdge
  /\ path' = IF edge.corner = Len(Corners) THEN path
              ELSE path \o Samples(edge.battery, edge.corner, From, To)
  /\ edge' = NextEdge
  /\ UNCHANGED <<board, request, pc, ordered, waypoints>>

SampleEdge ==
  /\ Measuring /\ Length # 0
  /\ Len(path) + SampleCount(Length) <= MaxPoints
  /\ SeesEdge
  /\ path' = path \o Samples(edge.battery, edge.corner, From, To)
  /\ edge' = NextEdge
  /\ UNCHANGED <<board, request, pc, ordered, waypoints>>

\* 422, too dense
RefuseDensity ==
  /\ Measuring /\ Length # 0
  /\ Len(path) + SampleCount(Length) > MaxPoints
  /\ pc' = "too dense"
  /\ UNCHANGED <<board, request, ordered, edge, path, waypoints>>

\* 409: the ray through a corner, or through a point between two, misses the board.
FailPopulate ==
  /\ \/ /\ pc = "order" /\ batteries # <<>> /\ Len(Head(batteries)) >= 2
        /\ \E c \in ToSet(Head(batteries)) : ~Hits(Pixel(c))
     \/ Walking /\ ~Measuring
     \/ /\ Measuring /\ Length # 0
        /\ Len(path) + SampleCount(Length) <= MaxPoints
        /\ ~SeesEdge
  /\ pc' = "no ray"
  /\ UNCHANGED <<board, request, ordered, edge, path, waypoints>>

AnswerPath ==
  /\ pc = "walk" /\ edge.battery > Len(ordered)
  /\ pc' = "populated"
  /\ UNCHANGED <<board, request, ordered, edge, path, waypoints>>

-----------------------------------------------------------------------------
(* POST /job with that path and the same workZ.                            *)

Converting == pc = "populated" /\ Len(waypoints) < Len(path)
Point      == path[Len(waypoints) + 1].at

ConvertPoint ==
  /\ Converting /\ Hits(Point)
  /\ waypoints' = Append(waypoints, Waypoint(Point))
  /\ UNCHANGED <<board, request, pc, ordered, edge, path>>

\* 500: the ray misses the board of a mapping published since.
FailConvert ==
  /\ Converting /\ ~Hits(Point)
  /\ pc' = "no ray"
  /\ UNCHANGED <<board, request, ordered, edge, path, waypoints>>

\* Wrong: the flags of the points tell.
FindUnreachable_Flags == {i \in DOMAIN path : ~path[i].reachable}
\* find_unreachable_waypoints
FindUnreachable == {i \in DOMAIN waypoints : ~Reachable(waypoints[i])}

\* 422 for unreachable points or an empty path, 409 if the robot is not there.
CheckJob ==
  /\ pc = "populated" /\ Len(waypoints) = Len(path)
  /\ \/ FindUnreachable # {} /\ pc' = "unreachable"
     \/ FindUnreachable = {} /\ path = <<>> /\ pc' = "empty"
     \/ FindUnreachable = {} /\ path # <<>> /\ pc' \in {"accepted", "no robot"}
  /\ UNCHANGED <<board, request, ordered, edge, path, waypoints>>

\* A calibration publishes another mapping.
Recalibrate ==
  /\ recalibrations < MaxRecalibrations /\ recalibrations' = recalibrations + 1
  /\ mapping' \in Mappings \ {mapping}
  /\ pc \in {"order", "walk", "populated"}
  /\ UNCHANGED <<request, pc, ordered, edge, path, waypoints>>

Answers == {"no ray", "too dense", "unreachable", "empty", "no robot", "accepted"}
Finished == pc \in Answers /\ UNCHANGED vars

Next ==
  \/ MeasureBattery \/ SortBatteries
  \/ SkipEdge \/ SampleEdge \/ RefuseDensity \/ FailPopulate \/ AnswerPath
  \/ ConvertPoint \/ FailConvert \/ CheckJob
  \/ Recalibrate \/ Finished

Spec == Init /\ [][Next]_vars

-----------------------------------------------------------------------------
(* Properties.                                                             *)

Points == [x : Int, y : Int, d : Nat \ {0}]

TypeOK ==
  /\ mapping \in Mappings /\ recalibrations \in 0..MaxRecalibrations
  /\ checked \in BOOLEAN /\ level \in BOOLEAN /\ step \in Steps
  /\ pc \in {"order", "walk", "populated"} \cup Answers
  /\ edge \in [battery : 1..(Len(ordered) + 1), corner : Nat \ {0}]
  /\ \A i \in DOMAIN path :
       /\ path[i].at \in Points /\ path[i].battery \in DOMAIN ordered
       /\ path[i].corner \in DOMAIN ordered[path[i].battery].corners
       /\ path[i].nr \in 1..path[i].at.d
  /\ waypoints \in Seq([x : Int, y : Int]) /\ Len(waypoints) <= Len(path)

Steady    == recalibrations = 0
Distinct  == {i \in DOMAIN ordered : Cardinality(ToSet(ordered[i].corners)) > 1}

\* Corners in convex position have exactly one clockwise tour, whatever order they
\* were given in.
RightOf(c, d, S)  == \A e \in S \ {c, d} : Cross(Minus(d, c), Minus(e, c)) > 0
Convex(S)         == \A c \in S : \E d \in S \ {c} : RightOf(c, d, S)
Tour(s)           == \A i \in DOMAIN s : RightOf(s[i], Successor(s, i), ToSet(s))

\* The walk around a convex battery goes along its perimeter, clockwise, from the
\* corner nearest to the start.
PerimeterFromNearest ==
  /\ \A i \in DOMAIN ordered :
       LET s == ordered[i].corners IN
         Convex(ToSet(s)) /\ Cardinality(ToSet(s)) = Len(s) => Tour(s)
  /\ Steady => \A i \in DOMAIN ordered : \A c \in ToSet(ordered[i].corners) :
       DistanceFromStart(ordered[i].corners[1]) <= DistanceFromStart(c)

\* No corner of a battery that has an edge is left out, however the corners lie.
EveryCornerMeasured ==
  pc = "populated" =>
    \A b \in Distinct : \A c \in ToSet(ordered[b].corners) :
      \E i \in DOMAIN path :
        path[i].battery = b /\ path[i].nr = 1 /\ ordered[b].corners[path[i].corner] = c

\* Every point of a battery is followed, around the whole perimeter and over repeated
\* corners, by one that is an n-th of its edge further on the image, where n is the
\* least number of steps as long as the edge is on the board. That is the density on
\* the average of an edge: the gaps between its points differ with the perspective.
Further(p, q, v) == /\ q.x * p.d - p.x * q.d = v[1] * q.d
                    /\ q.y * p.d - p.y * q.d = v[2] * q.d
After(i) == IF i < Len(path) /\ path[i + 1].battery = path[i].battery THEN path[i + 1]
            ELSE path[CHOOSE k \in DOMAIN path : path[k].battery = path[i].battery
                        /\ \A l \in 1..(k - 1) : path[l].battery # path[i].battery]
PointsSpreadEvenly ==
  pc = "populated" => \A i \in DOMAIN path :
    LET n    == path[i].at.d
        s    == ordered[path[i].battery].corners
        from == s[path[i].corner]
        to   == Successor(s, path[i].corner)
    IN  /\ Further(path[i].at, After(i).at, Minus(to, from))
        /\ Steady => /\ Square(n * step) >= EdgeLength(from, to)
                     /\ n > 1 => Square((n - 1) * step) < EdgeLength(from, to)

\* The limit holds, and a request is refused for its density only when the whole
\* perimeter of all its batteries needs more points than the limit.
Needed(s) == SumFunction([i \in DOMAIN s |-> LET to == Successor(s, i) IN
               IF EdgeLength(s[i], to) = 0 THEN 0 ELSE SampleCount(EdgeLength(s[i], to))])
TooDense  == SumFunction([i \in DOMAIN ordered |-> Needed(ordered[i].corners)]) > MaxPoints
LimitIsExact ==
  /\ Len(path) <= MaxPoints
  /\ Steady /\ pc \in {"populated", "too dense"} => (pc = "too dense" <=> TooDense)

\* A job that is accepted has no waypoint out of reach, although the flags of its
\* points and some of its waypoints may come from a mapping that was replaced in
\* between; and while none is replaced, the flags foretell the answer.
AcceptedIsReachable ==
  /\ pc = "accepted" /\ checked => level /\ \A i \in DOMAIN waypoints : InRing(waypoints[i])
  /\ Steady /\ pc \in {"accepted", "unreachable"} =>
       (pc = "accepted" <=> \A i \in DOMAIN path : path[i].reachable)
=============================================================================
