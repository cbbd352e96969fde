----------------------------- MODULE RigProofs ------------------------------
(***************************************************************************)
(* Theorems about what crosses from one rig to another: motion_convert,    *)
(* for every profile, rig and clip, and the retargeter and the validation  *)
(* of its rigs, for every configuration, pose and order of calls.          *)
(***************************************************************************)
EXTENDS MotionConvert, RetargetValidation, SequenceTheorems, SharedLemmas

-----------------------------------------------------------------------------
(* The change of basis.                                                    *)

Orders == {<<1, 2, 3>>, <<1, 3, 2>>, <<2, 1, 3>>, <<2, 3, 1>>, <<3, 1, 2>>, <<3, 2, 1>>}

LEMMA FourNumbers ==
  ASSUME NEW f, f = [i \in 1 .. 4 |-> f[i]]
  PROVE  f = <<f[1], f[2], f[3], f[4]>>
OBVIOUS

Bits == {0, 1}
PlusMinus == {-1, 1}

LEMMA UnitIsZeroOrOne ==
  ASSUME NEW p \in Units
  PROVE  p[1] \in Bits /\ p[2] \in Bits /\ p[3] \in Bits /\ p[4] = 0
BY DEF Units, Bits

(* Two quaternions without a real part multiply to their cross product,    *)
(* and minus their dot product.                                            *)
LEMMA PureProduct ==
  ASSUME NEW u, u[1] \in Int, u[2] \in Int, u[3] \in Int, u[4] = 0,
         NEW v, v[1] \in Int, v[2] \in Int, v[3] \in Int, v[4] = 0
  PROVE  Multiply(u, v)
           = <<u[2] * v[3] - u[3] * v[2], u[3] * v[1] - u[1] * v[3],
               u[1] * v[2] - u[2] * v[1], 0 - u[1] * v[1] - u[2] * v[2] - u[3] * v[3]>>
BY DEF Multiply

(* One component of the cross product and of the dot product, where each   *)
(* number is multiplied by a sign.                                         *)
LEMMA TurnedTerm ==
  ASSUME NEW g \in PlusMinus, NEW h \in PlusMinus,
         NEW x \in Bits, NEW y \in Bits, NEW z \in Bits, NEW w \in Bits
  PROVE  /\ (g * x) * (h * y) - (h * z) * (g * w) = (g * h) * (x * y - z * w)
         /\ (g * x) * (g * y) = x * y
         /\ g * x \in Int /\ x * y \in Int
BY DEF PlusMinus, Bits

(* A component of the cross product: mirrored where the order is odd.      *)
LEMMA MirroredTerm ==
  ASSUME NEW e \in PlusMinus, NEW g \in PlusMinus, NEW h, h = e * g, NEW k,
         NEW x \in Bits, NEW y \in Bits, NEW z \in Bits, NEW w \in Bits,
         \/ e = 1 /\ k = x * y - z * w
         \/ e = -1 /\ k = z * w - x * y
  PROVE  h * (x * y - z * w) = g * k
BY DEF PlusMinus, Bits

(* Turning by a handed basis respects the product of any two units.        *)
LEMMA HandedBasisTurnsProducts ==
  ASSUME NEW d \in PlusMinus, NEW s \in Orders, NEW basis,
         NEW a \in PlusMinus, NEW b \in PlusMinus, NEW e \in PlusMinus,
         basis = [component |-> s, sign |-> <<d * e * a * b, a, b>>, determinant |-> d],
         e = PermutationSign(s[1], s[2], s[3]),
         NEW p \in Units, NEW q \in Units
  PROVE  Multiply(ConvertRotation(basis, p), ConvertRotation(basis, q))
           = ConvertRotation(basis, Multiply(p, q))
<1> DEFINE g1 == e * a * b
           g2 == d * a
           g3 == d * b
           Turned(v) == <<g1 * v[s[1]], g2 * v[s[2]], g3 * v[s[3]], v[4]>>
           m == Multiply(p, q)
<1>1. g1 \in PlusMinus /\ g2 \in PlusMinus /\ g3 \in PlusMinus
  BY DEF PlusMinus
<1>2. d * (d * e * a * b) = g1
  BY DEF PlusMinus
<1>3. g2 * g3 = e * g1 /\ g1 * g3 = e * g2 /\ g1 * g2 = e * g3
  BY DEF PlusMinus
<1>4. s[1] \in 1 .. 3 /\ s[2] \in 1 .. 3 /\ s[3] \in 1 .. 3
  BY DEF Orders
<1>5. ASSUME NEW v, \A i \in 1 .. 4 : v[i] \in Int
      PROVE  ConvertRotation(basis, v) = Turned(v)
  <2>1. /\ basis.determinant * basis.sign[1] = g1
        /\ basis.determinant * basis.sign[2] = g2
        /\ basis.determinant * basis.sign[3] = g3
        /\ basis.component = s
    BY <1>2
  <2> HIDE DEF g1, g2, g3
  <2>2. v[s[1]] \in Int /\ v[s[2]] \in Int /\ v[s[3]] \in Int /\ v[4] \in Int
    BY <1>4, <1>5
  <2>3. /\ ConvertRotation(basis, v)[1] = basis.determinant * basis.sign[1] * v[s[1]]
        /\ ConvertRotation(basis, v)[2] = basis.determinant * basis.sign[2] * v[s[2]]
        /\ ConvertRotation(basis, v)[3] = basis.determinant * basis.sign[3] * v[s[3]]
        /\ ConvertRotation(basis, v)[4] = v[4]
    BY <2>1 DEF ConvertRotation
  <2>4. /\ ConvertRotation(basis, v)[1] = g1 * v[s[1]]
        /\ ConvertRotation(basis, v)[2] = g2 * v[s[2]]
        /\ ConvertRotation(basis, v)[3] = g3 * v[s[3]]
        /\ ConvertRotation(basis, v)[4] = v[4]
    BY <2>1, <2>3
  <2>5. QED
    BY <2>4, FourNumbers DEF ConvertRotation
<1> HIDE DEF g1, g2, g3
<1>6. /\ p[1] \in Bits /\ p[2] \in Bits /\ p[3] \in Bits /\ p[4] = 0
      /\ q[1] \in Bits /\ q[2] \in Bits /\ q[3] \in Bits /\ q[4] = 0
  BY UnitIsZeroOrOne
<1>7. /\ m[1] = p[2] * q[3] - p[3] * q[2]
      /\ m[2] = p[3] * q[1] - p[1] * q[3]
      /\ m[3] = p[1] * q[2] - p[2] * q[1]
      /\ m[4] = 0 - p[1] * q[1] - p[2] * q[2] - p[3] * q[3]
  BY <1>6 DEF Multiply, Bits
<1> HIDE DEF m
<1> DEFINE x1 == p[s[1]]  x2 == p[s[2]]  x3 == p[s[3]]
           y1 == q[s[1]]  y2 == q[s[2]]  y3 == q[s[3]]
<1>8. /\ x1 \in Bits /\ x2 \in Bits /\ x3 \in Bits
      /\ y1 \in Bits /\ y2 \in Bits /\ y3 \in Bits
  BY <1>4, <1>6
<1>9. /\ Turned(p) = <<g1 * x1, g2 * x2, g3 * x3, 0>>
      /\ Turned(q) = <<g1 * y1, g2 * y2, g3 * y3, 0>>
      /\ Turned(m) = <<g1 * m[s[1]], g2 * m[s[2]], g3 * m[s[3]], m[4]>>
  BY <1>6
<1> HIDE DEF x1, x2, x3, y1, y2, y3, Turned
(* An order that is odd mirrors the cross product.                         *)
<1>10. \/ /\ e = 1
         /\ m[s[1]] = x2 * y3 - x3 * y2
         /\ m[s[2]] = x3 * y1 - x1 * y3
         /\ m[s[3]] = x1 * y2 - x2 * y1
      \/ /\ e = -1
         /\ m[s[1]] = x3 * y2 - x2 * y3
         /\ m[s[2]] = x1 * y3 - x3 * y1
         /\ m[s[3]] = x2 * y1 - x1 * y2
  <2>1. CASE s = <<1, 2, 3>>
    <3>1. /\ s[1] = 1 /\ s[2] = 2 /\ s[3] = 3
          /\ e = 1
          /\ x1 = p[1] /\ y1 = q[1]
          /\ x2 = p[2] /\ y2 = q[2]
          /\ x3 = p[3] /\ y3 = q[3]
      BY <2>1 DEF PermutationSign, x1, x2, x3, y1, y2, y3
    <3>2. /\ m[s[1]] = x2 * y3 - x3 * y2
          /\ m[s[2]] = x3 * y1 - x1 * y3
          /\ m[s[3]] = x1 * y2 - x2 * y1
      BY <1>7, <3>1, Zenon
    <3>3. QED
      BY <3>1, <3>2
  <2>2. CASE s = <<1, 3, 2>>
    <3>1. /\ s[1] = 1 /\ s[2] = 3 /\ s[3] = 2
          /\ e = -1
          /\ x1 = p[1] /\ y1 = q[1]
          /\ x2 = p[3] /\ y2 = q[3]
          /\ x3 = p[2] /\ y3 = q[2]
      BY <2>2 DEF PermutationSign, x1, x2, x3, y1, y2, y3
    <3>2. /\ m[s[1]] = x3 * y2 - x2 * y3
          /\ m[s[2]] = x1 * y3 - x3 * y1
          /\ m[s[3]] = x2 * y1 - x1 * y2
      BY <1>7, <3>1, Zenon
    <3>3. QED
      BY <3>1, <3>2
  <2>3. CASE s = <<2, 1, 3>>
    <3>1. /\ s[1] = 2 /\ s[2] = 1 /\ s[3] = 3
          /\ e = -1
          /\ x1 = p[2] /\ y1 = q[2]
          /\ x2 = p[1] /\ y2 = q[1]
          /\ x3 = p[3] /\ y3 = q[3]
      BY <2>3 DEF PermutationSign, x1, x2, x3, y1, y2, y3
    <3>2. /\ m[s[1]] = x3 * y2 - x2 * y3
          /\ m[s[2]] = x1 * y3 - x3 * y1
          /\ m[s[3]] = x2 * y1 - x1 * y2
      BY <1>7, <3>1, Zenon
    <3>3. QED
      BY <3>1, <3>2
  <2>4. CASE s = <<2, 3, 1>>
    <3>1. /\ s[1] = 2 /\ s[2] = 3 /\ s[3] = 1
          /\ e = 1
          /\ x1 = p[2] /\ y1 = q[2]
          /\ x2 = p[3] /\ y2 = q[3]
          /\ x3 = p[1] /\ y3 = q[1]
      BY <2>4 DEF PermutationSign, x1, x2, x3, y1, y2, y3
    <3>2. /\ m[s[1]] = x2 * y3 - x3 * y2
          /\ m[s[2]] = x3 * y1 - x1 * y3
          /\ m[s[3]] = x1 * y2 - x2 * y1
      BY <1>7, <3>1, Zenon
    <3>3. QED
      BY <3>1, <3>2
  <2>5. CASE s = <<3, 1, 2>>
    <3>1. /\ s[1] = 3 /\ s[2] = 1 /\ s[3] = 2
          /\ e = 1
          /\ x1 = p[3] /\ y1 = q[3]
          /\ x2 = p[1] /\ y2 = q[1]
          /\ x3 = p[2] /\ y3 = q[2]
      BY <2>5 DEF PermutationSign, x1, x2, x3, y1, y2, y3
    <3>2. /\ m[s[1]] = x2 * y3 - x3 * y2
          /\ m[s[2]] = x3 * y1 - x1 * y3
          /\ m[s[3]] = x1 * y2 - x2 * y1
      BY <1>7, <3>1, Zenon
    <3>3. QED
      BY <3>1, <3>2
  <2>6. CASE s = <<3, 2, 1>>
    <3>1. /\ s[1] = 3 /\ s[2] = 2 /\ s[3] = 1
          /\ e = -1
          /\ x1 = p[3] /\ y1 = q[3]
          /\ x2 = p[2] /\ y2 = q[2]
          /\ x3 = p[1] /\ y3 = q[1]
      BY <2>6 DEF PermutationSign, x1, x2, x3, y1, y2, y3
    <3>2. /\ m[s[1]] = x3 * y2 - x2 * y3
          /\ m[s[2]] = x1 * y3 - x3 * y1
          /\ m[s[3]] = x2 * y1 - x1 * y2
      BY <1>7, <3>1, Zenon
    <3>3. QED
      BY <3>1, <3>2
  <2>7. QED
    BY <2>1, <2>2, <2>3, <2>4, <2>5, <2>6 DEF Orders
<1>11. m[4] = 0 - x1 * y1 - x2 * y2 - x3 * y3
  <2>1. m[4] = 0 - p[1] * q[1] - p[2] * q[2] - p[3] * q[3]
    BY <1>7
  <2>2. \/ x1 = p[1] /\ y1 = q[1] /\ x2 = p[2] /\ y2 = q[2] /\ x3 = p[3] /\ y3 = q[3]
        \/ x1 = p[1] /\ y1 = q[1] /\ x2 = p[3] /\ y2 = q[3] /\ x3 = p[2] /\ y3 = q[2]
        \/ x1 = p[2] /\ y1 = q[2] /\ x2 = p[1] /\ y2 = q[1] /\ x3 = p[3] /\ y3 = q[3]
        \/ x1 = p[2] /\ y1 = q[2] /\ x2 = p[3] /\ y2 = q[3] /\ x3 = p[1] /\ y3 = q[1]
        \/ x1 = p[3] /\ y1 = q[3] /\ x2 = p[1] /\ y2 = q[1] /\ x3 = p[2] /\ y3 = q[2]
        \/ x1 = p[3] /\ y1 = q[3] /\ x2 = p[2] /\ y2 = q[2] /\ x3 = p[1] /\ y3 = q[1]
    BY DEF x1, x2, x3, y1, y2, y3, Orders
  <2>3. /\ x1 * y1 \in Int /\ x2 * y2 \in Int /\ x3 * y3 \in Int
    BY <1>8 DEF Bits
  <2>4. QED
    BY <2>1, <2>2, <2>3
<1>12. Multiply(Turned(p), Turned(q))
        = <<(g2 * g3) * (x2 * y3 - x3 * y2), (g1 * g3) * (x3 * y1 - x1 * y3),
            (g1 * g2) * (x1 * y2 - x2 * y1), 0 - x1 * y1 - x2 * y2 - x3 * y3>>
  <2> DEFINE u == Turned(p)
             v == Turned(q)
  <2>1. /\ u[1] = g1 * x1 /\ u[2] = g2 * x2 /\ u[3] = g3 * x3 /\ u[4] = 0
        /\ v[1] = g1 * y1 /\ v[2] = g2 * y2 /\ v[3] = g3 * y3 /\ v[4] = 0
    BY <1>9
  <2> HIDE DEF u, v
  <2>2. /\ u[2] * v[3] - u[3] * v[2] = (g2 * g3) * (x2 * y3 - x3 * y2)
        /\ u[3] * v[1] - u[1] * v[3] = (g3 * g1) * (x3 * y1 - x1 * y3)
        /\ u[1] * v[2] - u[2] * v[1] = (g1 * g2) * (x1 * y2 - x2 * y1)
        /\ u[1] * v[1] = x1 * y1 /\ u[2] * v[2] = x2 * y2 /\ u[3] * v[3] = x3 * y3
        /\ u[1] \in Int /\ u[2] \in Int /\ u[3] \in Int
        /\ v[1] \in Int /\ v[2] \in Int /\ v[3] \in Int
    BY <1>1, <1>8, <2>1, TurnedTerm
  <2>3. g3 * g1 = g1 * g3
    BY <1>1 DEF PlusMinus
  <2>4. Multiply(u, v)
          = <<u[2] * v[3] - u[3] * v[2], u[3] * v[1] - u[1] * v[3],
              u[1] * v[2] - u[2] * v[1], 0 - u[1] * v[1] - u[2] * v[2] - u[3] * v[3]>>
    BY <2>1, <2>2, PureProduct
  <2>5. QED
    BY <2>2, <2>3, <2>4, Zenon DEF u, v
<1>13. /\ (g2 * g3) * (x2 * y3 - x3 * y2) = g1 * m[s[1]]
       /\ (g1 * g3) * (x3 * y1 - x1 * y3) = g2 * m[s[2]]
       /\ (g1 * g2) * (x1 * y2 - x2 * y1) = g3 * m[s[3]]
  <2>1. (g2 * g3) * (x2 * y3 - x3 * y2) = g1 * m[s[1]]
    BY <1>1, <1>8, <1>10, <1>3, MirroredTerm
  <2>2. (g1 * g3) * (x3 * y1 - x1 * y3) = g2 * m[s[2]]
    BY <1>1, <1>8, <1>10, <1>3, MirroredTerm
  <2>3. (g1 * g2) * (x1 * y2 - x2 * y1) = g3 * m[s[3]]
    BY <1>1, <1>8, <1>10, <1>3, MirroredTerm
  <2>4. QED
    BY <2>1, <2>2, <2>3
<1>14. QED
  <2>1. Turned(m) = Multiply(Turned(p), Turned(q))
    BY <1>9, <1>12, <1>13, <1>11
  <2>2. \A i \in 1 .. 4 : p[i] \in Int /\ q[i] \in Int /\ m[i] \in Int
    <3>1. \A i \in 1 .. 4 : p[i] \in Int /\ q[i] \in Int
      BY <1>6 DEF Bits
    <3>2. m[1] \in Int /\ m[2] \in Int /\ m[3] \in Int /\ m[4] \in Int
      BY <1>7, <3>1
    <3>3. QED
      BY <3>1, <3>2
  <2>3. /\ ConvertRotation(basis, p) = Turned(p)
        /\ ConvertRotation(basis, q) = Turned(q)
        /\ ConvertRotation(basis, m) = Turned(m)
    BY <1>5, <2>2
  <2>4. QED
    BY <2>1, <2>3, Zenon DEF m

LEMMA ThreeNumbers ==
  ASSUME NEW f, f = [i \in 1 .. 3 |-> f[i]]
  PROVE  f = <<f[1], f[2], f[3]>>
OBVIOUS

(* Two axes multiply to the third, up to their signs and the order's.      *)
LEMMA AxesMultiply ==
  ASSUME NEW s \in Orders, NEW a \in PlusMinus, NEW b \in PlusMinus,
         NEW e, e = PermutationSign(s[1], s[2], s[3]),
         NEW up, \A i \in 1 .. 4 : up[i] = IF i # s[2] THEN 0 ELSE a,
         NEW forward, \A i \in 1 .. 4 : forward[i] = IF i # s[3] THEN 0 ELSE b
  PROVE  LET m == Multiply(up, forward)
         IN  m[s[1]] = e * a * b /\ m[s[2]] = 0 /\ m[s[3]] = 0
<1>1. /\ up[1] \in Int /\ up[2] \in Int /\ up[3] \in Int /\ up[4] = 0
      /\ forward[1] \in Int /\ forward[2] \in Int /\ forward[3] \in Int /\ forward[4] = 0
  <2>1. a \in Int /\ b \in Int /\ s[2] # 4 /\ s[3] # 4
    BY DEF PlusMinus, Orders
  <2>2. QED
    BY <2>1
<1>2. Multiply(up, forward)
        = <<up[2] * forward[3] - up[3] * forward[2], up[3] * forward[1] - up[1] * forward[3],
            up[1] * forward[2] - up[2] * forward[1],
            0 - up[1] * forward[1] - up[2] * forward[2] - up[3] * forward[3]>>
  BY <1>1, PureProduct
<1>3. QED
  <2>1. CASE s = <<1, 2, 3>>
    <3>1. /\ s[1] = 1 /\ s[2] = 2 /\ s[3] = 3 /\ e = 1
      BY <2>1 DEF PermutationSign
    <3>2. /\ up[1] = 0 /\ up[2] = a /\ up[3] = 0 /\ up[4] = 0
          /\ forward[1] = 0 /\ forward[2] = 0 /\ forward[3] = b /\ forward[4] = 0
      BY <3>1
    <3>3. QED
      BY <1>2, <3>1, <3>2 DEF PlusMinus
  <2>2. CASE s = <<1, 3, 2>>
    <3>1. /\ s[1] = 1 /\ s[2] = 3 /\ s[3] = 2 /\ e = -1
      BY <2>2 DEF PermutationSign
    <3>2. /\ up[1] = 0 /\ up[2] = 0 /\ up[3] = a /\ up[4] = 0
          /\ forward[1] = 0 /\ forward[2] = b /\ forward[3] = 0 /\ forward[4] = 0
      BY <3>1
    <3>3. QED
      BY <1>2, <3>1, <3>2 DEF PlusMinus
  <2>3. CASE s = <<2, 1, 3>>
    <3>1. /\ s[1] = 2 /\ s[2] = 1 /\ s[3] = 3 /\ e = -1
      BY <2>3 DEF PermutationSign
    <3>2. /\ up[1] = a /\ up[2] = 0 /\ up[3] = 0 /\ up[4] = 0
          /\ forward[1] = 0 /\ forward[2] = 0 /\ forward[3] = b /\ forward[4] = 0
      BY <3>1
    <3>3. QED
      BY <1>2, <3>1, <3>2 DEF PlusMinus
  <2>4. CASE s = <<2, 3, 1>>
    <3>1. /\ s[1] = 2 /\ s[2] = 3 /\ s[3] = 1 /\ e = 1
      BY <2>4 DEF PermutationSign
    <3>2. /\ up[1] = 0 /\ up[2] = 0 /\ up[3] = a /\ up[4] = 0
          /\ forward[1] = b /\ forward[2] = 0 /\ forward[3] = 0 /\ forward[4] = 0
      BY <3>1
    <3>3. QED
      BY <1>2, <3>1, <3>2 DEF PlusMinus
  <2>5. CASE s = <<3, 1, 2>>
    <3>1. /\ s[1] = 3 /\ s[2] = 1 /\ s[3] = 2 /\ e = 1
      BY <2>5 DEF PermutationSign
    <3>2. /\ up[1] = a /\ up[2] = 0 /\ up[3] = 0 /\ up[4] = 0
          /\ forward[1] = 0 /\ forward[2] = b /\ forward[3] = 0 /\ forward[4] = 0
      BY <3>1
    <3>3. QED
      BY <1>2, <3>1, <3>2 DEF PlusMinus
  <2>6. CASE s = <<3, 2, 1>>
    <3>1. /\ s[1] = 3 /\ s[2] = 2 /\ s[3] = 1 /\ e = -1
      BY <2>6 DEF PermutationSign
    <3>2. /\ up[1] = 0 /\ up[2] = a /\ up[3] = 0 /\ up[4] = 0
          /\ forward[1] = b /\ forward[2] = 0 /\ forward[3] = 0 /\ forward[4] = 0
      BY <3>1
    <3>3. QED
      BY <1>2, <3>1, <3>2 DEF PlusMinus
  <2>7. QED
    BY <2>1, <2>2, <2>3, <2>4, <2>5, <2>6 DEF Orders

LEMMA StatedBasis ==
  ASSUME NEW f, f.handedness \in {"right", "left"},
         f.upAxis \in Axes, f.forwardAxis \in Axes,
         f.upAxis.component # f.forwardAxis.component
  PROVE  LET basis == MakeCanonicalBasis(f)
         IN  /\ ConvertPosition(basis, AxisVector(f.upAxis)) = <<0, 1, 0>>
             /\ ConvertPosition(basis, AxisVector(f.forwardAxis)) = <<0, 0, 1>>
             /\ ConvertPosition(basis, Multiply(AxisVector(f.upAxis), AxisVector(f.forwardAxis)))
                  = <<IF f.handedness = "right" THEN 1 ELSE -1, 0, 0>>
             /\ \A p, q \in Units :
                  Multiply(ConvertRotation(basis, p), ConvertRotation(basis, q))
                    = ConvertRotation(basis, Multiply(p, q))
<1> DEFINE up      == f.upAxis
           forward == f.forwardAxis
           side    == 6 - up.component - forward.component
           s       == <<side, up.component, forward.component>>
           a       == Sign(up.negative)
           b       == Sign(forward.negative)
           d       == IF f.handedness = "right" THEN 1 ELSE -1
           e       == PermutationSign(s[1], s[2], s[3])
           basis   == MakeCanonicalBasis(f)
           m       == Multiply(AxisVector(up), AxisVector(forward))
<1>1. /\ up.component \in 1 .. 3 /\ up.negative \in BOOLEAN
      /\ forward.component \in 1 .. 3 /\ forward.negative \in BOOLEAN
  BY DEF Axes
<1>2. s \in Orders
  BY <1>1 DEF Orders
<1>3. a \in PlusMinus /\ b \in PlusMinus /\ d \in PlusMinus
  BY DEF Sign, PlusMinus
<1>4. e \in PlusMinus
  BY <1>1 DEF PermutationSign, PlusMinus
<1>5. basis = [component |-> s, sign |-> <<d * e * a * b, a, b>>, determinant |-> d]
  BY DEF MakeCanonicalBasis
<1>6. \A i \in 1 .. 4 : /\ AxisVector(up)[i] = IF i # s[2] THEN 0 ELSE a
                        /\ AxisVector(forward)[i] = IF i # s[3] THEN 0 ELSE b
  BY DEF AxisVector
<1>7. s[1] \in 1 .. 3 /\ s[2] \in 1 .. 3 /\ s[3] \in 1 .. 3
        /\ s[1] # s[2] /\ s[1] # s[3] /\ s[2] # s[3]
  BY <1>2 DEF Orders
<1>8. m[s[1]] = e * a * b /\ m[s[2]] = 0 /\ m[s[3]] = 0
  BY <1>2, <1>3, <1>6, AxesMultiply
<1> HIDE DEF s, a, b, d, e, basis, m, up, forward, side
<1>9. ASSUME NEW v
      PROVE  ConvertPosition(basis, v)
               = <<(d * e * a * b) * v[s[1]], a * v[s[2]], b * v[s[3]]>>
  <2>1. /\ basis.sign[1] = d * e * a * b /\ basis.sign[2] = a /\ basis.sign[3] = b
        /\ basis.component = s
    BY <1>5
  <2>2. ConvertPosition(basis, v) = [i \in 1 .. 3 |-> ConvertPosition(basis, v)[i]]
    BY DEF ConvertPosition
  <2>3. /\ ConvertPosition(basis, v)[1] = basis.sign[1] * v[basis.component[1]]
        /\ ConvertPosition(basis, v)[2] = basis.sign[2] * v[basis.component[2]]
        /\ ConvertPosition(basis, v)[3] = basis.sign[3] * v[basis.component[3]]
    BY DEF ConvertPosition
  <2>4. QED
    BY <2>1, <2>2, <2>3, ThreeNumbers
<1>10. (d * e * a * b) \in Int /\ (d * e * a * b) * (e * a * b) = d /\ a * a = 1 /\ b * b = 1
  BY <1>3, <1>4 DEF PlusMinus
<1>11. ConvertPosition(basis, AxisVector(up)) = <<0, 1, 0>>
  <2>1. AxisVector(up)[s[1]] = 0 /\ AxisVector(up)[s[2]] = a /\ AxisVector(up)[s[3]] = 0
    BY <1>6, <1>7
  <2>2. QED
    BY <1>3, <1>9, <1>10, <2>1 DEF PlusMinus
<1>12. ConvertPosition(basis, AxisVector(forward)) = <<0, 0, 1>>
  <2>1. /\ AxisVector(forward)[s[1]] = 0 /\ AxisVector(forward)[s[2]] = 0
        /\ AxisVector(forward)[s[3]] = b
    BY <1>6, <1>7
  <2>2. QED
    BY <1>3, <1>9, <1>10, <2>1 DEF PlusMinus
<1>13. ConvertPosition(basis, m) = <<d, 0, 0>>
  BY <1>3, <1>8, <1>9, <1>10 DEF PlusMinus
<1>14. \A p, q \in Units : Multiply(ConvertRotation(basis, p), ConvertRotation(basis, q))
                             = ConvertRotation(basis, Multiply(p, q))
  BY <1>2, <1>3, <1>4, <1>5, HandedBasisTurnsProducts DEF e
<1>15. QED
  BY <1>11, <1>12, <1>13, <1>14 DEF basis, m, up, forward, d

-----------------------------------------------------------------------------
(* The inductive invariant: what each stage has established.               *)

IsSource(source) == source \in Imports \ {None}

ProfileStands ==
  profile # None =>
    ProfileIsValid(profile) /\ profile.upAxis \in Axes /\ profile.forwardAxis \in Axes

ConversionStands ==
  /\ stage = "imported" => IsSource(imported)
  /\ stage = "converted" =>
       /\ IsSource(imported)
       /\ ConversionRefusal(imported.joints, imported.animation, profile) = None
       /\ conversion = Converted(imported.joints, imported.animation, profile)

ConvertInv == ProfileStands /\ ConversionStands

LEMMA MinProperties ==
  ASSUME NEW T, T \subseteq Nat, T # {}
  PROVE  Min(T) \in T /\ \A n \in T : Min(T) <= n
BY SmallestIndex DEF Min

(* The first hit is one of the files the search path holds.                *)
LEMMA LocatedIsInTheLibrary ==
  ASSUME NEW asked, NEW library \in Libraries, Located(asked, library) # None
  PROVE  /\ Located(asked, library).upAxis \in Axes \cup {None}
         /\ Located(asked, library).forwardAxis \in Axes \cup {None}
<1> DEFINE hits == {i \in DOMAIN library : library[i] # None /\ (asked.isPath => i = 1)}
<1>1. hits # {} /\ hits \subseteq Nat
  BY LibrariesAssumption DEF Located
<1>2. Min(hits) \in hits
  <2> HIDE DEF hits
  <2> QED
    BY <1>1, MinProperties
<1>3. Located(asked, library) = library[Min(hits)]
  BY <1>1 DEF Located
<1>4. QED
  BY <1>2, <1>3, LibrariesAssumption

LEMMA InitConvertInv == Init => ConvertInv
BY DEF Init, ConvertInv, ProfileStands, ConversionStands

LEMMA NextConvertInv == ConvertInv /\ [Next]_convertVars => ConvertInv'
<1> SUFFICES ASSUME ConvertInv, [Next]_convertVars PROVE ConvertInv'
  OBVIOUS
<1> USE DEF ConvertInv
<1>1. ASSUME NEW asked \in Requests, NEW library \in Libraries, ReadProfile(asked, library)
      PROVE  ConvertInv'
  <2>1. stage' \in {"profiled", "done"}
    BY <1>1 DEF ReadProfile, Exit
  <2>2. profile' = profile \/ /\ profile' = Located(asked, library)
                              /\ profile' # None
                              /\ ProfileIsValid(profile')
    BY <1>1 DEF ReadProfile, Exit
  <2>3. ProfileStands'
    <3>1. CASE profile' = profile
      BY <3>1 DEF ProfileStands
    <3>2. CASE profile' = Located(asked, library) /\ profile' # None /\ ProfileIsValid(profile')
      <4>1. /\ profile'.upAxis \in Axes \cup {None} /\ profile'.forwardAxis \in Axes \cup {None}
        BY <3>2, LocatedIsInTheLibrary
      <4>2. profile'.upAxis # None /\ profile'.forwardAxis # None
        BY <3>2 DEF ProfileIsValid, StatesItsConventions
      <4>3. QED
        BY <3>2, <4>1, <4>2 DEF ProfileStands
    <3>3. QED
      BY <2>2, <3>1, <3>2
  <2>4. QED
    BY <2>1, <2>3 DEF ConversionStands
<1>2. ASSUME NEW source \in Imports, ReadInput(source)
      PROVE  ConvertInv'
  BY <1>2 DEF ReadInput, Exit, ProfileStands, ConversionStands, IsSource
<1>3. ASSUME Convert
      PROVE  ConvertInv'
  BY <1>3 DEF Convert, Exit, ProfileStands, ConversionStands, IsSource
<1>4. ASSUME NEW writable \in BOOLEAN, Write(writable)
      PROVE  ConvertInv'
  BY <1>4 DEF Write, Exit, ProfileStands, ConversionStands
<1>5. CASE UNCHANGED convertVars
  BY <1>5 DEF convertVars, ProfileStands, ConversionStands
<1>6. QED
  BY <1>1, <1>2, <1>3, <1>4, <1>5 DEF Next

LEMMA ConvertAlways == Spec => []ConvertInv
BY InitConvertInv, NextConvertInv, PTL DEF Spec

(* Whatever conventions a profile states, the basis made from it puts up   *)
(* and forward on +Y and +Z, mirrors what is left-handed, and turns a      *)
(* product of rotations as it turns each of them                           *)
(* (CanonicalConversion.cpp:291).                                          *)
THEOREM ConvertBasisIsHanded == Spec => []BasisIsAHandedIsometry
<1>1. ConvertInv => BasisIsAHandedIsometry
  <2> SUFFICES ASSUME ConvertInv, profile # None PROVE BasisIsAHandedIsometry
    BY DEF BasisIsAHandedIsometry
  <2>1. /\ profile.handedness \in {"right", "left"}
        /\ profile.upAxis \in Axes /\ profile.forwardAxis \in Axes
        /\ profile.upAxis.component # profile.forwardAxis.component
    BY DEF ConvertInv, ProfileStands, ProfileIsValid, StatesItsConventions
  <2>2. QED
    BY <2>1, StatedBasis DEF BasisIsAHandedIsometry
<1>2. QED
  BY <1>1, ConvertAlways, PTL

-----------------------------------------------------------------------------
(* The walk from a joint along its parents.                                *)

Above(joints, j) == IF j \in DOMAIN joints THEN joints[j].parent ELSE j

WalkUpTo(joints, j, n, up) ==
  up = [k \in 0 .. n |-> IF k = 0 THEN j ELSE Above(joints, up[k - 1])]

(* A walk of any length exists: the shortest that did not would continue   *)
(* the one before it.                                                      *)
LEMMA WalkExists ==
  ASSUME NEW joints, NEW j, NEW n \in Nat
  PROVE  \E up : WalkUpTo(joints, j, n, up)
<1> DEFINE Stuck == {k \in Nat : ~ \E up : WalkUpTo(joints, j, k, up)}
<1>1. SUFFICES ASSUME Stuck # {} PROVE FALSE
  OBVIOUS
<1>2. PICK k \in Stuck : \A m \in Stuck : k <= m
  <2> HIDE DEF Stuck
  <2> SUFFICES Stuck \subseteq Nat
    BY <1>1, SmallestIndex
  <2> QED
    BY DEF Stuck
<1>3. CASE k = 0
  <2> DEFINE one == [i \in 0 .. 0 |-> j]
  <2>1. WalkUpTo(joints, j, 0, one)
    BY DEF WalkUpTo
  <2>2. QED
    BY <1>2, <1>3, <2>1
<1>4. CASE k # 0
  <2>1. k - 1 \in Nat /\ k - 1 \notin Stuck
    BY <1>2, <1>4
  <2>2. PICK up : WalkUpTo(joints, j, k - 1, up)
    BY <2>1
  <2> DEFINE longer == [i \in 0 .. k |-> IF i < k THEN up[i] ELSE Above(joints, up[k - 1])]
  <2>3. \A i \in 0 .. k : longer[i] = IF i = 0 THEN j ELSE Above(joints, longer[i - 1])
    <3> SUFFICES ASSUME NEW i \in 0 .. k
                 PROVE  longer[i] = IF i = 0 THEN j ELSE Above(joints, longer[i - 1])
      OBVIOUS
    <3>1. CASE i = k
      <4>1. longer[k] = Above(joints, up[k - 1]) /\ longer[k - 1] = up[k - 1]
        BY <2>1
      <4>2. QED
        BY <1>4, <3>1, <4>1
    <3>2. CASE i # k
      <4>1. i \in 0 .. k - 1 /\ longer[i] = up[i] /\ (i # 0 => longer[i - 1] = up[i - 1])
        BY <2>1, <3>2
      <4>2. up[i] = IF i = 0 THEN j ELSE Above(joints, up[i - 1])
        BY <2>2, <4>1 DEF WalkUpTo
      <4>3. QED
        BY <4>1, <4>2
    <3>3. QED
      BY <3>1, <3>2
  <2>4. WalkUpTo(joints, j, k, longer)
    <3>1. longer = [i \in 0 .. k |-> longer[i]]
      OBVIOUS
    <3>2. [i \in 0 .. k |-> longer[i]]
            = [i \in 0 .. k |-> IF i = 0 THEN j ELSE Above(joints, longer[i - 1])]
      BY <2>3
    <3> HIDE DEF longer
    <3>3. QED
      BY <3>1, <3>2 DEF WalkUpTo
  <2>5. QED
    BY <1>2, <2>4
<1>5. QED
  BY <1>3, <1>4

LEMMA ParentWalkSteps ==
  ASSUME NEW joints, NEW j, Len(joints) \in Nat
  PROVE  WalkUpTo(joints, j, Len(joints) + 1, ParentWalk(joints, j))
<1>1. \E up : WalkUpTo(joints, j, Len(joints) + 1, up)
  <2>1. Len(joints) + 1 \in Nat
    OBVIOUS
  <2>2. QED
    BY <2>1, WalkExists, Zenon
<1>2. QED
  BY <1>1 DEF ParentWalk, WalkUpTo, Above

IsRig(joints) ==
  /\ Len(joints) \in Nat
  /\ DOMAIN joints = 1 .. Len(joints)
  /\ SkeletonIsValid(joints)

(* In a valid rig every step of the walk comes closer to the root, which   *)
(* is the rig's length away at most.                                       *)
LEMMA ParentWalkClimbs ==
  ASSUME NEW joints, IsRig(joints), NEW j \in DOMAIN joints,
         NEW k \in 0 .. Len(joints)
  PROVE  ParentWalk(joints, j)[k] \in 0 .. Len(joints) - k
<1> DEFINE n == Len(joints)
           up == ParentWalk(joints, j)
           Stray == {i \in 0 .. n : up[i] \notin 0 .. n - i}
<1>1. n \in Nat /\ DOMAIN joints = 1 .. n /\ j \in 1 .. n
  BY DEF IsRig
<1>2. \A i \in 0 .. n + 1 : up[i] = IF i = 0 THEN j ELSE Above(joints, up[i - 1])
  <2>1. up = [i \in 0 .. n + 1 |-> IF i = 0 THEN j ELSE Above(joints, up[i - 1])]
    BY <1>1, ParentWalkSteps DEF WalkUpTo
  <2> HIDE DEF up
  <2>2. QED
    BY <2>1
<1>3. joints[1].parent = 0 /\ \A i \in 2 .. n : joints[i].parent \in 1 .. i - 1
  <2>1. joints[1].parent = 0 /\ \A i \in DOMAIN joints : JointIsValid(joints, i)
    BY DEF IsRig, SkeletonIsValid
  <2>2. ASSUME NEW i \in 2 .. n
        PROVE  joints[i].parent \in 1 .. i - 1
    <3>1. i \in DOMAIN joints /\ i > 1
      BY <1>1
    <3>2. JointIsValid(joints, i)
      BY <2>1, <3>1
    <3>3. QED
      BY <3>1, <3>2 DEF JointIsValid
  <2>3. QED
    BY <2>1, <2>2
<1> HIDE DEF n, up
<1>4. SUFFICES ASSUME Stray # {} PROVE FALSE
  BY <1>1 DEF n, up
<1>5. PICK m \in Stray : \A i \in Stray : m <= i
  <2>1. Stray \subseteq Nat
    BY <1>1
  <2> HIDE DEF Stray
  <2>2. QED
    BY <1>4, <2>1, SmallestIndex
<1>6. m # 0 /\ m \in 1 .. n
  BY <1>1, <1>2, <1>5
<1>7. up[m - 1] \in 0 .. n - (m - 1)
  <2>1. m - 1 \in 0 .. n /\ m - 1 \notin Stray
    BY <1>1, <1>5, <1>6
  <2>2. QED
    BY <2>1
<1>8. up[m] = Above(joints, up[m - 1])
  BY <1>1, <1>2, <1>6
<1>9. up[m] \in 0 .. n - m
  <2>1. CASE up[m - 1] = 0
    BY <1>1, <1>6, <1>8, <2>1 DEF Above
  <2>2. CASE up[m - 1] # 0
    <3>1. up[m - 1] \in 1 .. n /\ up[m] = joints[up[m - 1]].parent
      BY <1>1, <1>6, <1>7, <1>8, <2>2 DEF Above
    <3>2. joints[up[m - 1]].parent \in 0 .. up[m - 1] - 1
      BY <1>1, <1>3, <3>1
    <3>3. QED
      BY <1>1, <1>6, <1>7, <3>1, <3>2
  <2>3. QED
    BY <2>1, <2>2
<1>10. QED
  BY <1>5, <1>9

(* The path of a bound bone is a list of joints of the rig.                *)
LEMMA PathIsInTheRig ==
  ASSUME NEW joints, IsRig(joints), NEW j \in DOMAIN joints, NEW bound
  PROVE  LET path == PathFromNearestBoundAncestor(joints, j, bound)
         IN  \A i \in DOMAIN path : path[i] \in DOMAIN joints
<1> DEFINE n      == Len(joints)
           up     == ParentWalk(joints, j)
           stops  == {k \in 1 .. n : up[k] \in bound \cup {0}}
           length == Min(stops)
<1>1. n \in Nat /\ DOMAIN joints = 1 .. n /\ j \in 1 .. n
  BY DEF IsRig
<1>2. up[0] = j
  <2>1. up = [i \in 0 .. n + 1 |-> IF i = 0 THEN j ELSE Above(joints, up[i - 1])]
    BY <1>1, ParentWalkSteps DEF WalkUpTo
  <2> HIDE DEF up
  <2>2. QED
    BY <1>1, <2>1
<1>3. \A k \in 0 .. n : up[k] \in 0 .. n - k
  BY ParentWalkClimbs
<1> HIDE DEF n, up
<1>4. n \in stops
  BY <1>1, <1>3
<1>5. length \in stops /\ \A k \in stops : length <= k
  <2>1. stops \subseteq Nat
    BY <1>1
  <2> HIDE DEF stops
  <2>2. QED
    BY <1>4, <2>1, MinProperties
<1>6. ASSUME NEW i \in 1 .. length
      PROVE  up[length - i] \in 1 .. n
  <2>1. length - i \in 0 .. n
    BY <1>1, <1>5
  <2>2. CASE length - i = 0
    BY <1>1, <1>2, <2>2
  <2>3. CASE length - i # 0
    <3>1. length - i \in 1 .. n /\ length - i \notin stops
      BY <1>1, <1>5, <2>1, <2>3
    <3>2. up[length - i] # 0
      BY <3>1
    <3>3. QED
      BY <1>1, <1>3, <2>1, <3>2
  <2>4. QED
    BY <2>2, <2>3
<1>7. PathFromNearestBoundAncestor(joints, j, bound) = [i \in 1 .. length |-> up[length - i]]
  BY DEF PathFromNearestBoundAncestor, up, n
<1>8. QED
  BY <1>1, <1>6, <1>7

-----------------------------------------------------------------------------
(* What a crossing that is not refused works with.                         *)

(* The refusals are names; none of them is the None of a match that holds. *)
LEMMA NothingRefused ==
  ASSUME NEW joints, NEW animation, NEW f,
         ConversionRefusal(joints, animation, f) = None
  PROVE  LET refusal == MatchSourceProfile(f, joints).refusal
         IN  /\ ProfileIsValid(f)
             /\ SkeletonIsValid(joints)
             /\ Finds(f, joints, 2 .. Len(joints)) = {}
             /\ \A m \in Finds(f, joints, {0}) : ~m.required
             /\ LET bound == {Binding(joints, m) : m \in Finds(f, joints, {1})}
                IN  \A b \in bound : SitsUnderItsAncestor(joints, bound, b)
<1>1. MatchSourceProfile(f, joints).refusal = None
  BY RefusalAssumption DEF ConversionRefusal
<1>2. QED
  BY <1>1, RefusalAssumption DEF MatchSourceProfile

LEMMA BoundIsInTheRig ==
  ASSUME NEW joints, NEW f, NEW bone,
         NEW b \in MatchSourceProfile(f, joints).bound
  PROVE  b.joint \in DOMAIN joints
<1>1. PICK m \in Finds(f, joints, {1}) : b = Binding(joints, m)
  BY DEF MatchSourceProfile
<1>2. JointsNamed(joints, m.sourceName) # {}
  BY <1>1, FS_EmptySet DEF Finds
<1>3. b.joint \in JointsNamed(joints, m.sourceName)
  BY <1>1, <1>2 DEF Binding
<1>4. QED
  BY <1>3 DEF JointsNamed

LEMMA JointBoundIsInTheRig ==
  ASSUME NEW joints, NEW f, NEW bone,
         bone \in {b.bone : b \in MatchSourceProfile(f, joints).bound}
  PROVE  JointBound(MatchSourceProfile(f, joints).bound, bone) \in DOMAIN joints
<1> DEFINE bound == MatchSourceProfile(f, joints).bound
           b     == CHOOSE x \in bound : x.bone = bone
<1>1. b \in bound
  <2> HIDE DEF bound
  <2>1. \E x \in bound : x.bone = bone
    BY DEF bound
  <2>2. QED
    BY <2>1
<1>2. b.joint \in DOMAIN joints
  BY <1>1, BoundIsInTheRig
<1>3. QED
  BY <1>2 DEF JointBound

(* A mapping of the hips that is required is found, and found once.        *)
LEMMA HipsAreBound ==
  ASSUME NEW joints, Len(joints) \in Nat, DOMAIN joints = 1 .. Len(joints),
         NEW animation, NEW f, ConversionRefusal(joints, animation, f) = None
  PROVE  Hips \in {b.bone : b \in MatchSourceProfile(f, joints).bound}
<1>1. PICK i \in DOMAIN f.joints : f.joints[i].bone = Hips /\ f.joints[i].required
  BY NothingRefused DEF ProfileIsValid
<1> DEFINE m     == f.joints[i]
           named == JointsNamed(joints, m.sourceName)
<1>2. m \in Range(f.joints)
  BY DEF Range
<1>3. IsFiniteSet(named) /\ Cardinality(named) \in 0 .. Len(joints)
  <2>1. named \subseteq 1 .. Len(joints)
    BY DEF JointsNamed
  <2> HIDE DEF named
  <2>2. QED
    BY <2>1, IndexSetIsSmall
<1>4. Cardinality(named) \notin 2 .. Len(joints) /\ Cardinality(named) # 0
  BY <1>1, <1>2, NothingRefused DEF Finds
<1>5. Cardinality(named) = 1
  BY <1>3, <1>4
<1>6. m \in Finds(f, joints, {1})
  BY <1>2, <1>5 DEF Finds
<1>7. Binding(joints, m) \in MatchSourceProfile(f, joints).bound
  BY <1>6 DEF MatchSourceProfile
<1>8. Binding(joints, m).bone = Hips
  BY <1>1 DEF Binding
<1>9. QED
  BY <1>7, <1>8

LEMMA SameOffsetsPlaceAlike ==
  ASSUME NEW path, NEW rotations, NEW first, NEW second,
         \A i \in DOMAIN path : first[path[i]] = second[path[i]]
  PROVE  Placed(path, rotations, first) = Placed(path, rotations, second)
BY DEF Placed

(* A rest taken from the first frame is that frame, in the bones' turns    *)
(* and in where the root path puts the body, whatever the rig, the clip    *)
(* and the other policies are (CanonicalConversion.cpp:661).               *)
THEOREM ConvertRestIsFirstFrame == Spec => []FirstFrameRestIsTheFirstFrame
<1>1. ConvertInv => FirstFrameRestIsTheFirstFrame
  <2> SUFFICES ASSUME ConvertInv, IsConverted, profile.restPose = "first-frame",
                      conversion.samples # << >>
               PROVE  /\ conversion.rest.localRotations = conversion.samples[1].localRotations
                      /\ conversion.samples[1].worldPosition # << >> =>
                           conversion.rest.localTranslations[Hips]
                             = conversion.samples[1].worldPosition
    BY DEF FirstFrameRestIsTheFirstFrame
  <2> DEFINE joints    == imported.joints
             animation == imported.animation
             match     == MatchSourceProfile(profile, joints)
             c         == Crossing(match, joints, animation, profile)
             frames    == animation.frameCount
             turns     == [j \in DOMAIN joints |->
                             IF DropsRoot(c, j) THEN Identity ELSE SourceRotationAt(c, j, 1)]
             moves     == [j \in DOMAIN joints |-> LocalTranslation(c, j, 1, TRUE)]
             offsets   == [j \in DOMAIN joints |-> RestOffset(c, j)]
  <2>1. /\ IsSource(imported)
        /\ ConversionRefusal(joints, animation, profile) = None
        /\ conversion = Converted(joints, animation, profile)
    BY DEF ConvertInv, ConversionStands, IsConverted
  <2>2. /\ Len(joints) \in Nat /\ DOMAIN joints = 1 .. Len(joints) /\ frames \in Nat
        /\ SkeletonIsValid(joints)
    BY <2>1, ImportsAssumption, NothingRefused DEF IsSource
  <2>3. /\ c.joints = joints /\ c.animation = animation /\ c.profile = profile
        /\ c.present = {b.bone : b \in match.bound}
        /\ \A bone \in c.present :
             c.path[bone] = PathFromNearestBoundAncestor(joints, c.jointOf[bone], Range(c.jointOf))
        /\ \A bone \in c.present : c.jointOf[bone] = JointBound(match.bound, bone)
    BY DEF Crossing
  <2>4. conversion.rest = RestPose(c)
          /\ conversion.samples = [frame \in 1 .. frames |-> PoseAt(c, frame)]
    BY <2>1 DEF Converted
  <2>5. 1 \in 1 .. frames /\ conversion.samples[1] = PoseAt(c, 1)
    <3>1. CASE frames = 0
      BY <2>4, <3>1
    <3>2. CASE frames # 0
      BY <2>2, <2>4, <3>2
    <3>3. QED
      BY <3>1, <3>2
  <2>6. Hips \in c.present
    BY <2>1, <2>2, <2>3, HipsAreBound
  <2>7. \A i \in DOMAIN RootPath(c) : RootPath(c)[i] \in DOMAIN joints
    <3>1. c.jointOf[Hips] \in DOMAIN joints
      <4>1. c.jointOf[Hips] = JointBound(match.bound, Hips)
        BY <2>3, <2>6
      <4>2. Hips \in {b.bone : b \in match.bound}
        BY <2>3, <2>6
      <4> HIDE DEF c, joints
      <4>3. QED
        BY <4>1, <4>2, JointBoundIsInTheRig
    <3>2. RootPath(c) = PathFromNearestBoundAncestor(joints, c.jointOf[Hips], Range(c.jointOf))
      BY <2>3, <2>6 DEF RootPath
    <3>3. IsRig(joints)
      BY <2>2 DEF IsRig
    <3> HIDE DEF joints, c
    <3>4. QED
      BY <3>1, <3>2, <3>3, PathIsInTheRig
  <2> HIDE DEF c, joints, frames, match
  <2>8. [j \in DOMAIN joints |-> RestRotation(c, j)] = turns
    BY <2>2, <2>3, <2>5 DEF RestRotation, frames
  <2>9. \A i \in DOMAIN RootPath(c) : offsets[RootPath(c)[i]] = moves[RootPath(c)[i]]
    <3> SUFFICES ASSUME NEW i \in DOMAIN RootPath(c)
                 PROVE  offsets[RootPath(c)[i]] = moves[RootPath(c)[i]]
      OBVIOUS
    <3> DEFINE j == RootPath(c)[i]
    <3>1. j \in DOMAIN joints /\ j \in Range(RootPath(c))
      BY <2>7 DEF Range
    <3>2. RestOffset(c, j) = LocalTranslation(c, j, 1, TRUE)
      BY <2>2, <2>3, <2>5, <3>1 DEF RestOffset, LocalTranslation, frames
    <3> HIDE DEF j
    <3>3. QED
      BY <3>1, <3>2 DEF j
  <2>10. /\ conversion.rest.localRotations
              = [bone \in c.present |-> Composed(c.path[bone], turns)]
         /\ conversion.rest.localTranslations[Hips] = Placed(RootPath(c), turns, offsets)
    BY <2>3, <2>4, <2>6, <2>8 DEF RestPose, RootPath
  <2>11. /\ conversion.samples[1].localRotations
              = [bone \in c.present |-> Composed(c.path[bone], turns)]
         /\ conversion.samples[1].worldPosition # << >> =>
              conversion.samples[1].worldPosition = Placed(RootPath(c), turns, moves)
    BY <2>3, <2>5 DEF PoseAt
  <2>12. Placed(RootPath(c), turns, offsets) = Placed(RootPath(c), turns, moves)
    <3> HIDE DEF turns, offsets, moves
    <3>1. QED
      BY <2>9, SameOffsetsPlaceAlike
  <2>13. QED
    BY <2>10, <2>11, <2>12
<1>2. QED
  BY <1>1, ConvertAlways, PTL

-----------------------------------------------------------------------------
(* Diagnostics.                                                            *)

Listing(list, reports) == Range(list) \cup Range(reports)

LEMMA SequenceOver ==
  ASSUME NEW seq, IsSequence(seq)
  PROVE  /\ seq \in Seq(Range(seq))
         /\ Len(seq) \in Nat /\ DOMAIN seq = 1 .. Len(seq)
         /\ \A i \in DOMAIN seq : seq[i] \in Range(seq)
<1>1. seq \in Seq(Range(seq))
  BY DEF IsSequence
<1> QED
  BY <1>1 DEF Range

LEMMA RangeIsASequence ==
  ASSUME NEW R, NEW seq \in Seq(R)
  PROVE  IsSequence(seq) /\ Range(seq) \subseteq R
<1>1. seq = [i \in 1 .. Len(seq) |-> seq[i]] /\ Len(seq) \in Nat
  OBVIOUS
<1>2. Range(seq) \subseteq R
  BY DEF Range
<1>3. IsSequence(seq)
  BY <1>1, ListIsASequence
<1> QED
  BY <1>2, <1>3

LEMMA ReportedAddsOne ==
  ASSUME NEW R, NEW list \in Seq(R), NEW report \in R
  PROVE  /\ Reported(list, report) \in Seq(R)
         /\ Range(Reported(list, report)) = Range(list) \cup {report}
<1>1. CASE report \in Range(list)
  BY <1>1 DEF Reported
<1>2. CASE report \notin Range(list)
  <2>1. Reported(list, report) = Append(list, report)
    BY <1>2 DEF Reported
  <2>2. Append(list, report) \in Seq(R) /\ Len(Append(list, report)) = Len(list) + 1
    OBVIOUS
  <2>3. \A i \in 1 .. Len(list) : Append(list, report)[i] = list[i]
    OBVIOUS
  <2>4. Append(list, report)[Len(list) + 1] = report
    OBVIOUS
  <2>5. Range(Append(list, report)) = Range(list) \cup {report}
    BY <2>2, <2>3, <2>4 DEF Range
  <2> QED
    BY <2>1, <2>2, <2>5
<1> QED
  BY <1>1, <1>2

IsReporting(f, list, reports) ==
  f = [n \in 0 .. Len(reports) |-> IF n = 0 THEN list ELSE Reported(f[n - 1], reports[n])]

Reporting(list, reports) == CHOOSE f : IsReporting(f, list, reports)

LEMMA ReportingExists ==
  ASSUME NEW R, NEW list \in Seq(R), NEW reports \in Seq(R)
  PROVE  /\ IsReporting(Reporting(list, reports), list, reports)
         /\ Reporting(list, reports) \in [0 .. Len(reports) -> Seq(R)]
<1> DEFINE n    == Len(reports)
           step == [k \in 1 .. n |-> [l \in Seq(R) |-> Reported(l, reports[k])]]
<1>1. n \in Nat /\ \A k \in 1 .. n : reports[k] \in R
  OBVIOUS
<1>2. step \in [1 .. n -> [Seq(R) -> Seq(R)]]
  BY <1>1, ReportedAddsOne
<1>3. PICK f \in [0 .. n -> Seq(R)] : GoesBy(f, n, list, step)
  <2> HIDE DEF step, n
  <2> QED
    BY <1>1, <1>2, StepsExist
<1>4. \A k \in 1 .. n : step[k][f[k - 1]] = Reported(f[k - 1], reports[k])
  <2> SUFFICES ASSUME NEW k \in 1 .. n
               PROVE  step[k][f[k - 1]] = Reported(f[k - 1], reports[k])
    OBVIOUS
  <2>1. k - 1 \in 0 .. n
    BY <1>1
  <2>2. f[k - 1] \in Seq(R)
    BY <1>3, <2>1
  <2> QED
    BY <2>2
<1>5. \A k \in 0 .. n : f[k] = IF k = 0 THEN list ELSE Reported(f[k - 1], reports[k])
  <2> SUFFICES ASSUME NEW k \in 0 .. n
               PROVE  f[k] = IF k = 0 THEN list ELSE Reported(f[k - 1], reports[k])
    OBVIOUS
  <2>1. f[k] = IF k = 0 THEN list ELSE step[k][f[k - 1]]
    BY <1>3 DEF GoesBy
  <2>2. k # 0 => k \in 1 .. n
    BY <1>1
  <2> HIDE DEF step, n
  <2> QED
    BY <1>4, <2>1, <2>2
<1>6. IsReporting(f, list, reports)
  BY <1>3, <1>5 DEF IsReporting
<1>7. IsReporting(Reporting(list, reports), list, reports)
  BY <1>6 DEF Reporting
<1>8. \A g : IsReporting(g, list, reports) => g \in [0 .. n -> Seq(R)]
  <2> SUFFICES ASSUME NEW g, IsReporting(g, list, reports)
               PROVE  \A k \in 0 .. n : g[k] \in Seq(R)
    BY DEF IsReporting
  <2> DEFINE Wrong == {k \in 0 .. n : g[k] \notin Seq(R)}
  <2>1. Wrong \subseteq Nat
    BY <1>1
  <2>2. \A k \in 0 .. n : g[k] = IF k = 0 THEN list ELSE Reported(g[k - 1], reports[k])
    BY DEF IsReporting
  <2>3. ASSUME Wrong # {} PROVE FALSE
    <3> HIDE DEF n
    <3>1. PICK k \in Wrong : \A l \in Wrong : k <= l
      <4> HIDE DEF Wrong
      <4> QED
        BY <2>1, <2>3, SmallestIndex
    <3>2. CASE k = 0
      BY <2>2, <3>1, <3>2, <1>1
    <3>3. CASE k # 0
      <4>1. k - 1 \in 0 .. n /\ k \in 1 .. n /\ g[k - 1] \in Seq(R)
        BY <3>1, <3>3, <1>1
      <4>2. g[k] \in Seq(R)
        <5>1. g[k] = Reported(g[k - 1], reports[k])
          BY <2>2, <4>1, <3>3
        <5>2. reports[k] \in R
          BY <4>1, <1>1
        <5>3. g[k - 1] \in Seq(R)
          BY <4>1
        <5>4. Reported(g[k - 1], reports[k]) \in Seq(R)
          BY <5>2, <5>3, ReportedAddsOne
        <5> QED
          BY <5>1, <5>4
      <4> QED
        BY <3>1, <4>2
    <3> QED
      BY <3>2, <3>3
  <2> QED
    BY <2>3
<1> QED
  BY <1>7, <1>8

(* Reporting a list adds what is in it, and drops nothing.                 *)
LEMMA ReportedAllAdds ==
  ASSUME NEW list, IsSequence(list), NEW reports, IsSequence(reports)
  PROVE  /\ IsSequence(ReportedAll(list, reports))
         /\ Range(ReportedAll(list, reports)) = Range(list) \cup Range(reports)
<1> DEFINE R == Listing(list, reports)
           n == Len(reports)
           f == Reporting(list, reports)
<1>1. list \in Seq(R) /\ reports \in Seq(R) /\ n \in Nat
  BY SequenceOver DEF Listing
<1>2. ReportedAll(list, reports) = f[n]
  BY Zenon DEF ReportedAll, Reporting, IsReporting
<1>3. f \in [0 .. n -> Seq(R)] /\ IsReporting(f, list, reports)
  <2> HIDE DEF R
  <2> QED
    BY <1>1, ReportingExists
<1>4. \A k \in 0 .. n : f[k] = IF k = 0 THEN list ELSE Reported(f[k - 1], reports[k])
  <2> HIDE DEF f
  <2> QED
    BY <1>3 DEF IsReporting
<1>5. \A k \in 0 .. n : Range(f[k]) = Range(list) \cup {reports[i] : i \in 1 .. k}
  <2> DEFINE Wrong == {k \in 0 .. n : Range(f[k]) # Range(list) \cup {reports[i] : i \in 1 .. k}}
  <2>1. \A k \in 1 .. n : reports[k] \in R
    BY <1>1
  <2> HIDE DEF f, R, n
  <2>2. ASSUME Wrong # {} PROVE FALSE
    <3>1. Wrong \subseteq Nat
      BY <1>1
    <3>2. PICK k \in Wrong : \A l \in Wrong : k <= l
      <4> HIDE DEF Wrong
      <4> QED
        BY <2>2, <3>1, SmallestIndex
    <3>3. CASE k = 0
      BY <1>4, <3>2, <3>3, <1>1
    <3>4. CASE k # 0
      <4>1. k - 1 \in 0 .. n /\ k \in 1 .. n /\ k - 1 \notin Wrong
        BY <3>2, <3>4, <1>1
      <4>2. Range(f[k - 1]) = Range(list) \cup {reports[i] : i \in 1 .. (k - 1)}
        BY <4>1
      <4>3. reports[k] \in R /\ f[k - 1] \in Seq(R)
        BY <4>1, <2>1, <1>3
      <4>4. f[k] = Reported(f[k - 1], reports[k])
        BY <1>4, <4>1, <3>4
      <4>5. Range(f[k]) = Range(f[k - 1]) \cup {reports[k]}
        BY <4>3, <4>4, ReportedAddsOne
      <4>6. {reports[i] : i \in 1 .. k} = {reports[i] : i \in 1 .. (k - 1)} \cup {reports[k]}
        BY <4>1, <1>1
      <4> QED
        BY <3>2, <4>2, <4>5, <4>6
    <3> QED
      BY <3>3, <3>4
  <2> QED
    BY <2>2
<1>6. Range(reports) = {reports[i] : i \in 1 .. n}
  BY SequenceOver DEF Range
<1>7. IsSequence(f[n])
  <2> HIDE DEF f, R
  <2> QED
    BY <1>1, <1>3, RangeIsASequence
<1> QED
  BY <1>1, <1>2, <1>5, <1>6, <1>7

-----------------------------------------------------------------------------
(* What a retarget leaves.                                                 *)

IsBuilt(r) ==
  /\ IsSequence(r.skeleton) /\ r.map \in [Bones -> Nat] /\ DOMAIN r.rest = Bones
  /\ IsSequence(r.options.required) /\ r.options.rootMode \in {"hips", "root", "ignore"}

RetargetInv ==
  /\ IsSequence(diagnostics)
  /\ rig = Absent => result = Absent
  /\ rig # Absent => IsBuilt(rig)
  /\ result # Absent =>
       /\ result.moved = Moved(rig, pose)
       /\ Range(RootReports(rig)) \subseteq Range(diagnostics)

LEMMA OneIsASequence ==
  ASSUME NEW report
  PROVE  IsSequence(<<report>>) /\ Range(<<report>>) = {report}
<1>1. <<report>> \in Seq({report})
  OBVIOUS
<1>2. Range(<<report>>) = {report}
  BY DEF Range
<1> QED
  BY <1>1, <1>2 DEF IsSequence

LEMMA NothingIsASequence == IsSequence(<< >>) /\ Range(<< >>) = {}
BY DEF IsSequence, Range

LEMMA RootReportsAre ==
  ASSUME NEW r, r.options.rootMode \in {"hips", "root", "ignore"}
  PROVE  /\ IsSequence(RootReports(r))
         /\ \A report \in Range(RootReports(r)) : report.code # "unbound-driven-bone"
<1>1. CASE r.options.rootMode = "ignore" \/ RootReceiver(r) # 0
  <2>1. RootReports(r) = << >>
    BY <1>1 DEF RootReports
  <2> QED
    BY <1>1, <2>1, NothingIsASequence
<1>2. CASE r.options.rootMode = "hips" /\ RootReceiver(r) = 0
  <2>1. RootReports(r) = <<Diagnostic("missing-required-bone", Hips)>>
    BY <1>2 DEF RootReports
  <2> QED
    BY <2>1, OneIsASequence DEF Diagnostic
<1>3. CASE r.options.rootMode = "root" /\ RootReceiver(r) = 0
  <2>1. RootReports(r) = <<Diagnostic("invalid-root-joint", <<r.options.rootJoint>>)>>
    BY <1>3 DEF RootReports
  <2> QED
    BY <2>1, OneIsASequence DEF Diagnostic
<1> QED
  BY <1>1, <1>2, <1>3

LEMMA JoinedLists ==
  ASSUME NEW a, IsSequence(a), NEW b, IsSequence(b)
  PROVE  IsSequence(a \o b) /\ Range(a \o b) = Range(a) \cup Range(b)
<1> DEFINE R == Range(a) \cup Range(b)
<1>1. a \in Seq(R) /\ b \in Seq(R)
  BY SequenceOver
<1> HIDE DEF R
<1>2. a \o b \in Seq(R) /\ Len(a \o b) = Len(a) + Len(b)
  BY <1>1
<1>3. \A i \in 1 .. Len(a) : (a \o b)[i] = a[i]
  BY <1>1
<1>4. \A i \in 1 .. Len(b) : (a \o b)[Len(a) + i] = b[i]
  BY <1>1
<1>5. Len(a) \in Nat /\ Len(b) \in Nat
  BY <1>1
<1>6. \A i \in 1 .. Len(a) + Len(b) : i \in 1 .. Len(a) \/ (i - Len(a) \in 1 .. Len(b) /\ i = Len(a) + (i - Len(a)))
  BY <1>5
<1>7. Range(a \o b) \subseteq Range(a) \cup Range(b)
  BY <1>1, <1>2, <1>3, <1>4, <1>6 DEF Range
<1>8. Range(a) \subseteq Range(a \o b)
  BY <1>1, <1>2, <1>3, <1>5 DEF Range
<1>9. Range(b) \subseteq Range(a \o b)
  <2>1. \A i \in 1 .. Len(b) : Len(a) + i \in DOMAIN (a \o b)
    BY <1>2, <1>5
  <2>2. DOMAIN b = 1 .. Len(b)
    BY <1>1
  <2> QED
    BY <1>4, <2>1, <2>2 DEF Range
<1> QED
  BY <1>2, <1>7, <1>8, <1>9, RangeIsASequence

LEMMA OnlyIsThose ==
  ASSUME NEW seq, IsSequence(seq), NEW kept
  PROVE  IsSequence(Only(seq, kept)) /\ Range(Only(seq, kept)) = Range(seq) \cap kept
<1>1. PICK m \in Nat, at \in [1 .. Len(Only(seq, kept)) -> Kept(seq, kept)] :
        /\ m = Len(Only(seq, kept))
        /\ IsSequence(Only(seq, kept)) /\ DOMAIN Only(seq, kept) = 1 .. m
        /\ \A k \in 1 .. m : Only(seq, kept)[k] = seq[at[k]]
        /\ \A i \in Kept(seq, kept) : \E k \in 1 .. m : at[k] = i
  BY OnlyKeeps
<1> DEFINE O == Only(seq, kept)
<1>2. \A k \in 1 .. m : at[k] \in Kept(seq, kept) /\ O[k] = seq[at[k]]
  BY <1>1
<1>3. DOMAIN O = 1 .. m /\ \A i \in Kept(seq, kept) : \E k \in 1 .. m : at[k] = i
  BY <1>1
<1>4. IsSequence(O)
  BY <1>1
<1> HIDE DEF O
<1>5. Range(O) \subseteq Range(seq) \cap kept
  BY <1>2, <1>3 DEF Range, Kept
<1>6. Range(seq) \cap kept \subseteq Range(O)
  <2> SUFFICES ASSUME NEW i \in DOMAIN seq, seq[i] \in kept
               PROVE  seq[i] \in Range(O)
    BY DEF Range
  <2>1. i \in Kept(seq, kept)
    BY DEF Kept
  <2> QED
    BY <1>2, <1>3, <2>1 DEF Range
<1>7. Range(O) = Range(seq) \cap kept
  BY <1>5, <1>6
<1> QED
  BY <1>4, <1>7 DEF O

(* A pose is reported on with its unbound bones, and the root's reports.   *)
LEMMA PoseReportsAre ==
  ASSUME NEW r, r.options.rootMode \in {"hips", "root", "ignore"},
         NEW p, p.valid \subseteq Bones
  PROVE  /\ IsSequence(PoseReports(r, p))
         /\ Range(PoseReports(r, p))
              = {Diagnostic("unbound-driven-bone", bone) : bone \in {b \in p.valid : ~Bound(r, b)}}
                  \cup Range(RootReports(r))
<1> DEFINE lost    == {bone \in p.valid : ~Bound(r, bone)}
           unbound == Only(Vocabulary, lost)
           said    == [i \in DOMAIN unbound |-> Diagnostic("unbound-driven-bone", unbound[i])]
<1>1. IsSequence(unbound) /\ Range(unbound) = lost
  <2>1. Range(Vocabulary) \cap lost = lost
    BY DEF Bones
  <2> HIDE DEF lost
  <2> QED
    BY <2>1, OnlyIsThose, RetargetAssumption
<1>2. PoseReports(r, p) = said \o RootReports(r)
  BY Zenon DEF PoseReports
<1> HIDE DEF lost
<1> HIDE DEF unbound
<1>3. Len(unbound) \in Nat /\ DOMAIN unbound = 1 .. Len(unbound)
  BY <1>1, SequenceOver
<1>4. IsSequence(said)
  <2>1. said = [i \in 1 .. Len(unbound) |-> said[i]]
    BY <1>3
  <2> HIDE DEF said
  <2> QED
    BY <1>3, <2>1, ListIsASequence
<1>5. Range(said) = {Diagnostic("unbound-driven-bone", bone) : bone \in lost}
  BY <1>1 DEF Range
<1> HIDE DEF said
<1>6. IsSequence(RootReports(r))
  BY RootReportsAre
<1> QED
  BY <1>2, <1>4, <1>5, <1>6, JoinedLists DEF lost

LEMMA BonesAreFinite == IsFiniteSet(Bones)
<1>1. IsSequence(Vocabulary)
  BY RetargetAssumption
<1>2. IsFiniteSet(1 .. Len(Vocabulary)) /\ DOMAIN Vocabulary = 1 .. Len(Vocabulary)
  BY <1>1, SequenceOver, FS_Interval
<1>3. Vocabulary \in Surjection(DOMAIN Vocabulary, Bones)
  <2>1. Vocabulary \in Seq(Bones)
    BY <1>1 DEF IsSequence, Bones
  <2>2. Vocabulary \in [DOMAIN Vocabulary -> Bones]
    BY <2>1
  <2> QED
    BY <2>2 DEF Surjection, Bones, Range
<1> QED
  BY <1>2, <1>3, FS_Surjection, Zenon

LEMMA SharedJoints ==
  ASSUME NEW map \in [Bones -> Nat]
  PROVE  IsFiniteSet(DuplicateJoints(map)) /\ DuplicateJoints(map) \subseteq Int
<1>1. map \in Surjection(Bones, Range(map))
  BY DEF Surjection, Range
<1>2. IsFiniteSet(Range(map))
  BY <1>1, BonesAreFinite, FS_Surjection, Zenon
<1>3. DuplicateJoints(map) \subseteq Range(map) /\ Range(map) \subseteq Nat
  BY DEF DuplicateJoints, Range
<1> QED
  BY <1>2, <1>3, FS_Subset

(* The reports on a rig are a list.                                        *)
LEMMA RigReportsAreAList ==
  ASSUME NEW r, IsBuilt(r)
  PROVE  IsSequence(RigReports(r))
<1> DEFINE hips     == IF r.options.rootMode = "hips" /\ Hips \notin Range(r.options.required)
                       THEN <<Hips>> ELSE << >>
           missing  == Only(hips \o r.options.required, {bone \in Bones : ~Bound(r, bone)})
           shared   == InOrder(DuplicateJoints(r.map))
           unsorted == {j \in DOMAIN r.skeleton : r.skeleton[j] \notin 0 .. j - 1}
           first    == [i \in DOMAIN missing |-> Diagnostic("missing-required-bone", missing[i])]
           second   == [i \in DOMAIN shared |-> Diagnostic("duplicate-target", <<shared[i]>>)]
           third    == IF unsorted = {} THEN << >>
                       ELSE <<Diagnostic("invalid-hierarchy", <<Min(unsorted)>>)>>
           fourth   == IF r.options.rootMode = "root" /\ ~RootJointIsValid(r)
                       THEN <<Diagnostic("invalid-root-joint", <<r.options.rootJoint>>)>> ELSE << >>
<1>1. RigReports(r) = first \o second \o third \o fourth
  BY Zenon DEF RigReports
<1>2. IsSequence(hips)
  BY OneIsASequence, NothingIsASequence
<1>3. IsSequence(missing)
  <2> HIDE DEF hips
  <2> QED
    BY <1>2, JoinedLists, OnlyIsThose DEF IsBuilt
<1>4. IsSequence(first)
  <2> HIDE DEF missing
  <2>1. Len(missing) \in Nat /\ DOMAIN missing = 1 .. Len(missing)
    BY <1>3, SequenceOver
  <2>2. first = [i \in 1 .. Len(missing) |-> first[i]]
    BY <2>1
  <2> HIDE DEF first
  <2> QED
    BY <2>1, <2>2, ListIsASequence
<1>5. IsSequence(second)
  <2>1. r.map \in [Bones -> Nat]
    BY DEF IsBuilt
  <2>2. /\ Cardinality(DuplicateJoints(r.map)) \in Nat
        /\ DOMAIN shared = 1 .. Cardinality(DuplicateJoints(r.map))
    BY <2>1, SharedJoints, InOrderLists
  <2> HIDE DEF shared
  <2>3. second = [i \in 1 .. Cardinality(DuplicateJoints(r.map)) |-> second[i]]
    BY <2>2
  <2> HIDE DEF second
  <2> QED
    BY <2>2, <2>3, ListIsASequence
<1>6. IsSequence(third)
  <2> HIDE DEF unsorted
  <2> QED
    BY OneIsASequence, NothingIsASequence
<1>7. IsSequence(fourth)
  BY OneIsASequence, NothingIsASequence
<1> HIDE DEF first, second, third, fourth
<1>8. IsSequence(first \o second)
  BY <1>4, <1>5, JoinedLists
<1>9. IsSequence((first \o second) \o third)
  BY <1>6, <1>8, JoinedLists
<1>10. IsSequence(((first \o second) \o third) \o fourth)
  BY <1>7, <1>9, JoinedLists
<1> QED
  BY <1>1, <1>10

LEMMA RigBuilt ==
  ASSUME NEW c \in Configurations, RetargetInv, Build(c)
  PROVE  RetargetInv'
<1>1. /\ rig' = [skeleton |-> c.skeleton, map |-> c.map, rest |-> c.rest,
                 options |-> c.options, folds |-> FoldPlan(c)]
      /\ rig = Absent /\ result' = result /\ diagnostics' = diagnostics
  BY Zenon DEF Build
<1>2. IsBuilt(rig')
  BY <1>1, RetargetAssumption DEF IsBuilt
<1>3. result' = Absent
  BY <1>1 DEF RetargetInv
<1> QED
  BY <1>1, <1>2, <1>3 DEF RetargetInv

LEMMA RigDiagnosed ==
  ASSUME RetargetInv, Diagnose
  PROVE  RetargetInv'
<1>1. /\ rig' = rig /\ result' = result /\ pose' = pose /\ rig # Absent
      /\ diagnostics' = ReportedAll(diagnostics, RigReports(rig))
  BY DEF Diagnose
<1>2. IsSequence(diagnostics) /\ IsSequence(RigReports(rig))
  BY <1>1, RigReportsAreAList DEF RetargetInv
<1>3. IsSequence(diagnostics') /\ Range(diagnostics) \subseteq Range(diagnostics')
  BY <1>1, <1>2, ReportedAllAdds
<1> QED
  BY <1>1, <1>3 DEF RetargetInv, Moved

LEMMA PoseRetargeted ==
  ASSUME NEW p \in Poses, RetargetInv, Retarget(p)
  PROVE  /\ RetargetInv'
         /\ Range(diagnostics') = Range(diagnostics) \cup Range(PoseReports(rig, p))
<1>1. /\ rig' = rig /\ pose' = p /\ rig # Absent
      /\ result' = [rotations |-> Rotations(rig, FoldedPose(rig, p)), moved |-> Moved(rig, p)]
      /\ diagnostics' = ReportedAll(diagnostics, PoseReports(rig, p))
  BY Zenon DEF Retarget
<1>2. IsBuilt(rig) /\ rig.options.rootMode \in {"hips", "root", "ignore"} /\ p.valid \subseteq Bones
  BY <1>1, RetargetAssumption DEF RetargetInv, IsBuilt
<1>3. /\ IsSequence(PoseReports(rig, p))
      /\ Range(RootReports(rig)) \subseteq Range(PoseReports(rig, p))
  BY <1>2, PoseReportsAre
<1>4. IsSequence(diagnostics)
  BY DEF RetargetInv
<1>5. /\ IsSequence(diagnostics')
      /\ Range(diagnostics') = Range(diagnostics) \cup Range(PoseReports(rig, p))
  BY <1>1, <1>3, <1>4, ReportedAllAdds
<1>6. result'.moved = Moved(rig, p)
  BY <1>1
<1> QED
  BY <1>1, <1>2, <1>3, <1>5, <1>6 DEF RetargetInv

LEMMA RetargetInvIsInductive == RetargetInv /\ [RetargetNext]_retargetVars => RetargetInv'
<1> SUFFICES ASSUME RetargetInv, [RetargetNext]_retargetVars PROVE RetargetInv'
  OBVIOUS
<1>1. CASE \E configuration \in Configurations : Build(configuration)
  BY <1>1, RigBuilt
<1>2. CASE Diagnose
  BY <1>2, RigDiagnosed
<1>3. CASE \E p \in Poses : Retarget(p)
  BY <1>3, PoseRetargeted
<1>4. CASE UNCHANGED retargetVars
  BY <1>4 DEF retargetVars, RetargetInv, Moved
<1> QED
  BY <1>1, <1>2, <1>3, <1>4 DEF RetargetNext

(* The list of reports is a list, and holds what the last pose's root has  *)
(* against it; its translation went where the options say.                 *)
THEOREM RetargetInvHolds == RetargetSpec => []RetargetInv
<1>1. RetargetInit => RetargetInv
  BY NothingIsASequence DEF RetargetInit, RetargetInv
<1> QED
  BY <1>1, RetargetInvIsInductive, PTL DEF RetargetSpec

(* For every rig, map, rest and pose, in any order of calls: every bone    *)
(* driven onto no joint is named, and no other (PoseRetargeter.cpp:304).   *)
THEOREM LostBonesAreNamedInAnyOrder == RetargetSpec => LostBonesAreNamed
<1> DEFINE named(list) ==
             {list[i].subject : i \in {k \in DOMAIN list : list[k].code = "unbound-driven-bone"}}
           Naming == pose' # pose =>
             named(diagnostics') = named(diagnostics) \cup {b \in pose'.valid : ~Bound(rig, b)}
<1>1. RetargetInv /\ [RetargetNext]_retargetVars => [Naming]_retargetVars
  <2> SUFFICES ASSUME RetargetInv, RetargetNext, pose' # pose
               PROVE  named(diagnostics') = named(diagnostics) \cup {b \in pose'.valid : ~Bound(rig, b)}
    OBVIOUS
  <2>1. PICK p \in Poses : Retarget(p)
    BY DEF RetargetNext, Build, Diagnose
  <2>2. pose' = p /\ rig # Absent
    BY <2>1 DEF Retarget
  <2>3. Range(diagnostics') = Range(diagnostics) \cup Range(PoseReports(rig, p))
    BY <2>1, PoseRetargeted
  <2>4. /\ Range(PoseReports(rig, p))
             = {Diagnostic("unbound-driven-bone", bone) : bone \in {b \in p.valid : ~Bound(rig, b)}}
                 \cup Range(RootReports(rig))
        /\ \A report \in Range(RootReports(rig)) : report.code # "unbound-driven-bone"
    BY <2>2, PoseReportsAre, RootReportsAre, RetargetAssumption DEF RetargetInv, IsBuilt
  <2>5. \A list : named(list)
          = {report.subject : report \in {d \in Range(list) : d.code = "unbound-driven-bone"}}
    BY DEF Range
  <2>6. named(diagnostics') =
          {report.subject : report \in {d \in Range(diagnostics') : d.code = "unbound-driven-bone"}}
    BY <2>5
  <2>7. named(diagnostics) =
          {report.subject : report \in {d \in Range(diagnostics) : d.code = "unbound-driven-bone"}}
    BY <2>5
  <2> DEFINE lost == {b \in p.valid : ~Bound(rig, b)}
             of(list) == {d \in Range(list) : d.code = "unbound-driven-bone"}
             said == {Diagnostic("unbound-driven-bone", bone) : bone \in lost}
  <2>8. of(diagnostics') = of(diagnostics) \cup said
    <3>1. \A d \in said : d.code = "unbound-driven-bone"
      BY DEF Diagnostic
    <3> HIDE DEF said
    <3> QED
      BY <2>3, <2>4, <3>1 DEF said
  <2>9. {d.subject : d \in said} = lost
    <3> HIDE DEF lost
    <3>1. \A b \in lost : Diagnostic("unbound-driven-bone", b).subject = b
      BY DEF Diagnostic
    <3>2. {d.subject : d \in said} = {Diagnostic("unbound-driven-bone", b).subject : b \in lost}
      BY Zenon
    <3> QED
      BY <3>1, <3>2
  <2> HIDE DEF named, said, lost
  <2>10. named(diagnostics') = named(diagnostics) \cup lost
    BY <2>6, <2>7, <2>8, <2>9
  <2> QED
    BY <2>2, <2>10 DEF lost
<1>2. LostBonesAreNamed <=> [][Naming]_retargetVars
  BY DEF LostBonesAreNamed
<1> QED
  BY <1>1, <1>2, RetargetInvHolds, PTL DEF RetargetSpec

(* For every rig and pose, in every root mode: the translation arrives at  *)
(* the joint the options name, or the list says which bone or joint was    *)
(* missing for it (PoseRetargeter.cpp:327).                                *)
THEOREM RootMotionArrives == RetargetSpec => []RootMotionArrivesOrIsReported
<1>1. RetargetInv => RootMotionArrivesOrIsReported
  <2> DEFINE toHips   == rig.options.rootMode = "hips"
             receiver == IF toHips THEN rig.map[Hips] ELSE rig.options.rootJoint
             missing  == IF toHips THEN Diagnostic("missing-required-bone", Hips)
                         ELSE Diagnostic("invalid-root-joint", <<rig.options.rootJoint>>)
  <2> SUFFICES ASSUME RetargetInv, result # Absent, pose.hasPosition, rig.options.rootMode # "ignore"
               PROVE  IF receiver \in DOMAIN rig.skeleton THEN result.moved = {receiver}
                      ELSE result.moved = {} /\ missing \in Range(diagnostics)
    BY DEF RootMotionArrivesOrIsReported
  <2>1. /\ rig.options.rootMode \in {"hips", "root"} /\ IsSequence(rig.skeleton)
        /\ result.moved = Moved(rig, pose)
        /\ Range(RootReports(rig)) \subseteq Range(diagnostics)
    BY DEF RetargetInv, IsBuilt
  <2>2. 0 \notin DOMAIN rig.skeleton
    BY <2>1, SequenceOver
  <2>3. RootReceiver(rig) = IF receiver \in DOMAIN rig.skeleton THEN receiver ELSE 0
    BY <2>1 DEF RootReceiver, Bound, RootJointIsValid
  <2>4. CASE receiver \in DOMAIN rig.skeleton
    BY <2>1, <2>2, <2>3, <2>4 DEF Moved
  <2>5. CASE receiver \notin DOMAIN rig.skeleton
    <3>1. RootReceiver(rig) = 0 /\ result.moved = {}
      BY <2>1, <2>3, <2>5 DEF Moved
    <3>2. RootReports(rig) = <<missing>>
      BY <2>1, <3>1 DEF RootReports
    <3> HIDE DEF missing
    <3>3. missing \in Range(RootReports(rig))
      BY <3>2 DEF Range
    <3> QED
      BY <2>1, <2>5, <3>1, <3>3
  <2> QED
    BY <2>4, <2>5
<1> QED
  BY <1>1, RetargetInvHolds, PTL

-----------------------------------------------------------------------------
(* Walks up a parent relation.                                             *)

At(parents, from, k) == Walk(parents, from, k)[k]

WalkGoes(up, parents, from, count) ==
  \A k \in 0 .. count : up[k] = IF k = 0 THEN from ELSE Up(parents, up[k - 1])

LEMMA WalkSteps ==
  ASSUME NEW parents, NEW from, NEW count \in Nat
  PROVE  WalkGoes(Walk(parents, from, count), parents, from, count)
<1> DEFINE T == {from} \cup DOMAIN parents \cup {parents[place] : place \in DOMAIN parents}
           step == [i \in 1 .. count |-> [place \in T |-> Up(parents, place)]]
           IsWalk(f) == f = [k \in 0 .. count |-> IF k = 0 THEN from ELSE Up(parents, f[k - 1])]
<1>1. \A place \in T : Up(parents, place) \in T
  BY DEF Up
<1>2. step \in [1 .. count -> [T -> T]] /\ from \in T
  BY <1>1
<1>3. PICK up \in [0 .. count -> T] : GoesBy(up, count, from, step)
  <2> HIDE DEF T, step
  <2> QED
    BY <1>2, StepsExist
<1>4. IsWalk(up)
  <2>1. \A k \in 0 .. count : k # 0 => k \in 1 .. count /\ k - 1 \in 0 .. count
    OBVIOUS
  <2>2. \A k \in 0 .. count : k # 0 => step[k][up[k - 1]] = Up(parents, up[k - 1])
    BY <1>3, <2>1
  <2> HIDE DEF T, step
  <2> QED
    BY <1>3, <2>2 DEF GoesBy
<1>5. Walk(parents, from, count) = CHOOSE f : IsWalk(f)
  BY Zenon DEF Walk
<1>6. IsWalk(Walk(parents, from, count))
  <2> HIDE DEF IsWalk
  <2> QED
    BY <1>4, <1>5
<1> QED
  BY <1>6 DEF WalkGoes

(* How far a walk is asked to go does not change where it goes.            *)
LEMMA WalkAsFar ==
  ASSUME NEW parents, NEW from, NEW count \in Nat, NEW k \in 0 .. count
  PROVE  Walk(parents, from, count)[k] = At(parents, from, k)
<1> DEFINE up == Walk(parents, from, count)
           on == Walk(parents, from, k)
           Apart == {i \in 0 .. k : up[i] # on[i]}
<1>1. \A i \in 0 .. count : up[i] = IF i = 0 THEN from ELSE Up(parents, up[i - 1])
  BY WalkSteps DEF WalkGoes
<1>2. \A i \in 0 .. k : on[i] = IF i = 0 THEN from ELSE Up(parents, on[i - 1])
  BY WalkSteps DEF WalkGoes
<1> HIDE DEF up, on
<1>3. SUFFICES ASSUME Apart # {} PROVE FALSE
  BY DEF At, up, on
<1>4. PICK i \in Apart : \A m \in Apart : i <= m
  <2>1. Apart \subseteq Nat
    OBVIOUS
  <2> HIDE DEF Apart
  <2> QED
    BY <1>3, <2>1, SmallestIndex
<1>5. i # 0
  BY <1>1, <1>2, <1>4
<1>6. i - 1 \in 0 .. k /\ i \in 0 .. count /\ ~(i <= i - 1)
  BY <1>4, <1>5
<1>7. up[i - 1] = on[i - 1]
  BY <1>4, <1>6
<1> QED
  BY <1>1, <1>2, <1>4, <1>5, <1>6, <1>7

LEMMA AtSteps ==
  ASSUME NEW parents, NEW from
  PROVE  /\ At(parents, from, 0) = from
         /\ \A k \in Nat : At(parents, from, k + 1) = Up(parents, At(parents, from, k))
<1>1. At(parents, from, 0) = from
  BY WalkSteps DEF At, WalkGoes
<1>2. ASSUME NEW k \in Nat
      PROVE  At(parents, from, k + 1) = Up(parents, At(parents, from, k))
  <2> DEFINE up == Walk(parents, from, k + 1)
  <2>1. k \in 0 .. k + 1 /\ k + 1 \in 0 .. k + 1 /\ k + 1 # 0 /\ (k + 1) - 1 = k /\ k + 1 \in Nat
    OBVIOUS
  <2>2. up[k + 1] = Up(parents, up[(k + 1) - 1])
    BY <2>1, WalkSteps DEF WalkGoes
  <2>3. up[k] = At(parents, from, k)
    BY <2>1, WalkAsFar
  <2> HIDE DEF up
  <2>4. up[k + 1] = Up(parents, up[k])
    BY <2>1, <2>2
  <2> QED
    BY <2>3, <2>4 DEF At, up
<1> QED
  BY <1>1, <1>2

(* A walk from where another has come to is the rest of it.                *)
LEMMA AtGoesOn ==
  ASSUME NEW parents, NEW from, NEW a \in Nat, NEW m \in Nat
  PROVE  At(parents, At(parents, from, a), m) = At(parents, from, a + m)
<1> DEFINE on(i) == At(parents, At(parents, from, a), i)
           up(i) == At(parents, from, i)
           Apart == {i \in Nat : on(i) # up(a + i)}
<1>1. on(0) = up(a) /\ \A i \in Nat : on(i + 1) = Up(parents, on(i)) /\ up(i + 1) = Up(parents, up(i))
  BY AtSteps
<1> HIDE DEF on, up
<1>2. SUFFICES ASSUME Apart # {} PROVE FALSE
  BY DEF on, up
<1>3. PICK i \in Apart : \A k \in Apart : i <= k
  <2>1. Apart \subseteq Nat
    OBVIOUS
  <2> HIDE DEF Apart
  <2> QED
    BY <1>2, <2>1, SmallestIndex
<1>4. i # 0
  <2>1. a + 0 = a
    OBVIOUS
  <2> QED
    BY <1>1, <1>3, <2>1
<1>5. PICK j \in Nat : i = j + 1
  <2>1. i - 1 \in Nat /\ i = (i - 1) + 1
    BY <1>3, <1>4
  <2> QED
    BY <2>1
<1>6. ~(i <= j) /\ a + j \in Nat /\ a + i = (a + j) + 1
  BY <1>5
<1>7. on(j) = up(a + j)
  BY <1>3, <1>6
<1>8. on(i) = Up(parents, on(j))
  BY <1>1, <1>5
<1>9. up(a + i) = Up(parents, up(a + j))
  BY <1>1, <1>6
<1> QED
  BY <1>3, <1>7, <1>8, <1>9

(* Two times at one place are followed by the same places.                 *)
LEMMA AtRepeats ==
  ASSUME NEW parents, NEW from, NEW a \in Nat, NEW b \in Nat, NEW m \in Nat,
         At(parents, from, a) = At(parents, from, b)
  PROVE  At(parents, from, a + m) = At(parents, from, b + m)
<1>1. At(parents, At(parents, from, a), m) = At(parents, from, a + m)
  BY AtGoesOn
<1>2. At(parents, At(parents, from, b), m) = At(parents, from, b + m)
  BY AtGoesOn
<1> QED
  BY <1>1, <1>2

(* A walk that has left the known places stays where it is.                *)
LEMMA AtStaysOut ==
  ASSUME NEW parents, NEW from, NEW a \in Nat, At(parents, from, a) \notin DOMAIN parents,
         NEW m \in Nat, a <= m
  PROVE  At(parents, from, m) = At(parents, from, a)
<1> DEFINE up(i) == At(parents, from, i)
           Strayed == {i \in Nat : a <= i /\ up(i) # up(a)}
<1>1. \A i \in Nat : up(i + 1) = Up(parents, up(i))
  BY AtSteps
<1>2. up(a) \notin DOMAIN parents
  OBVIOUS
<1> HIDE DEF up
<1>3. SUFFICES ASSUME Strayed # {} PROVE FALSE
  BY DEF up
<1>4. PICK i \in Strayed : \A k \in Strayed : i <= k
  <2>1. Strayed \subseteq Nat
    OBVIOUS
  <2> HIDE DEF Strayed
  <2> QED
    BY <1>3, <2>1, SmallestIndex
<1>5. i # a /\ i \in Nat
  BY <1>4
<1>6. PICK j \in Nat : i = j + 1
  <2>1. i - 1 \in Nat /\ i = (i - 1) + 1
    BY <1>4, <1>5
  <2> QED
    BY <2>1
<1>7. a <= j /\ ~(i <= j)
  BY <1>4, <1>5, <1>6
<1>8. up(j) = up(a)
  BY <1>4, <1>7
<1>9. up(i) = Up(parents, up(a))
  BY <1>1, <1>6, <1>8
<1> QED
  BY <1>2, <1>4, <1>9 DEF Up

(* What a climb lists: the known places the walk goes through, up to count *)
(* of them.                                                                *)
LEMMA ClimbLists ==
  ASSUME NEW parents, NEW from \in DOMAIN parents, NEW count \in Nat \ {0}
  PROVE  \E length \in 1 .. count :
           /\ IsSequence(Climb(parents, from, count)) /\ Len(Climb(parents, from, count)) = length
           /\ DOMAIN Climb(parents, from, count) = 1 .. length
           /\ \A k \in 1 .. length :
                /\ Climb(parents, from, count)[k] = At(parents, from, k - 1)
                /\ At(parents, from, k - 1) \in DOMAIN parents
           /\ length = count \/ At(parents, from, length) \notin DOMAIN parents
<1> DEFINE up == Walk(parents, from, count)
           left == {k \in 0 .. count : up[k] \notin DOMAIN parents}
           length == IF left = {} THEN count ELSE Min(left)
           C == Climb(parents, from, count)
<1>1. C = [k \in 1 .. length |-> up[k - 1]]
  BY Zenon DEF Climb
<1>2. \A k \in 0 .. count : up[k] = At(parents, from, k)
  BY WalkAsFar
<1>3. up[0] = from
  BY <1>2, AtSteps
<1> HIDE DEF up, C
<1>4. /\ length \in 1 .. count
      /\ left # {} => length \in left
      /\ \A k \in left : length <= k
  <2>1. left \subseteq Nat /\ 0 \notin left
    BY <1>3
  <2>2. left # {} => Min(left) \in left /\ \A k \in left : Min(left) <= k
    <3> HIDE DEF left
    <3> QED
      BY <2>1, SmallestIndex DEF Min
  <2> QED
    BY <2>1, <2>2
<1> HIDE DEF length
<1>5. IsSequence(C) /\ Len(C) = length /\ DOMAIN C = 1 .. length
  <2>1. C = [k \in 1 .. length |-> C[k]]
    BY <1>1
  <2> QED
    BY <1>4, <2>1, ListIsASequence
<1>6. ASSUME NEW k \in 1 .. length
      PROVE  C[k] = At(parents, from, k - 1) /\ At(parents, from, k - 1) \in DOMAIN parents
  <2>1. k - 1 \in 0 .. count /\ ~(length <= k - 1)
    BY <1>4
  <2>2. up[k - 1] \in DOMAIN parents
    BY <1>4, <2>1
  <2> QED
    BY <1>1, <1>2, <2>1, <2>2
<1>7. length = count \/ At(parents, from, length) \notin DOMAIN parents
  <2>1. CASE left = {}
    BY <2>1 DEF length
  <2>2. CASE left # {}
    BY <1>2, <1>4, <2>2
  <2> QED
    BY <2>1, <2>2
<1> QED
  BY <1>4, <1>5, <1>6, <1>7 DEF C

-----------------------------------------------------------------------------
(* Cycles.                                                                 *)

OnCycle(parents, place) == \E n \in Nat \ {0} : At(parents, place, n) = place

(* A place on a cycle has an ancestor however far one looks.               *)
LEMMA CycleIsEndless ==
  ASSUME NEW parents, NEW place \in DOMAIN parents, OnCycle(parents, place), NEW k \in Nat
  PROVE  At(parents, place, k) \in DOMAIN parents
<1> DEFINE up(i) == At(parents, place, i)
           Out == {i \in Nat : up(i) \notin DOMAIN parents}
<1>1. PICK n \in Nat \ {0} : up(n) = place
  BY DEF OnCycle
<1>2. up(0) = place
  BY AtSteps
<1>3. SUFFICES ASSUME Out # {} PROVE FALSE
  OBVIOUS
<1>4. PICK i \in Out : \A m \in Out : i <= m
  <2>1. Out \subseteq Nat
    OBVIOUS
  <2> HIDE DEF Out
  <2> QED
    BY <1>3, <2>1, SmallestIndex
<1>5. i \in Nat /\ up(i) \notin DOMAIN parents
  BY <1>4
<1>6. CASE i <= n
  <2>1. up(n) = up(i)
    BY <1>5, <1>6, AtStaysOut
  <2> QED
    BY <1>1, <1>5, <2>1
<1>7. CASE n < i
  <2> DEFINE m == i - n
  <2>1. m \in Nat /\ ~(i <= m) /\ 0 + m = m /\ n + m = i
    BY <1>5, <1>7
  <2> HIDE DEF m, Out
  <2>2. up(0 + m) = up(n + m)
    <3>1. up(0) = up(n)
      BY <1>1, <1>2
    <3> QED
      BY <2>1, <3>1, AtRepeats
  <2>3. up(m) \notin DOMAIN parents
    BY <1>5, <2>1, <2>2
  <2> USE DEF Out
  <2> HIDE DEF up
  <2> QED
    BY <1>4, <2>1, <2>3
<1> QED
  BY <1>5, <1>6, <1>7

(* From wherever a walk from a place on a cycle has come to, it returns.   *)
LEMMA CycleReturns ==
  ASSUME NEW parents, NEW place, OnCycle(parents, place), NEW k \in Nat
  PROVE  \E t \in Nat : At(parents, At(parents, place, k), t) = place
<1> DEFINE up(i) == At(parents, place, i)
           Never == {i \in Nat : ~\E t \in Nat : up(i + t) = place}
<1>1. PICK n \in Nat \ {0} : up(n) = place
  BY DEF OnCycle
<1>2. Never = {}
  <2>1. SUFFICES ASSUME Never # {} PROVE FALSE
    OBVIOUS
  <2> HIDE DEF up
  <2>2. PICK i \in Never : \A m \in Never : i <= m
    <3>1. Never \subseteq Nat
      OBVIOUS
    <3> HIDE DEF Never
    <3> QED
      BY <2>1, <3>1, SmallestIndex
  <2>3. i # 0
    <3>1. 0 + n = n
      OBVIOUS
    <3> QED
      BY <1>1, <2>2, <3>1
  <2>4. i - 1 \in Nat /\ ~(i <= i - 1) /\ i \in Nat
    BY <2>2, <2>3
  <2>5. PICK t \in Nat : up((i - 1) + t) = place
    BY <2>2, <2>4
  <2>6. CASE t # 0
    <3>1. t - 1 \in Nat /\ i + (t - 1) = (i - 1) + t
      BY <2>4, <2>6
    <3> QED
      BY <2>2, <2>5, <3>1
  <2>7. CASE t = 0
    <3>1. n - 1 \in Nat /\ i + (n - 1) = (i - 1) + n /\ (i - 1) + t = i - 1
      BY <2>4, <2>7
    <3>2. At(parents, At(parents, place, i - 1), n) = At(parents, place, (i - 1) + n)
      BY <2>4, AtGoesOn
    <3>3. up((i - 1) + n) = place
      BY <1>1, <2>5, <3>1, <3>2 DEF up
    <3> QED
      BY <2>2, <3>1, <3>3
  <2> QED
    BY <2>6, <2>7
<1>3. PICK t \in Nat : up(k + t) = place
  BY <1>2
<1>4. At(parents, At(parents, place, k), t) = At(parents, place, k + t)
  BY AtGoesOn
<1> QED
  BY <1>3, <1>4

(* A walk that is twice at a place is on a cycle there.                    *)
LEMMA TwiceIsACycle ==
  ASSUME NEW parents, NEW from, NEW a \in Nat, NEW b \in Nat, a < b,
         At(parents, from, a) = At(parents, from, b)
  PROVE  OnCycle(parents, At(parents, from, a))
<1>1. b - a \in Nat \ {0} /\ a + (b - a) = b
  OBVIOUS
<1>2. At(parents, At(parents, from, a), b - a) = At(parents, from, a + (b - a))
  BY <1>1, AtGoesOn
<1> QED
  BY <1>1, <1>2 DEF OnCycle

(* And goes round the places in between.                                   *)
LEMMA RoundTheCycle ==
  ASSUME NEW parents, NEW from, NEW a \in Nat, NEW b \in Nat, a < b,
         At(parents, from, a) = At(parents, from, b), NEW m \in Nat, a <= m
  PROVE  \E k \in a .. b - 1 : At(parents, from, m) = At(parents, from, k)
<1> DEFINE up(i) == At(parents, from, i)
           Else == {i \in Nat : a <= i /\ ~\E k \in a .. b - 1 : up(i) = up(k)}
<1>1. up(a) = up(b)
  OBVIOUS
<1>2. \A l \in Nat : up(a + l) = up(b + l)
  BY <1>1, AtRepeats
<1> HIDE DEF up
<1>3. SUFFICES ASSUME Else # {} PROVE FALSE
  BY DEF up
<1>4. PICK i \in Else : \A k \in Else : i <= k
  <2>1. Else \subseteq Nat
    OBVIOUS
  <2> HIDE DEF Else
  <2> QED
    BY <1>3, <2>1, SmallestIndex
<1>5. i \in Nat /\ b <= i
  <2>1. i \in Nat /\ a <= i /\ ~(i \in a .. b - 1)
    BY <1>4
  <2> QED
    BY <2>1
<1> DEFINE l == i - b
           j == a + l
<1>6. l \in Nat /\ j \in Nat /\ a <= j /\ ~(i <= j) /\ b + l = i
  BY <1>5
<1> HIDE DEF l
<1>7. up(j) = up(i)
  BY <1>2, <1>6
<1> HIDE DEF j
<1>8. \E k \in a .. b - 1 : up(j) = up(k)
  BY <1>4, <1>6
<1> QED
  BY <1>4, <1>7, <1>8

(* Among as many places as there are and one, one comes twice.             *)
LEMMA TwiceSomewhere ==
  ASSUME NEW D, IsFiniteSet(D), NEW n \in Nat, Cardinality(D) <= n,
         NEW f, \A k \in 0 .. n : f[k] \in D
  PROVE  \E a, b \in 0 .. n : a < b /\ f[a] = f[b]
<1> DEFINE g == [k \in 0 .. n |-> f[k]]
<1>1. g \in [0 .. n -> D]
  OBVIOUS
<1>2. IsFiniteSet(0 .. n) /\ Cardinality(0 .. n) = n + 1
  BY FS_Interval
<1>3. Cardinality(D) \in Nat
  BY FS_CardinalityType
<1>4. Cardinality(0 .. n) > Cardinality(D)
  BY <1>2, <1>3
<1> HIDE DEF g
<1>5. \E x, y \in 0 .. n : x # y /\ g[x] = g[y]
  BY <1>1, <1>2, <1>4, FS_PigeonHole
<1>6. PICK x \in 0 .. n, y \in 0 .. n : x # y /\ g[x] = g[y]
  BY <1>5
<1>7. f[x] = f[y] /\ (x < y \/ y < x)
  BY <1>6 DEF g
<1> QED
  BY <1>6, <1>7

(* So a walk that is still inside after that many steps met a cycle.       *)
LEMMA InsideMeetsACycle ==
  ASSUME NEW parents, IsFiniteSet(DOMAIN parents), NEW from, NEW n \in Nat,
         Cardinality(DOMAIN parents) <= n, At(parents, from, n) \in DOMAIN parents
  PROVE  \E a, b \in 0 .. n : a < b /\ At(parents, from, a) = At(parents, from, b)
<1>1. \A k \in 0 .. n : At(parents, from, k) \in DOMAIN parents
  BY AtStaysOut
<1> DEFINE f == [k \in 0 .. n |-> At(parents, from, k)]
<1>2. \A k \in 0 .. n : f[k] \in DOMAIN parents
  BY <1>1
<1>3. PICK a \in 0 .. n, b \in 0 .. n : a < b /\ f[a] = f[b]
  <2> HIDE DEF f
  <2> QED
    BY <1>2, TwiceSomewhere
<1> QED
  BY <1>3

(* A cycle is no longer than there are places.                             *)
LEMMA CycleIsShort ==
  ASSUME NEW parents, IsFiniteSet(DOMAIN parents), NEW place \in DOMAIN parents,
         OnCycle(parents, place), NEW n \in Nat, Cardinality(DOMAIN parents) <= n
  PROVE  \E k \in 1 .. n : At(parents, place, k) = place
<1> DEFINE up(i) == At(parents, place, i)
           Periods == {k \in Nat \ {0} : up(k) = place}
<1>1. PICK p \in Periods : \A k \in Periods : p <= k
  <2>1. Periods \subseteq Nat /\ Periods # {}
    BY DEF OnCycle
  <2> HIDE DEF Periods
  <2> QED
    BY <2>1, SmallestIndex
<1>2. p \in Nat \ {0} /\ up(p) = place
  BY <1>1
<1>3. CASE p <= n
  BY <1>2, <1>3
<1>4. CASE n < p
  <2>1. up(n) \in DOMAIN parents
    BY CycleIsEndless
  <2>2. PICK a \in 0 .. n, b \in 0 .. n : a < b /\ up(a) = up(b)
    <3> HIDE DEF Periods
    <3> QED
      BY <2>1, InsideMeetsACycle
  <2> DEFINE l == p - b
             q == a + l
  <2>3. l \in Nat /\ b + l = p /\ q \in Nat \ {0} /\ ~(p <= q)
    BY <1>2, <1>4, <2>2
  <2> HIDE DEF l, Periods
  <2>4. up(q) = up(p)
    <3>1. up(a + l) = up(b + l)
      BY <2>2, <2>3, AtRepeats
    <3> QED
      BY <2>3, <3>1
  <2> USE DEF Periods
  <2> HIDE DEF q
  <2>5. q \in Periods
    BY <1>2, <2>3, <2>4
  <2> QED
    BY <1>1, <2>3, <2>5
<1> QED
  BY <1>2, <1>3, <1>4

-----------------------------------------------------------------------------
(* What CheckCycles has seen, and what of it is a cycle.                   *)

Closed(parents, seen) ==
  /\ seen \subseteq DOMAIN parents
  /\ \A place \in seen : parents[place] \in DOMAIN parents => parents[place] \in seen

LEMMA SeenKeeps ==
  ASSUME NEW parents, NEW seen, Closed(parents, seen), NEW place \in seen, NEW k \in Nat,
         At(parents, place, k) \in DOMAIN parents
  PROVE  At(parents, place, k) \in seen
<1> DEFINE up(i) == At(parents, place, i)
           Lost == {i \in Nat : up(i) \in DOMAIN parents /\ up(i) \notin seen}
<1>1. up(0) = place /\ \A i \in Nat : up(i + 1) = Up(parents, up(i))
  BY AtSteps
<1> HIDE DEF up
<1>2. SUFFICES ASSUME Lost # {} PROVE FALSE
  BY DEF up
<1>3. PICK i \in Lost : \A m \in Lost : i <= m
  <2>1. Lost \subseteq Nat
    OBVIOUS
  <2> HIDE DEF Lost
  <2> QED
    BY <1>2, <2>1, SmallestIndex
<1>4. i # 0 /\ i \in Nat
  BY <1>1, <1>3
<1>5. PICK j \in Nat : i = j + 1
  <2>1. i - 1 \in Nat /\ i = (i - 1) + 1
    BY <1>4
  <2> QED
    BY <2>1
<1>6. ~(i <= j)
  BY <1>5
<1>7. up(i) = Up(parents, up(j)) /\ up(i) \in DOMAIN parents /\ up(i) \notin seen
  BY <1>1, <1>3, <1>5
<1>8. up(j) \in DOMAIN parents
  BY <1>7 DEF Up
<1>9. up(j) \in seen
  BY <1>3, <1>6, <1>8
<1>10. up(i) = parents[up(j)]
  BY <1>7, <1>8 DEF Up
<1> HIDE DEF Lost
<1> QED
  BY <1>7, <1>9, <1>10 DEF Closed

(* One walk adds places that are closed with what was seen, and finds      *)
(* those among them that are on a cycle.                                   *)
LEMMA CycleWalkFinds ==
  ASSUME NEW parents, IsFiniteSet(DOMAIN parents), NEW seen, Closed(parents, seen),
         NEW start \in DOMAIN parents \ seen
  PROVE  LET walk == CycleWalk(parents, seen, start)
         IN  /\ start \in walk.path
             /\ Closed(parents, seen \cup walk.path)
             /\ walk.cyclic = {place \in walk.path : OnCycle(parents, place)}
<1> DEFINE N     == Cardinality(DOMAIN parents)
           chain == Climb(parents, start, N + 1)
           again == {k \in DOMAIN chain : chain[k] \in seen \/ \E i \in 1 .. k - 1 : chain[i] = chain[k]}
           fresh == IF again = {} THEN Len(chain) ELSE Min(again) - 1
           met   == {i \in 1 .. fresh : again # {} /\ chain[i] = chain[Min(again)]}
           up(k) == At(parents, start, k)
           path   == {chain[i] : i \in 1 .. fresh}
           cyclic == {chain[i] : i \in {k \in 1 .. fresh : \E m \in met : k >= m}}
<1>1. CycleWalk(parents, seen, start).path = path /\ CycleWalk(parents, seen, start).cyclic = cyclic
  <2>1. CycleWalk(parents, seen, start) = [path |-> path, cyclic |-> cyclic]
    BY Zenon DEF CycleWalk
  <2> HIDE DEF path, cyclic
  <2> QED
    BY <2>1
<1>2. N \in Nat /\ N + 1 \in Nat \ {0} /\ Cardinality(DOMAIN parents) <= N
  <2>1. N \in Nat
    BY FS_CardinalityType
  <2> QED
    BY <2>1
<1> HIDE DEF N
<1>3. PICK length \in 1 .. N + 1 :
        /\ Len(chain) = length /\ DOMAIN chain = 1 .. length
        /\ \A k \in 1 .. length : chain[k] = up(k - 1) /\ up(k - 1) \in DOMAIN parents
        /\ length = N + 1 \/ up(length) \notin DOMAIN parents
  BY <1>2, ClimbLists
<1>4. \A k \in Nat : up(k + 1) = Up(parents, up(k))
  BY AtSteps
<1>5. up(0) = start
  BY AtSteps
<1> HIDE DEF chain, up
<1>6. again \subseteq 1 .. length /\ 1 \notin again
  <2>1. chain[1] = start
    BY <1>2, <1>3, <1>5
  <2> QED
    BY <1>3, <2>1
<1>7. again # {} => Min(again) \in again /\ \A k \in again : Min(again) <= k
  <2>1. again \subseteq Nat
    BY <1>6, <1>2
  <2> HIDE DEF again
  <2> QED
    BY <2>1, SmallestIndex DEF Min
<1>8. /\ fresh \in 1 .. length
      /\ again = {} => fresh = length
      /\ again # {} => Min(again) = fresh + 1 /\ fresh + 1 \in again
  <2> HIDE DEF again
  <2>1. CASE again = {}
    BY <1>3, <2>1
  <2>2. CASE again # {}
    <3> DEFINE least == Min(again)
    <3>1. least \in again /\ fresh = least - 1
      BY <1>7, <2>2
    <3> HIDE DEF least, fresh
    <3>2. least \in 1 .. length /\ least # 1
      BY <1>6, <3>1
    <3>3. fresh \in 1 .. length /\ least = fresh + 1
      BY <1>3, <3>1, <3>2
    <3> QED
      BY <2>2, <3>1, <3>3 DEF least
  <2> QED
    BY <2>1, <2>2
<1>9. fresh \in Nat /\ length \in Nat
  <2> HIDE DEF fresh
  <2> QED
    BY <1>2, <1>3, <1>8
<1>10. \A k \in 1 .. fresh : k \notin again
  <2> HIDE DEF again
  <2>1. \A k \in 1 .. fresh : ~(fresh + 1 <= k)
    <3> HIDE DEF fresh
    <3> QED
      BY <1>9
  <2> HIDE DEF fresh
  <2> QED
    BY <1>7, <1>8, <2>1
<1> HIDE DEF fresh
<1>11. \A k \in 1 .. fresh : chain[k] = up(k - 1) /\ chain[k] \in DOMAIN parents /\ chain[k] \notin seen
  BY <1>3, <1>8, <1>10, <1>9
<1>12. \A i, k \in 1 .. fresh : i < k => chain[i] # chain[k]
  BY <1>3, <1>8, <1>10, <1>9
<1>13. start \in path
  <2>1. 1 \in 1 .. fresh /\ chain[1] = start
    BY <1>2, <1>3, <1>5, <1>8
  <2> QED
    BY <2>1
<1>14. ASSUME NEW k \in 1 .. fresh
       PROVE  parents[chain[k]] = up(k) /\ (k # fresh => up(k) = chain[k + 1])
  <2>1. k - 1 \in Nat /\ (k - 1) + 1 = k
    BY <1>8, <1>9
  <2>2. up(k) = Up(parents, up(k - 1))
    BY <1>4, <2>1
  <2>3. parents[chain[k]] = up(k)
    BY <1>11, <2>2 DEF Up
  <2>4. k # fresh => k + 1 \in 1 .. fresh /\ (k + 1) - 1 = k
    BY <1>9
  <2> QED
    BY <1>11, <2>3, <2>4
<1> HIDE DEF path, cyclic
<1>15. ASSUME up(fresh) \in DOMAIN parents => up(fresh) \in seen \cup path
       PROVE  Closed(parents, seen \cup path)
  <2>1. \A k \in 1 .. fresh : up(k) \in DOMAIN parents => up(k) \in seen \cup path
    <3> SUFFICES ASSUME NEW k \in 1 .. fresh, k # fresh PROVE up(k) \in path
      BY <1>15
    <3>1. k + 1 \in 1 .. fresh
      BY <1>8, <1>9
    <3> QED
      BY <1>14, <3>1 DEF path
  <2>2. \A place \in path : place \in DOMAIN parents /\
          (parents[place] \in DOMAIN parents => parents[place] \in seen \cup path)
    BY <1>11, <1>14, <2>1 DEF path
  <2> QED
    BY <2>2 DEF Closed
(* From one place of the path a walk reaches the next ones.                *)
<1>16. ASSUME NEW k \in 1 .. fresh, NEW l \in Nat, k <= l
       PROVE  At(parents, chain[k], l - (k - 1)) = up(l) /\ l - (k - 1) \in Nat
  <2> DEFINE a == k - 1
             d == l - (k - 1)
  <2>1. a \in Nat /\ d \in Nat /\ a + d = l
    BY <1>16, <1>9
  <2>2. chain[k] = up(a)
    BY <1>11
  <2> HIDE DEF a, d
  <2>3. At(parents, up(a), d) = up(a + d)
    BY <2>1, AtGoesOn DEF up
  <2> QED
    BY <2>1, <2>2, <2>3 DEF d
<1>17. CASE again = {}
  <2>1. fresh = length
    BY <1>8, <1>17
  <2>2. up(length) \notin DOMAIN parents
    <3>1. SUFFICES ASSUME length = N + 1 PROVE FALSE
      BY <1>3
    <3>2. \A k \in 0 .. N : k + 1 \in 1 .. fresh /\ (k + 1) - 1 = k
      BY <1>2, <2>1, <3>1
    <3>3. \A k \in 0 .. N : up(k) \in DOMAIN parents /\ up(k) = chain[k + 1]
      BY <1>11, <3>2
    <3> DEFINE f == [k \in 0 .. N |-> up(k)]
    <3>4. PICK a \in 0 .. N, b \in 0 .. N : a < b /\ f[a] = f[b]
      <4>1. \A k \in 0 .. N : f[k] \in DOMAIN parents
        BY <3>3
      <4>2. Cardinality(DOMAIN parents) <= N
        BY <1>2
      <4> HIDE DEF f, N
      <4> QED
        BY <1>2, <4>1, <4>2, TwiceSomewhere
    <3>5. chain[a + 1] = chain[b + 1] /\ a + 1 < b + 1 /\ a + 1 \in 1 .. fresh /\ b + 1 \in 1 .. fresh
      BY <1>2, <3>2, <3>3, <3>4
    <3> QED
      BY <1>12, <3>5
  <2>3. Closed(parents, seen \cup path)
    BY <1>15, <2>1, <2>2
  <2>4. cyclic = {}
    BY <1>17 DEF cyclic
  <2>5. ASSUME NEW k \in 1 .. fresh PROVE ~OnCycle(parents, chain[k])
    <3>1. At(parents, chain[k], fresh - (k - 1)) = up(fresh) /\ fresh - (k - 1) \in Nat
      <4>1. fresh \in Nat /\ k <= fresh
        BY <1>8, <1>9
      <4> QED
        BY <1>16, <4>1
    <3> QED
      BY <1>11, <2>1, <2>2, <3>1, CycleIsEndless
  <2>6. cyclic = {place \in path : OnCycle(parents, place)}
    BY <2>4, <2>5 DEF path
  <2> QED
    BY <1>1, <1>13, <2>3, <2>6
<1>18. CASE again # {}
  <2>1. /\ fresh + 1 \in 1 .. length /\ chain[fresh + 1] = up(fresh) /\ fresh \in Nat
        /\ up(fresh) \in DOMAIN parents /\ Min(again) = fresh + 1
        /\ up(fresh) \in seen \/ \E i \in 1 .. fresh : chain[i] = up(fresh)
    <3>1. fresh + 1 \in again /\ fresh + 1 \in 1 .. length /\ (fresh + 1) - 1 = fresh /\ fresh \in Nat
      BY <1>2, <1>6, <1>8, <1>18
    <3>2. chain[fresh + 1] = up(fresh) /\ up(fresh) \in DOMAIN parents
      BY <1>3, <3>1
    <3>3. chain[fresh + 1] \in seen \/ \E i \in 1 .. (fresh + 1) - 1 : chain[i] = chain[fresh + 1]
      BY <3>1
    <3> QED
      BY <1>8, <1>18, <3>1, <3>2, <3>3
  <2>2. Closed(parents, seen \cup path)
    BY <1>15, <2>1 DEF path
  <2>3. met = {i \in 1 .. fresh : chain[i] = up(fresh)}
    BY <1>18, <2>1
  <2> HIDE DEF met, again
  <2>4. CASE up(fresh) \in seen
    <3>1. met = {}
      BY <1>11, <2>3, <2>4
    <3>2. cyclic = {}
      BY <3>1 DEF cyclic
    <3>3. ASSUME NEW k \in 1 .. fresh, OnCycle(parents, chain[k]) PROVE FALSE
      <4>1. At(parents, chain[k], fresh - (k - 1)) = up(fresh) /\ fresh - (k - 1) \in Nat
        <5>1. k <= fresh
          BY <1>8, <1>9
        <5> QED
          BY <1>16, <2>1, <5>1
      <4>2. PICK t \in Nat : At(parents, up(fresh), t) = chain[k]
        BY <3>3, <4>1, CycleReturns
      <4>3. chain[k] \in DOMAIN parents /\ chain[k] \notin seen
        BY <1>11
      <4>4. At(parents, up(fresh), t) \in seen
        BY <2>4, <4>2, <4>3, SeenKeeps
      <4> QED
        BY <4>2, <4>3, <4>4
    <3>4. cyclic = {place \in path : OnCycle(parents, place)}
      BY <3>2, <3>3 DEF path
    <3> QED
      BY <1>1, <1>13, <2>2, <3>4
  <2>5. CASE up(fresh) \notin seen
    <3>1. PICK q \in 1 .. fresh : chain[q] = up(fresh)
      BY <2>1, <2>5
    <3>2. met = {q}
      BY <1>8, <1>12, <2>3, <3>1
    <3> DEFINE c == q - 1
    <3>3. c \in Nat /\ c < fresh /\ up(c) = up(fresh) /\ q \in Nat /\ q = c + 1
      BY <1>8, <1>11, <2>1, <3>1
    <3> HIDE DEF c
    <3>4. ASSUME NEW k \in 1 .. fresh, q <= k PROVE OnCycle(parents, chain[k])
      <4> DEFINE d == k - q
      <4>1. d \in Nat /\ c + d = k - 1 /\ c + d < fresh + d /\ c + d \in Nat /\ fresh + d \in Nat
        BY <2>1, <3>3, <3>4
      <4> HIDE DEF d
      <4>2. up(c + d) = up(fresh + d)
        BY <2>1, <3>3, <4>1, AtRepeats DEF up
      <4>3. OnCycle(parents, up(c + d))
        BY <4>1, <4>2, TwiceIsACycle DEF up
      <4> QED
        BY <1>11, <4>1, <4>3
    <3>5. ASSUME NEW k \in 1 .. fresh, k < q, OnCycle(parents, chain[k]) PROVE FALSE
      <4>1. At(parents, chain[k], c - (k - 1)) = up(c) /\ c - (k - 1) \in Nat
        <5>1. k <= c
          BY <3>3, <3>5
        <5> QED
          BY <1>16, <3>3, <5>1
      <4>2. PICK t \in Nat : At(parents, up(c), t) = chain[k]
        BY <3>5, <4>1, CycleReturns
      <4>3. At(parents, up(c), t) = up(c + t)
        BY <3>3, AtGoesOn DEF up
      <4>4. c + t \in Nat /\ c <= c + t
        BY <3>3
      <4>5. PICK e \in c .. fresh - 1 : up(c + t) = up(e)
        BY <2>1, <3>3, <4>4, RoundTheCycle DEF up
      <4>6. e + 1 \in 1 .. fresh /\ k < e + 1 /\ (e + 1) - 1 = e
        BY <2>1, <3>3, <3>5, <4>5
      <4>7. chain[e + 1] = chain[k]
        BY <1>11, <4>2, <4>3, <4>5, <4>6
      <4> QED
        BY <1>12, <4>6, <4>7
    <3>6. cyclic = {chain[i] : i \in {k \in 1 .. fresh : k >= q}}
      BY <3>2 DEF cyclic
    <3>7. \A k \in 1 .. fresh : OnCycle(parents, chain[k]) <=> k >= q
      <4> SUFFICES ASSUME NEW k \in 1 .. fresh PROVE OnCycle(parents, chain[k]) <=> k >= q
        OBVIOUS
      <4>1. k >= q <=> q <= k
        BY <2>1, <3>3
      <4>2. ~(k >= q) <=> k < q
        BY <2>1, <3>3
      <4> QED
        BY <3>4, <3>5, <4>1, <4>2
    <3>8. cyclic = {place \in path : OnCycle(parents, place)}
      BY <3>6, <3>7 DEF path
    <3> QED
      BY <1>1, <1>13, <2>2, <3>8
  <2> QED
    BY <2>4, <2>5
<1> QED
  BY <1>17, <1>18

SeenAndFound(parents) ==
  {s \in [seen : SUBSET DOMAIN parents, cyclic : SUBSET DOMAIN parents] :
     Closed(parents, s.seen) /\ s.cyclic = {place \in s.seen : OnCycle(parents, place)}}

LEMMA VisitedKeeps ==
  ASSUME NEW parents, IsFiniteSet(DOMAIN parents), NEW s \in SeenAndFound(parents),
         NEW start \in DOMAIN parents
  PROVE  /\ Visited(parents, s, start) \in SeenAndFound(parents)
         /\ start \in Visited(parents, s, start).seen
         /\ s.seen \subseteq Visited(parents, s, start).seen
<1> DEFINE walk == CycleWalk(parents, s.seen, start)
           next == [seen |-> s.seen \cup walk.path, cyclic |-> s.cyclic \cup walk.cyclic]
<1>1. Closed(parents, s.seen) /\ s.cyclic = {place \in s.seen : OnCycle(parents, place)}
  BY DEF SeenAndFound
<1>2. CASE start \in s.seen
  <2>1. Visited(parents, s, start) = s
    BY <1>2 DEF Visited
  <2> QED
    BY <1>2, <2>1
<1>3. CASE start \notin s.seen
  <2>1. /\ start \in walk.path
        /\ Closed(parents, s.seen \cup walk.path)
        /\ walk.cyclic = {place \in walk.path : OnCycle(parents, place)}
    BY <1>1, <1>3, CycleWalkFinds
  <2>2. Visited(parents, s, start) = next
    BY <1>3, Zenon DEF Visited
  <2> HIDE DEF walk
  <2>3. next.seen = s.seen \cup walk.path /\ next.cyclic = s.cyclic \cup walk.cyclic
    OBVIOUS
  <2>4. next.cyclic = {place \in next.seen : OnCycle(parents, place)}
    BY <1>1, <2>1, <2>3
  <2>5. next.seen \subseteq DOMAIN parents
    BY <2>1, <2>3 DEF Closed
  <2>6. next \in SeenAndFound(parents)
    BY <2>1, <2>3, <2>4, <2>5 DEF SeenAndFound
  <2> QED
    BY <2>1, <2>2, <2>3, <2>6
<1> QED
  BY <1>2, <1>3

(* CheckCycles names the places on a cycle, in whatever order it starts    *)
(* from them.                                                              *)
LEMMA CyclesAreFound ==
  ASSUME NEW parents, IsFiniteSet(DOMAIN parents), NEW starts, IsSequence(starts),
         Range(starts) = DOMAIN parents
  PROVE  CheckCycles(parents, starts) = {place \in DOMAIN parents : OnCycle(parents, place)}
<1> DEFINE T == SeenAndFound(parents)
           n == Len(starts)
           base == [seen |-> {}, cyclic |-> {}]
           step == [i \in 1 .. n |-> [s \in T |-> Visited(parents, s, starts[i])]]
           IsSofar(f) == f = [i \in 0 .. n |-> IF i = 0 THEN base
                                               ELSE Visited(parents, f[i - 1], starts[i])]
           sofar == CHOOSE f : IsSofar(f)
<1>1. n \in Nat /\ DOMAIN starts = 1 .. n /\ \A i \in 1 .. n : starts[i] \in DOMAIN parents
  BY DEF IsSequence, Range
<1>2. CheckCycles(parents, starts) = sofar[n].cyclic
  BY Zenon DEF CheckCycles
<1> HIDE DEF n
<1>3. base \in T
  <2>1. base.seen = {} /\ base.cyclic = {}
    OBVIOUS
  <2> QED
    BY <2>1 DEF SeenAndFound, Closed
<1>4. step \in [1 .. n -> [T -> T]]
  <2>1. \A i \in 1 .. n, s \in T : Visited(parents, s, starts[i]) \in T
    BY <1>1, VisitedKeeps
  <2> HIDE DEF T
  <2> QED
    BY <2>1
<1>5. PICK f \in [0 .. n -> T] : GoesBy(f, n, base, step)
  <2> HIDE DEF T, step, base
  <2> QED
    BY <1>1, <1>3, <1>4, StepsExist
<1>6. IsSofar(f)
  <2>1. \A k \in 0 .. n : k # 0 => k \in 1 .. n /\ k - 1 \in 0 .. n
    BY <1>1
  <2>2. \A k \in 0 .. n : k # 0 => step[k][f[k - 1]] = Visited(parents, f[k - 1], starts[k])
    <3> HIDE DEF T
    <3> QED
      BY <1>5, <2>1
  <2> HIDE DEF T, step, base
  <2> QED
    BY <1>5, <2>2 DEF GoesBy
<1>7. IsSofar(sofar)
  <2> HIDE DEF IsSofar
  <2> QED
    BY <1>6
<1> HIDE DEF sofar
<1>8. \A i \in 0 .. n : sofar[i] = IF i = 0 THEN base ELSE Visited(parents, sofar[i - 1], starts[i])
  <2> HIDE DEF base
  <2> QED
    BY <1>7
<1> DEFINE Known(i) == sofar[i] \in T /\ \A k \in 1 .. i : starts[k] \in sofar[i].seen
           Short == {i \in 0 .. n : ~Known(i)}
<1>9. Short = {}
  <2>1. SUFFICES ASSUME Short # {} PROVE FALSE
    OBVIOUS
  <2>2. PICK i \in Short : \A m \in Short : i <= m
    <3>1. Short \subseteq Nat
      OBVIOUS
    <3> HIDE DEF Short
    <3> QED
      BY <2>1, <3>1, SmallestIndex
  <2>3. i \in 0 .. n /\ ~Known(i)
    BY <2>2
  <2>4. i # 0
    <3> HIDE DEF T, base
    <3> QED
      BY <1>1, <1>3, <1>8, <2>3
  <2>5. i \in 1 .. n /\ i - 1 \in 0 .. n /\ ~(i <= i - 1)
    BY <1>1, <2>3, <2>4
  <2>6. Known(i - 1)
    <3> HIDE DEF Known
    <3> QED
      BY <2>2, <2>5
  <2> DEFINE s == sofar[i - 1]
  <2>7. s \in T /\ starts[i] \in DOMAIN parents /\ sofar[i] = Visited(parents, s, starts[i])
    <3> HIDE DEF T, base
    <3> QED
      BY <1>1, <1>8, <2>4, <2>5, <2>6
  <2>8. \A k \in 1 .. i - 1 : starts[k] \in s.seen
    BY <2>6
  <2> HIDE DEF s
  <2>9. sofar[i] \in T /\ starts[i] \in sofar[i].seen /\ s.seen \subseteq sofar[i].seen
    BY <2>7, VisitedKeeps
  <2>10. \A k \in 1 .. i : k = i \/ k \in 1 .. i - 1
    BY <1>1, <2>5
  <2> HIDE DEF T
  <2> QED
    BY <2>3, <2>8, <2>9, <2>10
<1>10. Known(n)
  <2>1. n \in 0 .. n
    BY <1>1
  <2> HIDE DEF Known
  <2> QED
    BY <1>9, <2>1
<1>11. DOMAIN parents = sofar[n].seen
  <2>1. \A place \in DOMAIN parents : \E k \in 1 .. n : place = starts[k]
    BY <1>1 DEF Range
  <2>2. DOMAIN parents \subseteq sofar[n].seen
    BY <1>10, <2>1
  <2>3. sofar[n].seen \subseteq DOMAIN parents
    BY <1>10 DEF SeenAndFound
  <2> QED
    BY <2>2, <2>3
<1> QED
  BY <1>2, <1>10, <1>11 DEF SeenAndFound

LEMMA JointsAreFinite ==
  ASSUME NEW skeleton, IsSequence(skeleton)
  PROVE  /\ DOMAIN skeleton = 1 .. Len(skeleton) /\ Len(skeleton) \in Nat
         /\ IsFiniteSet(DOMAIN skeleton) /\ Cardinality(DOMAIN skeleton) = Len(skeleton)
<1>1. DOMAIN skeleton = 1 .. Len(skeleton) /\ Len(skeleton) \in Nat
  BY SequenceOver
<1> DEFINE count == Len(skeleton)
<1> HIDE DEF count
<1>2. ASSUME count \in Nat PROVE IsFiniteSet(1 .. count) /\ Cardinality(1 .. count) = count
  <2>1. Cardinality(1 .. count) = IF 1 > count THEN 0 ELSE count - 1 + 1
    BY <1>2, FS_Interval
  <2> QED
    BY <1>2, <2>1, FS_Interval
<1> QED
  BY <1>1, <1>2 DEF count

(* What validation says of a joint that keeps it from being evaluated.     *)
NamedJoints(skeleton) == {v[2] : v \in {v \in ValidateSkeleton(skeleton) : v[1] # "hierarchy-order"}}

LEMMA JointsAreNamed ==
  ASSUME NEW skeleton, IsSequence(skeleton)
  PROVE  NamedJoints(skeleton)
           = {j \in DOMAIN skeleton : skeleton[j] \notin DOMAIN skeleton \cup {0}
                                        \/ OnCycle(skeleton, j)}
<1> DEFINE joints  == DOMAIN skeleton
           invalid == {j \in joints : skeleton[j] \notin joints \cup {0}}
           late    == {j \in joints : skeleton[j] >= j /\ j \notin invalid}
           each    == [j \in joints |-> j]
           cyclic  == {j \in joints : OnCycle(skeleton, j)}
<1>1. IsSequence(each) /\ Range(each) = joints /\ IsFiniteSet(joints)
  <2>1. joints = 1 .. Len(skeleton) /\ Len(skeleton) \in Nat /\ IsFiniteSet(joints)
    BY JointsAreFinite
  <2>2. IsSequence([j \in 1 .. Len(skeleton) |-> j])
    BY <2>1, ListIsASequence
  <2>3. Range(each) = joints
    BY DEF Range
  <2> QED
    BY <2>1, <2>2, <2>3
<1>2. CheckCycles(skeleton, each) = cyclic
  <2> HIDE DEF each
  <2> QED
    BY <1>1, CyclesAreFound
<1>3. ValidateSkeleton(skeleton)
        = Named("invalid-parent", invalid) \cup Named("hierarchy-order", late)
            \cup Named("hierarchy-cycle", CheckCycles(skeleton, each))
  BY Zenon DEF ValidateSkeleton
<1> HIDE DEF invalid, late, cyclic, each
<1> DEFINE report == ValidateSkeleton(skeleton)
<1>4. \A v \in report : v[1] # "hierarchy-order" => v[2] \in invalid \cup cyclic
  BY <1>2, <1>3 DEF Named
<1>5. ASSUME NEW place \in invalid \cup cyclic
      PROVE  \E v \in report : v[1] # "hierarchy-order" /\ v[2] = place
  <2>1. CASE place \in invalid
    <3>1. <<"invalid-parent", place>> \in report
      BY <1>3, <2>1 DEF Named
    <3> HIDE DEF report
    <3> QED
      BY <3>1
  <2>2. CASE place \in cyclic
    <3>1. <<"hierarchy-cycle", place>> \in report
      BY <1>2, <1>3, <2>2 DEF Named
    <3> HIDE DEF report
    <3> QED
      BY <3>1
  <2> QED
    BY <2>1, <2>2
<1>6. NamedJoints(skeleton) = invalid \cup cyclic
  <2> HIDE DEF report
  <2>1. NamedJoints(skeleton) = {v[2] : v \in {v \in report : v[1] # "hierarchy-order"}}
    BY Zenon DEF NamedJoints, report
  <2> QED
    BY <1>4, <1>5, <2>1
<1> QED
  BY <1>6 DEF invalid, cyclic

LEMMA JointTransforms ==
  ASSUME NEW skeleton, IsSequence(skeleton), NEW j \in DOMAIN skeleton
  PROVE  HasWorldTransform(skeleton, j)
           <=> Range(RigChain(skeleton, j)) \cap NamedJoints(skeleton) = {}
<1> DEFINE N == Len(skeleton)
           chain == RigChain(skeleton, j)
           up(k) == At(skeleton, j, k)
<1>1. /\ N \in Nat \ {0} /\ IsFiniteSet(DOMAIN skeleton) /\ Cardinality(DOMAIN skeleton) <= N
      /\ 0 \notin DOMAIN skeleton
  BY JointsAreFinite
<1>2. PICK length \in 1 .. N :
        /\ Len(chain) = length /\ DOMAIN chain = 1 .. length
        /\ \A k \in 1 .. length : chain[k] = up(k - 1) /\ up(k - 1) \in DOMAIN skeleton
        /\ length = N \/ up(length) \notin DOMAIN skeleton
  <2> HIDE DEF N
  <2> QED
    BY <1>1, ClimbLists DEF RigChain, N
<1>3. \A k \in Nat : up(k + 1) = Up(skeleton, up(k))
  BY AtSteps
<1> HIDE DEF N, chain, up
<1>4. \A k \in 1 .. length : skeleton[chain[k]] = up(k) /\ chain[k] \in DOMAIN skeleton
  <2> SUFFICES ASSUME NEW k \in 1 .. length PROVE skeleton[chain[k]] = up(k)
    BY <1>2
  <2>1. k - 1 \in Nat /\ (k - 1) + 1 = k
    BY <1>1, <1>2
  <2> QED
    BY <1>2, <1>3, <2>1 DEF Up
<1>5. HasWorldTransform(skeleton, j) <=> up(length) = 0
  <2>1. Last(chain) = chain[length] /\ length \in 1 .. length
    BY <1>1, <1>2 DEF Last
  <2>2. HasWorldTransform(skeleton, j) <=> skeleton[Last(chain)] = 0
    BY Zenon DEF HasWorldTransform, chain
  <2> QED
    BY <1>4, <2>1, <2>2
<1>6. \A place : place \in NamedJoints(skeleton) <=>
        /\ place \in DOMAIN skeleton
        /\ skeleton[place] \notin DOMAIN skeleton \cup {0} \/ OnCycle(skeleton, place)
  BY JointsAreNamed
<1>7. CASE up(length) \notin DOMAIN skeleton
  <2>1. ASSUME NEW k \in 1 .. length PROVE ~OnCycle(skeleton, chain[k])
    <3> DEFINE a == k - 1
               d == length - a
    <3>1. a \in Nat /\ d \in Nat /\ a + d = length
      BY <1>1, <1>2
    <3> HIDE DEF a, d
    <3>2. At(skeleton, up(a), d) = up(length)
      <4>1. At(skeleton, up(a), d) = up(a + d)
        BY <3>1, AtGoesOn DEF up
      <4> QED
        BY <3>1, <4>1
    <3>3. chain[k] = up(a) /\ chain[k] \in DOMAIN skeleton
      BY <1>2 DEF a
    <3> QED
      BY <1>7, <3>1, <3>2, <3>3, CycleIsEndless
  <2>2. ASSUME NEW k \in 1 .. length, k # length PROVE skeleton[chain[k]] \in DOMAIN skeleton
    <3>1. k + 1 \in 1 .. length /\ (k + 1) - 1 = k
      BY <1>1, <1>2, <2>2
    <3> QED
      BY <1>2, <1>4, <3>1
  <2>3. length \in 1 .. length /\ skeleton[chain[length]] = up(length)
    BY <1>1, <1>2, <1>4
  <2>4. Range(chain) \cap NamedJoints(skeleton) = {} <=> up(length) = 0
    <3>1. \A k \in 1 .. length : chain[k] \in NamedJoints(skeleton) <=> k = length /\ up(length) # 0
      BY <1>4, <1>6, <1>7, <2>1, <2>2, <2>3
    <3>2. Range(chain) = {chain[k] : k \in 1 .. length}
      BY <1>2 DEF Range
    <3> QED
      BY <2>3, <3>1, <3>2
  <2> QED
    BY <1>5, <2>4 DEF chain
<1>8. CASE up(length) \in DOMAIN skeleton
  <2>1. length = N /\ up(length) # 0
    BY <1>1, <1>2, <1>8
  <2>2. PICK a \in 0 .. N, b \in 0 .. N : a < b /\ up(a) = up(b)
    BY <1>1, <1>8, <2>1, InsideMeetsACycle DEF up
  <2>3. a \in Nat /\ b \in Nat /\ a + 1 \in 1 .. length /\ (a + 1) - 1 = a
    BY <1>1, <2>1, <2>2
  <2>4. OnCycle(skeleton, up(a))
    BY <2>2, <2>3, TwiceIsACycle DEF up
  <2>5. chain[a + 1] \in NamedJoints(skeleton) /\ chain[a + 1] \in Range(chain)
    BY <1>2, <1>6, <2>3, <2>4 DEF Range
  <2> QED
    BY <1>5, <2>1, <2>5 DEF chain
<1> QED
  BY <1>7, <1>8

(* One more than a climb, from its second place on: where the walk goes    *)
(* after its start.                                                        *)
LEMMA BoneCycles ==
  ASSUME NEW rest, DOMAIN rest = Bones, NEW bone \in Bones
  PROVE  <<"hierarchy-cycle", bone>> \in ValidateSourceRestPose(rest)
           <=> bone \in Range(Tail(Append(SourceChain(rest, bone), rest[Last(SourceChain(rest, bone))])))
<1> DEFINE N == Len(Vocabulary)
           chain == SourceChain(rest, bone)
           up(k) == At(rest, bone, k)
<1>1. /\ IsSequence(Vocabulary) /\ Range(Vocabulary) = DOMAIN rest
      /\ DOMAIN Vocabulary = 1 .. N /\ N \in Nat
  BY RetargetAssumption, SequenceOver DEF Bones
<1>2. N \in Nat \ {0} /\ IsFiniteSet(DOMAIN rest) /\ Cardinality(DOMAIN rest) <= N
  <2>1. Vocabulary \in Surjection(1 .. N, Bones)
    <3>1. Vocabulary \in Seq(Bones)
      BY <1>1 DEF IsSequence, Bones
    <3>2. Vocabulary \in [1 .. N -> Bones]
      BY <1>1, <3>1
    <3> QED
      BY <1>1, <3>2 DEF Surjection, Bones, Range
  <2> HIDE DEF N
  <2>2. IsFiniteSet(1 .. N) /\ Cardinality(1 .. N) = N
    <3>1. IsFiniteSet(1 .. N) /\ Cardinality(1 .. N) = IF 1 > N THEN 0 ELSE N - 1 + 1
      BY <1>1, FS_Interval
    <3> QED
      BY <1>1, <3>1
  <2>3. IsFiniteSet(Bones) /\ Cardinality(Bones) <= Cardinality(1 .. N)
    BY <2>1, <2>2, FS_Surjection, Zenon
  <2>4. N # 0
    <3>1. \E i \in 1 .. N : Vocabulary[i] = bone
      BY <1>1 DEF Range, Bones
    <3> QED
      BY <3>1
  <2> QED
    BY <1>1, <2>2, <2>3, <2>4
<1>3. <<"hierarchy-cycle", bone>> \in ValidateSourceRestPose(rest) <=> OnCycle(rest, bone)
  <2>1. CheckCycles(rest, Vocabulary) = {place \in DOMAIN rest : OnCycle(rest, place)}
    BY <1>1, <1>2, CyclesAreFound
  <2> DEFINE cyclic == CheckCycles(rest, Vocabulary)
             outside == {b \in Bones : rest[b] = Outside}
  <2>2. ValidateSourceRestPose(rest) = Named("invalid-parent", outside) \cup Named("hierarchy-cycle", cyclic)
    BY Zenon DEF ValidateSourceRestPose
  <2>3. bone \in cyclic <=> OnCycle(rest, bone)
    BY <2>1
  <2> HIDE DEF outside, cyclic
  <2> QED
    BY <2>2, <2>3 DEF Named
<1>4. PICK length \in 1 .. N :
        /\ IsSequence(chain) /\ Len(chain) = length /\ DOMAIN chain = 1 .. length
        /\ \A k \in 1 .. length : chain[k] = up(k - 1) /\ up(k - 1) \in DOMAIN rest
        /\ length = N \/ up(length) \notin DOMAIN rest
  <2> HIDE DEF N
  <2> QED
    BY <1>2, ClimbLists DEF SourceChain, N
<1>5. \A k \in Nat : up(k + 1) = Up(rest, up(k))
  BY AtSteps
<1> DEFINE next == rest[Last(chain)]
           after == Tail(Append(chain, next))
<1> HIDE DEF N, chain, up
<1>6. next = up(length)
  <2>1. length \in Nat /\ length - 1 \in Nat /\ (length - 1) + 1 = length /\ length \in 1 .. length
    BY <1>2, <1>4
  <2>2. next = rest[up(length - 1)]
    BY <1>4, <2>1 DEF Last
  <2> QED
    BY <1>4, <1>5, <2>1, <2>2 DEF Up
<1>7. Range(after) = {up(k) : k \in 1 .. length}
  <2>1. chain \in Seq(Range(chain) \cup {next})
    <3>1. chain \in Seq(Range(chain))
      BY <1>4 DEF IsSequence
    <3> HIDE DEF next
    <3> QED
      BY <3>1
  <2> HIDE DEF next
  <2> DEFINE longer == Append(chain, next)
  <2>2. /\ longer \in Seq(Range(chain) \cup {next}) /\ Len(longer) = length + 1
        /\ \A k \in 1 .. length : longer[k] = chain[k]
        /\ longer[length + 1] = next
    BY <1>4, <2>1
  <2> HIDE DEF longer
  <2>3. /\ after = Tail(longer) /\ length \in Nat /\ longer # << >>
    BY <1>2, <1>4, <2>2 DEF longer
  <2>4. /\ DOMAIN after = 1 .. length
        /\ \A k \in 1 .. length : after[k] = longer[k + 1]
    BY <2>2, <2>3
  <2>5. \A k \in 1 .. length : after[k] = up(k)
    <3> SUFFICES ASSUME NEW k \in 1 .. length PROVE longer[k + 1] = up(k)
      BY <2>4
    <3>1. CASE k = length
      BY <1>6, <2>2, <3>1
    <3>2. CASE k # length
      <4>1. k + 1 \in 1 .. length /\ (k + 1) - 1 = k
        BY <2>3, <3>2
      <4> QED
        BY <1>4, <2>2, <4>1
    <3> QED
      BY <3>1, <3>2
  <2> HIDE DEF after
  <2> QED
    BY <2>4, <2>5 DEF Range
<1>8. bone \in DOMAIN rest
  OBVIOUS
<1>9. ASSUME OnCycle(rest, bone) PROVE \E k \in 1 .. length : up(k) = bone
  <2>1. up(length) \in DOMAIN rest
    BY <1>2, <1>4, <1>8, <1>9, CycleIsEndless DEF up
  <2>2. length = N
    BY <1>4, <2>1
  <2> QED
    BY <1>2, <1>8, <1>9, <2>2, CycleIsShort DEF up
<1>10. ASSUME NEW k \in 1 .. length, up(k) = bone PROVE OnCycle(rest, bone)
  <2>1. k \in Nat \ {0}
    BY <1>2, <1>4
  <2> QED
    BY <1>10, <2>1 DEF OnCycle, up
<1> QED
  BY <1>3, <1>7, <1>9, <1>10 DEF chain

(* A joint of a malformed rig has no world transform just when validation  *)
(* names a joint on its way up, and a bone's rest is called cyclic just    *)
(* when the bone is its own ancestor, for every rig, rest and vocabulary   *)
(* (PoseRetargeter.cpp:112, Validation.cpp:12).                            *)
THEOREM TransformsFailWhereNamed == RetargetSpec => []TransformsFailWhereValidationSaysSo
<1>1. RetargetInv => TransformsFailWhereValidationSaysSo
  <2> SUFFICES ASSUME RetargetInv, rig # Absent
               PROVE  TransformsFailWhereValidationSaysSo
    BY DEF TransformsFailWhereValidationSaysSo
  <2>1. IsSequence(rig.skeleton) /\ DOMAIN rig.rest = Bones
    BY DEF RetargetInv, IsBuilt
  <2> DEFINE report == ValidateRetargetConfiguration(rig)
             named  == {v[2] : v \in {v \in report.skeleton : v[1] # "hierarchy-order"}}
  <2>2. report.skeleton = ValidateSkeleton(rig.skeleton) /\ report.rest = ValidateSourceRestPose(rig.rest)
    BY DEF ValidateRetargetConfiguration
  <2>3. named = NamedJoints(rig.skeleton)
    <3> HIDE DEF report
    <3> QED
      BY <2>2, Zenon DEF NamedJoints
  <2>4. \A j \in DOMAIN rig.skeleton :
          HasWorldTransform(rig.skeleton, j) <=> Range(RigChain(rig.skeleton, j)) \cap named = {}
    <3> HIDE DEF named
    <3> QED
      BY <2>1, <2>3, JointTransforms
  <2>5. \A b \in Bones :
          <<"hierarchy-cycle", b>> \in report.rest
            <=> b \in Range(Tail(Append(SourceChain(rig.rest, b), rig.rest[Last(SourceChain(rig.rest, b))])))
    <3> HIDE DEF report
    <3> QED
      BY <2>1, <2>2, BoneCycles
  <2> QED
    BY <2>4, <2>5, Zenon DEF TransformsFailWhereValidationSaysSo
<1> QED
  BY <1>1, RetargetInvHolds, PTL

-----------------------------------------------------------------------------
(* Words: products of rotations that nobody evaluates.                     *)

(* A rotation undone twice is the rotation.                                *)
IsLetter(letter) == Undone(Undone(letter)) = letter

(* What a product comes to when k letters of each word cancel.             *)
Joined(w, v, k) ==
  [i \in 1 .. (Len(w) - k) + (Len(v) - k) |->
     IF i <= Len(w) - k THEN w[i] ELSE v[(i - (Len(w) - k)) + k]]

Cancels(w, v, k) ==
  /\ k \in Nat /\ k <= Len(w) /\ k <= Len(v)
  /\ \A i \in 1 .. k : w[Len(w) + 1 - i] = Undone(v[i])
  /\ k < Len(w) /\ k < Len(v) => w[Len(w) - k] # Undone(v[k + 1])

LEMMA WordIs ==
  ASSUME NEW w, IsWord(w)
  PROVE  /\ Len(w) \in Nat /\ DOMAIN w = 1 .. Len(w) /\ w \in Seq(Range(w))
         /\ w = [i \in 1 .. Len(w) |-> w[i]]
<1>1. w \in Seq(Range(w))
  BY DEF IsWord, IsLetter, IsSequence
<1> QED
  BY <1>1

(* Some number of letters cancel, the most that do.                        *)
LEMMA TimesJoins ==
  ASSUME NEW w, IsWord(w), NEW v, IsWord(v), NEW k, Cancels(w, v, k)
  PROVE  Times(w, v) = Joined(w, v, k)
<1> DEFINE m == Len(w)
           n == Len(v)
           meets(i) == \A h \in 1 .. i : w[m + 1 - h] = Undone(v[h])
           shorter == IF m <= n THEN m ELSE n
           meeting == {i \in 0 .. shorter : meets(i)}
           gone == Max(meeting)
<1>1. m \in Nat /\ n \in Nat /\ w \in Seq(Range(w)) /\ v \in Seq(Range(v))
  BY WordIs
<1>2. Times(w, v) = SubSeq(w, 1, m - gone) \o SubSeq(v, gone + 1, n)
  BY Zenon DEF Times
<1>3. k \in meeting
  BY <1>1 DEF Cancels
<1>4. \A i \in meeting : i <= k
  <2> SUFFICES ASSUME NEW i \in meeting, k < i PROVE FALSE
    BY <1>1 DEF Cancels
  <2>1. k + 1 \in 1 .. i /\ k < m /\ k < n /\ m + 1 - (k + 1) = m - k
    BY <1>1 DEF Cancels
  <2>2. w[m + 1 - (k + 1)] = Undone(v[k + 1])
    BY <2>1
  <2> QED
    BY <2>1, <2>2 DEF Cancels
<1>5. gone = k
  <2> DEFINE M == meeting
  <2>1. k \in M /\ (\A i \in M : i <= k) /\ M \subseteq Int
    BY <1>3, <1>4
  <2> HIDE DEF M
  <2>2. Max(M) = k
    <3>1. Max(M) = CHOOSE x \in M : \A y \in M : x >= y
      BY DEF Max
    <3>2. \E x \in M : \A y \in M : x >= y
      BY <2>1
    <3> DEFINE most == Max(M)
    <3>3. most \in M /\ \A y \in M : most >= y
      BY <3>1, <3>2
    <3> HIDE DEF most
    <3>4. most \in Int /\ k \in Int /\ most <= k /\ most >= k
      BY <2>1, <3>3
    <3>5. most = k
      BY <3>4
    <3> QED
      BY <3>5 DEF most
  <2> QED
    BY <2>2 DEF M
<1> HIDE DEF gone
<1> DEFINE a == m - k
           b == n - k
           left == SubSeq(w, 1, a)
           right == SubSeq(v, k + 1, n)
<1>6. a \in Nat /\ b \in Nat /\ k \in Nat
  BY <1>1 DEF Cancels
<1>7. /\ left \in Seq(Range(w)) /\ Len(left) = a
      /\ \A i \in 1 .. a : left[i] = w[i]
  BY <1>1, <1>6, SubSeqProperties
<1>8. /\ right \in Seq(Range(v)) /\ Len(right) = b
      /\ \A i \in 1 .. b : right[i] = v[i + k]
  <2> DEFINE from == k + 1
  <2>1. /\ from \in 1 .. n + 1 /\ n \in from - 1 .. n /\ n - from + 1 = b
        /\ (IF from <= n THEN n - from + 1 ELSE 0) = b
        /\ \A i \in 1 .. b : from + i - 1 = i + k
    BY <1>1, <1>6
  <2>2. right = SubSeq(v, from, n)
    OBVIOUS
  <2> HIDE DEF from, right, b
  <2>3. /\ right \in Seq(Range(v)) /\ Len(right) = IF from <= n THEN n - from + 1 ELSE 0
        /\ \A i \in 1 .. n - from + 1 : right[i] = v[from + i - 1]
    BY <1>1, <2>1, <2>2, SubSeqProperties
  <2> QED
    BY <2>1, <2>3
<1> DEFINE S == Range(w) \cup Range(v)
<1>9. left \in Seq(S) /\ right \in Seq(S)
  BY <1>7, <1>8
<1> HIDE DEF left, right, S, a, b
<1>10. left \o right = [i \in 1 .. a + b |-> IF i <= a THEN left[i] ELSE right[i - a]]
  <2> DEFINE both == left \o right
  <2>1. /\ both \in Seq(S) /\ Len(both) = a + b
        /\ \A i \in 1 .. a + b : both[i] = IF i <= a THEN left[i] ELSE right[i - a]
    BY <1>7, <1>8, <1>9, ConcatProperties
  <2> HIDE DEF both
  <2>2. both = [i \in 1 .. a + b |-> both[i]]
    BY <2>1
  <2> QED
    BY <2>1, <2>2 DEF both
<1>11. \A i \in 1 .. a + b : (IF i <= a THEN left[i] ELSE right[i - a]) = (IF i <= a THEN w[i] ELSE v[(i - a) + k])
  BY <1>6, <1>7, <1>8
<1>12. left \o right = [i \in 1 .. a + b |-> IF i <= a THEN w[i] ELSE v[(i - a) + k]]
  BY <1>10, <1>11
<1> QED
  BY <1>2, <1>5, <1>12 DEF left, right, Joined, a, b

LEMMA SomeCancel ==
  ASSUME NEW w, IsWord(w), NEW v, IsWord(v)
  PROVE  \E k \in Nat : Cancels(w, v, k)
<1> DEFINE m == Len(w)
           n == Len(v)
           Stop == {k \in Nat : k = m \/ k = n \/ w[m - k] # Undone(v[k + 1])}
<1>1. m \in Nat /\ n \in Nat
  BY WordIs
<1>2. PICK k \in Stop : \A i \in Stop : k <= i
  <2>1. Stop \subseteq Nat /\ m \in Stop
    BY <1>1
  <2> HIDE DEF Stop
  <2> QED
    BY <2>1, SmallestIndex
<1>3. k \in Nat /\ k <= m /\ k <= n
  <2>1. m \in Stop /\ n \in Stop
    BY <1>1
  <2> QED
    BY <1>2, <2>1
<1>4. \A i \in 1 .. k : w[m + 1 - i] = Undone(v[i])
  <2> SUFFICES ASSUME NEW i \in 1 .. k PROVE w[m + 1 - i] = Undone(v[i])
    OBVIOUS
  <2>1. i - 1 \in Nat /\ ~(k <= i - 1) /\ m - (i - 1) = m + 1 - i /\ (i - 1) + 1 = i
    BY <1>1, <1>3
  <2>2. i - 1 \notin Stop
    BY <1>2, <2>1
  <2> QED
    BY <2>1, <2>2
<1>5. k < m /\ k < n => w[m - k] # Undone(v[k + 1])
  BY <1>1, <1>2
<1> QED
  BY <1>3, <1>4, <1>5 DEF Cancels

(* The product of two words, letter by letter.                             *)
JoinsAt(x, w, v, k) ==
  /\ IsSequence(x) /\ DOMAIN x = 1 .. Len(x) /\ Len(x) = (Len(w) - k) + (Len(v) - k)
  /\ \A i \in 1 .. Len(x) : x[i] = IF i <= Len(w) - k THEN w[i] ELSE v[(i - (Len(w) - k)) + k]

LEMMA JoinedIs ==
  ASSUME NEW w, IsWord(w), NEW v, IsWord(v), NEW k, Cancels(w, v, k)
  PROVE  JoinsAt(Joined(w, v, k), w, v, k)
<1> DEFINE n == (Len(w) - k) + (Len(v) - k)
           x == Joined(w, v, k)
<1>1. n \in Nat
  BY WordIs DEF Cancels
<1>2. /\ x = [i \in 1 .. n |-> x[i]]
      /\ \A i \in 1 .. n : x[i] = IF i <= Len(w) - k THEN w[i] ELSE v[(i - (Len(w) - k)) + k]
  BY DEF Joined
<1> HIDE DEF n, x
<1>3. IsSequence(x) /\ Len(x) = n /\ DOMAIN x = 1 .. n
  BY <1>1, <1>2, ListIsASequence
<1> QED
  BY <1>2, <1>3 DEF JoinsAt, n, x

LEMMA TimesIs ==
  ASSUME NEW w, IsWord(w), NEW v, IsWord(v)
  PROVE  \E k \in Nat : Cancels(w, v, k) /\ JoinsAt(Times(w, v), w, v, k)
<1>1. PICK k \in Nat : Cancels(w, v, k)
  BY SomeCancel
<1>2. Times(w, v) = Joined(w, v, k)
  BY <1>1, TimesJoins
<1>3. JoinsAt(Times(w, v), w, v, k)
  BY <1>1, <1>2, JoinedIs
<1> QED
  BY <1>1, <1>3

LEMMA TimesIsAWord ==
  ASSUME NEW w, IsWord(w), NEW v, IsWord(v)
  PROVE  IsWord(Times(w, v)) /\ Range(Times(w, v)) \subseteq Range(w) \cup Range(v)
<1> DEFINE m == Len(w)
           n == Len(v)
           x == Times(w, v)
<1>1. /\ m \in Nat /\ n \in Nat /\ DOMAIN w = 1 .. m /\ DOMAIN v = 1 .. n
      /\ \A i \in 1 .. m : IsLetter(w[i]) /\ (i + 1 \in 1 .. m => w[i] # Undone(w[i + 1]))
      /\ \A i \in 1 .. n : IsLetter(v[i]) /\ (i + 1 \in 1 .. n => v[i] # Undone(v[i + 1]))
  BY WordIs DEF IsWord, IsLetter
<1>2. PICK k \in Nat : Cancels(w, v, k) /\ JoinsAt(x, w, v, k)
  BY TimesIs
<1>3. /\ k <= m /\ k <= n
      /\ k < m /\ k < n => w[m - k] # Undone(v[k + 1])
  BY <1>2 DEF Cancels
<1> HIDE DEF x
<1>4. /\ IsSequence(x) /\ Len(x) = (m - k) + (n - k) /\ DOMAIN x = 1 .. (m - k) + (n - k)
      /\ \A i \in 1 .. (m - k) + (n - k) : x[i] = IF i <= m - k THEN w[i] ELSE v[(i - (m - k)) + k]
  BY <1>2 DEF JoinsAt
<1> HIDE DEF m, n
<1>5. \A i \in DOMAIN x : (i <= m - k => i \in 1 .. m) /\ (~(i <= m - k) => (i - (m - k)) + k \in 1 .. n)
  <2> SUFFICES ASSUME NEW i \in 1 .. (m - k) + (n - k)
               PROVE  (i <= m - k => i \in 1 .. m) /\ (~(i <= m - k) => (i - (m - k)) + k \in 1 .. n)
    BY <1>4
  <2>1. m \in Nat /\ n \in Nat /\ k <= m /\ k <= n
    BY <1>1, <1>3
  <2> QED
    BY <2>1
<1>6. \A i \in DOMAIN x : IsLetter(x[i]) /\ x[i] \in Range(w) \cup Range(v)
  BY <1>1, <1>4, <1>5 DEF Range
<1>7. ASSUME NEW i \in DOMAIN x, i + 1 \in DOMAIN x PROVE x[i] # Undone(x[i + 1])
  <2>1. i \in Nat /\ i + 1 \in Nat
    BY <1>1, <1>3, <1>4
  <2>2. CASE i + 1 <= m - k
    <3>1. i <= m - k
      BY <2>1, <2>2, <1>1
    <3>2. x[i] = w[i] /\ x[i + 1] = w[i + 1] /\ i \in 1 .. m /\ i + 1 \in 1 .. m
      BY <1>4, <1>5, <1>7, <2>2, <3>1
    <3> QED
      BY <1>1, <3>2
  <2>3. CASE i = m - k
    <3>1. x[i] = w[m - k] /\ x[i + 1] = v[k + 1] /\ k < m /\ k < n
      <4>1. ((i + 1) - (m - k)) + k = k + 1 /\ ~(i + 1 <= m - k) /\ i <= m - k
        BY <1>1, <2>1, <2>3
      <4>2. k < m /\ k < n
        BY <1>1, <1>4, <1>7, <2>1, <2>3
      <4> QED
        BY <1>4, <1>7, <2>3, <4>1, <4>2
    <3> QED
      BY <1>3, <3>1
  <2>4. CASE ~(i <= m - k)
    <3> DEFINE j == (i - (m - k)) + k
    <3>1. ~(i + 1 <= m - k) /\ ((i + 1) - (m - k)) + k = j + 1
      BY <1>1, <2>1, <2>4
    <3>2. j \in 1 .. n /\ j + 1 \in 1 .. n
      BY <1>5, <1>7, <2>4, <3>1
    <3>3. x[i] = v[j] /\ x[i + 1] = v[j + 1]
      BY <1>4, <1>7, <2>4, <3>1
    <3> HIDE DEF j
    <3> QED
      BY <1>1, <3>2, <3>3
  <2> QED
    BY <1>1, <2>1, <2>2, <2>3, <2>4
<1>8. IsWord(x)
  BY <1>4, <1>6, <1>7 DEF IsWord, IsLetter
<1>9. Range(x) \subseteq Range(w) \cup Range(v)
  BY <1>6 DEF Range
<1> QED
  BY <1>8, <1>9 DEF x

(* Three words in a row: X is the product of the first two, Y of the last  *)
(* two.                                                                    *)
Row(u, v, w, X, Y, p, q) ==
  /\ IsWord(u) /\ IsWord(v) /\ IsWord(w) /\ IsWord(X) /\ IsWord(Y)
  /\ Cancels(u, v, p) /\ JoinsAt(X, u, v, p)
  /\ Cancels(v, w, q) /\ JoinsAt(Y, v, w, q)

RowNumbers(u, v, w, X, Y, a, b, c, p, q) ==
  /\ a \in Nat /\ b \in Nat /\ c \in Nat /\ p \in Nat /\ q \in Nat
  /\ p <= a /\ p <= b /\ q <= b /\ q <= c
  /\ Len(u) = a /\ Len(v) = b /\ Len(w) = c
  /\ Len(X) = (a - p) + (b - p) /\ Len(Y) = (b - q) + (c - q)

RowLetters(u, v, w, X, Y, a, b, c, p, q) ==
  /\ \A i \in 1 .. a - p : X[i] = u[i]
  /\ \A i \in p + 1 .. b : X[(i + a) - 2 * p] = v[i]
  /\ \A i \in 1 .. b - q : Y[i] = v[i]
  /\ \A i \in q + 1 .. c : Y[(i + b) - 2 * q] = w[i]

RowMeets(u, v, w, a, b, c, p, q) ==
  /\ \A i \in 1 .. p : u[(a + 1) - i] = Undone(v[i])
  /\ \A i \in 1 .. q : v[(b + 1) - i] = Undone(w[i])
  /\ p < a /\ p < b => u[a - p] # Undone(v[p + 1])
  /\ q < b /\ q < c => v[b - q] # Undone(w[q + 1])

LEMMA RowIs ==
  ASSUME NEW u, NEW v, NEW w, NEW X, NEW Y, NEW p, NEW q, Row(u, v, w, X, Y, p, q)
  PROVE  /\ RowNumbers(u, v, w, X, Y, Len(u), Len(v), Len(w), p, q)
         /\ RowLetters(u, v, w, X, Y, Len(u), Len(v), Len(w), p, q)
         /\ RowMeets(u, v, w, Len(u), Len(v), Len(w), p, q)
<1> DEFINE a == Len(u)
           b == Len(v)
           c == Len(w)
<1>1. /\ a \in Nat /\ b \in Nat /\ c \in Nat /\ p \in Nat /\ q \in Nat
      /\ p <= a /\ p <= b /\ q <= b /\ q <= c
  BY WordIs DEF Row, Cancels
<1>2. /\ Len(X) = (a - p) + (b - p)
      /\ \A i \in 1 .. (a - p) + (b - p) : X[i] = IF i <= a - p THEN u[i] ELSE v[(i - (a - p)) + p]
      /\ Len(Y) = (b - q) + (c - q)
      /\ \A i \in 1 .. (b - q) + (c - q) : Y[i] = IF i <= b - q THEN v[i] ELSE w[(i - (b - q)) + q]
  BY DEF Row, JoinsAt
<1>3. RowNumbers(u, v, w, X, Y, a, b, c, p, q)
  BY <1>1, <1>2 DEF RowNumbers
<1>4. RowMeets(u, v, w, a, b, c, p, q)
  <2>1. /\ \A i \in 1 .. p : u[a + 1 - i] = Undone(v[i])
        /\ \A i \in 1 .. q : v[b + 1 - i] = Undone(w[i])
        /\ p < a /\ p < b => u[a - p] # Undone(v[p + 1])
        /\ q < b /\ q < c => v[b - q] # Undone(w[q + 1])
    BY DEF Row, Cancels
  <2> HIDE DEF a, b, c
  <2> QED
    BY <1>1, <2>1 DEF RowMeets
<1> HIDE DEF a, b, c
<1>5. ASSUME NEW i \in 1 .. a - p PROVE X[i] = u[i]
  <2>1. i \in 1 .. (a - p) + (b - p) /\ i <= a - p
    BY <1>1
  <2> QED
    BY <1>2, <2>1
<1>6. ASSUME NEW i \in p + 1 .. b PROVE X[(i + a) - 2 * p] = v[i]
  <2> DEFINE j == (i + a) - 2 * p
  <2>1. j \in 1 .. (a - p) + (b - p) /\ ~(j <= a - p) /\ (j - (a - p)) + p = i
    BY <1>1
  <2> HIDE DEF j
  <2>2. X[j] = v[i]
    BY <1>2, <2>1
  <2> QED
    BY <2>2 DEF j
<1>7. ASSUME NEW i \in 1 .. b - q PROVE Y[i] = v[i]
  <2>1. i \in 1 .. (b - q) + (c - q) /\ i <= b - q
    BY <1>1
  <2> QED
    BY <1>2, <2>1
<1>8. ASSUME NEW i \in q + 1 .. c PROVE Y[(i + b) - 2 * q] = w[i]
  <2> DEFINE j == (i + b) - 2 * q
  <2>1. j \in 1 .. (b - q) + (c - q) /\ ~(j <= b - q) /\ (j - (b - q)) + q = i
    BY <1>1
  <2> HIDE DEF j
  <2>2. Y[j] = w[i]
    BY <1>2, <2>1
  <2> QED
    BY <2>2 DEF j
<1>9. RowLetters(u, v, w, X, Y, a, b, c, p, q)
  BY <1>5, <1>6, <1>7, <1>8 DEF RowLetters
<1> QED
  BY <1>3, <1>4, <1>9 DEF a, b, c

(* Two products that come to the same letters.                             *)
Alike(w, v, k, x, y, h) ==
  /\ (Len(w) - k) + (Len(v) - k) = (Len(x) - h) + (Len(y) - h)
  /\ \A i \in 1 .. (Len(w) - k) + (Len(v) - k) :
       (IF i <= Len(w) - k THEN w[i] ELSE v[(i - (Len(w) - k)) + k])
         = IF i <= Len(x) - h THEN x[i] ELSE y[(i - (Len(x) - h)) + h]

LEMMA AlikeIsEqual ==
  ASSUME NEW w, NEW v, NEW x, NEW y, IsWord(w), IsWord(v), IsWord(x), IsWord(y),
         NEW k, NEW h, Cancels(w, v, k), Cancels(x, y, h), Alike(w, v, k, x, y, h)
  PROVE  Times(w, v) = Times(x, y)
<1>1. Times(w, v) = Joined(w, v, k) /\ Times(x, y) = Joined(x, y, h)
  BY TimesJoins
<1>2. Joined(w, v, k) = Joined(x, y, h)
  BY DEF Joined, Alike
<1> QED
  BY <1>1, <1>2

LEMMA FewCancel ==
  ASSUME NEW u, NEW v, NEW w, NEW X, NEW Y, NEW p, NEW q, Row(u, v, w, X, Y, p, q),
         p + q < Len(v)
  PROVE  Times(X, w) = Times(u, Y)
<1> DEFINE a == Len(u)
           b == Len(v)
           c == Len(w)
           m == (a - p) + (b - p)
           n == (b - q) + (c - q)
<1>1. RowNumbers(u, v, w, X, Y, a, b, c, p, q) /\ RowLetters(u, v, w, X, Y, a, b, c, p, q)
      /\ RowMeets(u, v, w, a, b, c, p, q) /\ p + q < b
  BY RowIs
<1> HIDE DEF a, b, c
<1>2. /\ a \in Nat /\ b \in Nat /\ c \in Nat /\ p \in Nat /\ q \in Nat
      /\ p <= a /\ p <= b /\ q <= b /\ q <= c /\ p + q < b
      /\ Len(u) = a /\ Len(w) = c /\ Len(X) = m /\ Len(Y) = n
  BY <1>1 DEF RowNumbers
<1>3. /\ \A i \in 1 .. a - p : X[i] = u[i]
      /\ \A i \in p + 1 .. b : X[(i + a) - 2 * p] = v[i]
      /\ \A i \in 1 .. b - q : Y[i] = v[i]
      /\ \A i \in q + 1 .. c : Y[(i + b) - 2 * q] = w[i]
  BY <1>1 DEF RowLetters
<1>4. /\ \A i \in 1 .. p : u[(a + 1) - i] = Undone(v[i])
      /\ \A i \in 1 .. q : v[(b + 1) - i] = Undone(w[i])
      /\ p < a /\ p < b => u[a - p] # Undone(v[p + 1])
      /\ q < b /\ q < c => v[b - q] # Undone(w[q + 1])
  BY <1>1 DEF RowMeets
<1>5. Cancels(X, w, q)
  <2>1. ASSUME NEW i \in 1 .. q PROVE X[(m + 1) - i] = Undone(w[i])
    <3> DEFINE j == (b + 1) - i
    <3>1. j \in p + 1 .. b /\ (j + a) - 2 * p = (m + 1) - i
      BY <1>2
    <3>2. X[(j + a) - 2 * p] = v[j] /\ v[j] = Undone(w[i])
      BY <1>3, <1>4, <3>1
    <3> HIDE DEF j, m
    <3> QED
      BY <3>1, <3>2
  <2>2. q < c => X[m - q] # Undone(w[q + 1])
    <3> DEFINE j == b - q
    <3>1. j \in p + 1 .. b /\ (j + a) - 2 * p = m - q /\ (q < b)
      BY <1>2
    <3>2. X[(j + a) - 2 * p] = v[j]
      BY <1>3, <3>1
    <3>3. q < c => v[j] # Undone(w[q + 1])
      BY <1>4, <3>1
    <3> HIDE DEF j, m
    <3> QED
      BY <3>1, <3>2, <3>3
  <2>3. m \in Nat /\ q <= m
    BY <1>2
  <2> HIDE DEF m
  <2>4. \A i \in 1 .. q : X[m + 1 - i] = Undone(w[i])
    BY <1>2, <2>1, <2>3
  <2> QED
    BY <1>2, <2>2, <2>3, <2>4 DEF Cancels
<1>6. Cancels(u, Y, p)
  <2>1. ASSUME NEW i \in 1 .. p PROVE u[(a + 1) - i] = Undone(Y[i])
    <3>1. i \in 1 .. b - q
      BY <1>2
    <3> QED
      BY <1>3, <1>4, <3>1
  <2>2. p < a => u[a - p] # Undone(Y[p + 1])
    <3>1. p + 1 \in 1 .. b - q /\ p < b
      BY <1>2
    <3> QED
      BY <1>3, <1>4, <3>1
  <2>3. n \in Nat /\ p <= n
    BY <1>2
  <2> HIDE DEF n
  <2>4. \A i \in 1 .. p : u[a + 1 - i] = Undone(Y[i])
    BY <1>2, <2>1
  <2> QED
    BY <1>2, <2>2, <2>3, <2>4 DEF Cancels
<1>7. Alike(X, w, q, u, Y, p)
  <2>1. (m - q) + (c - q) = (a - p) + (n - p)
    BY <1>2
  <2>2. ASSUME NEW i \in 1 .. (m - q) + (c - q)
        PROVE  (IF i <= m - q THEN X[i] ELSE w[(i - (m - q)) + q])
                 = IF i <= a - p THEN u[i] ELSE Y[(i - (a - p)) + p]
    <3>1. CASE i <= a - p
      <4>1. i <= m - q /\ i \in 1 .. a - p
        BY <1>2, <3>1
      <4> QED
        BY <1>3, <3>1, <4>1
    <3>2. CASE ~(i <= a - p) /\ i <= m - q
      <4> DEFINE j == (i - (a - p)) + p
      <4>1. j \in p + 1 .. b /\ j \in 1 .. b - q /\ (j + a) - 2 * p = i
        BY <1>2, <3>2
      <4>2. X[i] = v[j] /\ Y[j] = v[j]
        <5> HIDE DEF j
        <5> QED
          BY <1>3, <4>1
      <4> QED
        BY <3>2, <4>2
    <3>3. CASE ~(i <= a - p) /\ ~(i <= m - q)
      <4> DEFINE h == (i - (m - q)) + q
                 j == (i - (a - p)) + p
      <4>1. h \in q + 1 .. c /\ (h + b) - 2 * q = j
        BY <1>2, <3>3
      <4>2. Y[j] = w[h]
        <5> HIDE DEF j, h
        <5> QED
          BY <1>3, <4>1
      <4> QED
        BY <3>3, <4>2
    <3> QED
      BY <3>1, <3>2, <3>3
  <2>3. Alike(X, w, q, u, Y, p) <=>
           /\ (m - q) + (c - q) = (a - p) + (n - p)
           /\ \A i \in 1 .. (m - q) + (c - q) :
                (IF i <= m - q THEN X[i] ELSE w[(i - (m - q)) + q])
                  = IF i <= a - p THEN u[i] ELSE Y[(i - (a - p)) + p]
    <3> HIDE DEF m, n
    <3> QED
      BY <1>2 DEF Alike
  <2> QED
    BY <2>1, <2>2, <2>3
<1> QED
  BY <1>5, <1>6, <1>7, AlikeIsEqual DEF Row

LEMMA AllCancel ==
  ASSUME NEW u, NEW v, NEW w, NEW X, NEW Y, NEW p, NEW q, Row(u, v, w, X, Y, p, q),
         p + q = Len(v)
  PROVE  Times(X, w) = Times(u, Y)
<1> DEFINE a == Len(u)
           b == Len(v)
           c == Len(w)
           m == (a - p) + (b - p)
           n == (b - q) + (c - q)
<1>1. RowNumbers(u, v, w, X, Y, a, b, c, p, q) /\ RowLetters(u, v, w, X, Y, a, b, c, p, q)
      /\ RowMeets(u, v, w, a, b, c, p, q) /\ p + q = b
  BY RowIs
<1> HIDE DEF a, b, c
<1>2. /\ a \in Nat /\ b \in Nat /\ c \in Nat /\ p \in Nat /\ q \in Nat
      /\ p <= a /\ p <= b /\ q <= b /\ q <= c /\ p + q = b
      /\ Len(u) = a /\ Len(w) = c /\ Len(X) = m /\ Len(Y) = n
  BY <1>1 DEF RowNumbers
<1>3. /\ \A i \in 1 .. a - p : X[i] = u[i]
      /\ \A i \in p + 1 .. b : X[(i + a) - 2 * p] = v[i]
      /\ \A i \in 1 .. b - q : Y[i] = v[i]
      /\ \A i \in q + 1 .. c : Y[(i + b) - 2 * q] = w[i]
  BY <1>1 DEF RowLetters
<1>4. /\ \A i \in 1 .. p : u[(a + 1) - i] = Undone(v[i])
      /\ \A i \in 1 .. q : v[(b + 1) - i] = Undone(w[i])
      /\ p < a /\ p < b => u[a - p] # Undone(v[p + 1])
      /\ q < b /\ q < c => v[b - q] # Undone(w[q + 1])
  BY <1>1 DEF RowMeets
<1>5. PICK x \in Nat : Cancels(X, w, x)
  BY SomeCancel DEF Row
<1>6. /\ x <= m /\ x <= c
      /\ \A i \in 1 .. x : X[(m + 1) - i] = Undone(w[i])
      /\ x < m /\ x < c => X[m - x] # Undone(w[x + 1])
  <2>1. m \in Nat
    BY <1>2
  <2> HIDE DEF m
  <2> QED
    BY <1>2, <1>5, <2>1 DEF Cancels
<1>7. x >= q
  <2> SUFFICES ASSUME x < q PROVE FALSE
    BY <1>2
  <2> DEFINE j == b - x
  <2>1. j \in p + 1 .. b /\ (j + a) - 2 * p = m - x /\ x + 1 \in 1 .. q /\ (b + 1) - (x + 1) = j
        /\ x < m /\ x < c
    BY <1>2
  <2>2. X[m - x] = v[j] /\ v[j] = Undone(w[x + 1])
    <3>1. v[(b + 1) - (x + 1)] = Undone(w[x + 1])
      BY <1>4, <2>1
    <3>2. X[(j + a) - 2 * p] = v[j]
      BY <1>3, <2>1
    <3> HIDE DEF j, m
    <3> QED
      BY <2>1, <3>1, <3>2
  <2> QED
    BY <1>6, <2>1, <2>2
<1> DEFINE y == (p + x) - q
<1>8. /\ y \in Nat /\ y <= a /\ y <= n /\ p <= y
      /\ n - y = c - x /\ a - y = m - x /\ a - y <= a - p
  BY <1>2, <1>6, <1>7
<1>9. Cancels(u, Y, y)
  <2>1. ASSUME NEW i \in 1 .. y PROVE u[(a + 1) - i] = Undone(Y[i])
    <3>1. CASE i <= p
      <4>1. i \in 1 .. b - q /\ i \in 1 .. p
        BY <1>2, <3>1
      <4> QED
        BY <1>3, <1>4, <4>1
    <3>2. CASE ~(i <= p)
      <4> DEFINE j == (i - p) + q
                 h == (a + 1) - i
      <4>1. /\ j \in q + 1 .. c /\ j \in 1 .. x /\ (j + b) - 2 * q = i
            /\ h \in 1 .. a - p /\ (m + 1) - j = h
        BY <1>2, <1>6, <1>7, <1>8, <3>2
      <4> HIDE DEF j, h, m
      <4>2. Y[i] = w[j] /\ X[h] = u[h] /\ X[h] = Undone(w[j])
        BY <1>3, <1>6, <4>1
      <4> QED
        BY <4>2 DEF h
    <3> QED
      BY <3>1, <3>2
  <2>2. y < a /\ y < n => u[a - y] # Undone(Y[y + 1])
    <3> SUFFICES ASSUME y < a, y < n PROVE u[a - y] # Undone(Y[y + 1])
      OBVIOUS
    <3> DEFINE h == a - y
               k == x + 1
    <3>1. /\ h \in 1 .. a - p /\ h = m - x /\ x < m /\ x < c
          /\ k \in q + 1 .. c /\ (k + b) - 2 * q = y + 1
      BY <1>2, <1>6, <1>7, <1>8
    <3>2. X[m - x] # Undone(w[x + 1])
      BY <1>6, <3>1
    <3> HIDE DEF h, m, k, y
    <3>3. X[h] = u[h] /\ Y[y + 1] = w[k]
      BY <1>3, <3>1
    <3> QED
      BY <3>1, <3>2, <3>3 DEF h, k
  <2> HIDE DEF n, y
  <2>3. n \in Nat
    BY <1>2 DEF n
  <2>4. \A i \in 1 .. y : u[a + 1 - i] = Undone(Y[i])
    BY <1>2, <1>8, <2>1
  <2> QED
    BY <1>2, <1>8, <2>2, <2>3, <2>4 DEF Cancels
<1>10. Alike(X, w, x, u, Y, y)
  <2>1. (m - x) + (c - x) = (a - y) + (n - y)
    BY <1>8
  <2>2. ASSUME NEW i \in 1 .. (m - x) + (c - x)
        PROVE  (IF i <= m - x THEN X[i] ELSE w[(i - (m - x)) + x])
                 = IF i <= a - y THEN u[i] ELSE Y[(i - (a - y)) + y]
    <3>1. CASE i <= a - y
      <4>1. i <= m - x /\ i \in 1 .. a - p
        BY <1>2, <1>8, <3>1
      <4> QED
        BY <1>3, <3>1, <4>1
    <3>2. CASE ~(i <= a - y)
      <4> DEFINE h == (i - (m - x)) + x
                 j == (i - (a - y)) + y
      <4>1. h \in q + 1 .. c /\ (h + b) - 2 * q = j /\ ~(i <= m - x)
        BY <1>2, <1>6, <1>7, <1>8, <3>2
      <4>2. Y[j] = w[h]
        <5> HIDE DEF j, h, y
        <5> QED
          BY <1>3, <4>1
      <4> HIDE DEF y, m
      <4> QED
        BY <3>2, <4>1, <4>2
    <3> QED
      BY <3>1, <3>2
  <2>3. Alike(X, w, x, u, Y, y) <=>
           /\ (m - x) + (c - x) = (a - y) + (n - y)
           /\ \A i \in 1 .. (m - x) + (c - x) :
                (IF i <= m - x THEN X[i] ELSE w[(i - (m - x)) + x])
                  = IF i <= a - y THEN u[i] ELSE Y[(i - (a - y)) + y]
    <3> HIDE DEF m, n, y
    <3> QED
      BY <1>2 DEF Alike
  <2> HIDE DEF m, n, y
  <2> QED
    BY <2>1, <2>2, <2>3
<1> HIDE DEF y
<1> QED
  BY <1>5, <1>9, <1>10, AlikeIsEqual DEF Row

LEMMA ManyCancel ==
  ASSUME NEW u, NEW v, NEW w, NEW X, NEW Y, NEW p, NEW q, Row(u, v, w, X, Y, p, q),
         p + q > Len(v)
  PROVE  Times(X, w) = Times(u, Y)
<1> DEFINE a == Len(u)
           b == Len(v)
           c == Len(w)
           m == (a - p) + (b - p)
           n == (b - q) + (c - q)
<1>1. RowNumbers(u, v, w, X, Y, a, b, c, p, q) /\ RowLetters(u, v, w, X, Y, a, b, c, p, q)
      /\ RowMeets(u, v, w, a, b, c, p, q) /\ p + q > b
  BY RowIs
<1> HIDE DEF a, b, c
<1>2. /\ a \in Nat /\ b \in Nat /\ c \in Nat /\ p \in Nat /\ q \in Nat
      /\ p <= a /\ p <= b /\ q <= b /\ q <= c /\ p + q > b
      /\ Len(u) = a /\ Len(w) = c /\ Len(X) = m /\ Len(Y) = n
  BY <1>1 DEF RowNumbers
<1>3. /\ \A i \in 1 .. a - p : X[i] = u[i]
      /\ \A i \in p + 1 .. b : X[(i + a) - 2 * p] = v[i]
      /\ \A i \in 1 .. b - q : Y[i] = v[i]
      /\ \A i \in q + 1 .. c : Y[(i + b) - 2 * q] = w[i]
  BY <1>1 DEF RowLetters
<1>4. /\ \A i \in 1 .. p : u[(a + 1) - i] = Undone(v[i])
      /\ \A i \in 1 .. q : v[(b + 1) - i] = Undone(w[i])
      /\ p < a /\ p < b => u[a - p] # Undone(v[p + 1])
      /\ q < b /\ q < c => v[b - q] # Undone(w[q + 1])
  BY <1>1 DEF RowMeets
<1> DEFINE k == b - p
           h == b - q
<1>5. /\ k \in Nat /\ h \in Nat /\ k < q /\ h < p /\ k <= m /\ h <= n /\ k <= c /\ h <= a
      /\ m - k = a - p /\ n - h = c - q /\ m \in Nat /\ n \in Nat
  BY <1>2
<1>6. /\ \A i \in DOMAIN u : IsLetter(u[i]) /\ (i + 1 \in DOMAIN u => u[i] # Undone(u[i + 1]))
      /\ \A i \in DOMAIN w : IsLetter(w[i]) /\ (i + 1 \in DOMAIN w => w[i] # Undone(w[i + 1]))
      /\ \A i \in DOMAIN v : IsLetter(v[i])
      /\ DOMAIN u = 1 .. a /\ DOMAIN w = 1 .. c /\ DOMAIN v = 1 .. b
  BY <1>1, WordIs DEF Row, IsWord, IsLetter, RowNumbers
<1>7. Cancels(X, w, k)
  <2>1. ASSUME NEW i \in 1 .. k PROVE X[(m + 1) - i] = Undone(w[i])
    <3> DEFINE j == (b + 1) - i
    <3>1. j \in p + 1 .. b /\ (j + a) - 2 * p = (m + 1) - i /\ i \in 1 .. q
      BY <1>2
    <3>2. X[(j + a) - 2 * p] = v[j] /\ v[j] = Undone(w[i])
      BY <1>3, <1>4, <3>1
    <3> HIDE DEF j, m
    <3> QED
      BY <3>1, <3>2
  <2>2. k < m /\ k < c => X[m - k] # Undone(w[k + 1])
    <3> SUFFICES ASSUME k < m PROVE X[m - k] # Undone(w[k + 1])
      OBVIOUS
    <3> DEFINE j == a - p
    <3>1. /\ j \in 1 .. a /\ j + 1 \in 1 .. a /\ j \in 1 .. a - p /\ m - k = j /\ (a + 1) - p = j + 1
          /\ p \in 1 .. p /\ p \in 1 .. b /\ k + 1 \in 1 .. q /\ (b + 1) - (k + 1) = p
      BY <1>2, <1>5
    <3>2. X[j] = u[j]
      BY <1>3, <3>1
    <3>3. u[(a + 1) - p] = Undone(v[p])
      BY <1>4, <3>1
    <3>4. v[(b + 1) - (k + 1)] = Undone(w[k + 1])
      BY <1>4, <3>1
    <3> HIDE DEF j, k, m
    <3>5. u[j] # Undone(Undone(v[p])) /\ Undone(Undone(v[p])) = v[p]
      BY <1>6, <3>1, <3>3 DEF IsLetter
    <3> QED
      BY <3>1, <3>2, <3>4, <3>5
  <2> HIDE DEF m, k
  <2>3. \A i \in 1 .. k : X[m + 1 - i] = Undone(w[i])
    BY <1>2, <1>5, <2>1
  <2> QED
    BY <1>2, <1>5, <2>2, <2>3 DEF Cancels
<1>8. Cancels(u, Y, h)
  <2>1. ASSUME NEW i \in 1 .. h PROVE u[(a + 1) - i] = Undone(Y[i])
    <3>1. i \in 1 .. b - q /\ i \in 1 .. p
      BY <1>2, <1>5
    <3> QED
      BY <1>3, <1>4, <3>1
  <2>2. h < a /\ h < n => u[a - h] # Undone(Y[h + 1])
    <3> SUFFICES ASSUME h < n PROVE u[a - h] # Undone(Y[h + 1])
      OBVIOUS
    <3> DEFINE j == q + 1
               g == h + 1
    <3>1. /\ j \in q + 1 .. c /\ (j + b) - 2 * q = h + 1 /\ j \in 1 .. c /\ q \in 1 .. c /\ q \in 1 .. q
          /\ g \in 1 .. p /\ (a + 1) - g = a - h /\ (b + 1) - q = g
      BY <1>2, <1>5
    <3>2. v[(b + 1) - q] = Undone(w[q])
      BY <1>4, <3>1
    <3>3. u[(a + 1) - g] = Undone(v[g])
      BY <1>4, <3>1
    <3>4. Y[(j + b) - 2 * q] = w[j]
      BY <1>3, <3>1
    <3>5. Undone(Undone(w[q])) = w[q] /\ w[q] # Undone(w[q + 1])
      BY <1>6, <3>1 DEF IsLetter
    <3> HIDE DEF h, n, g
    <3> QED
      BY <3>1, <3>2, <3>3, <3>4, <3>5
  <2> HIDE DEF n, h
  <2>3. \A i \in 1 .. h : u[a + 1 - i] = Undone(Y[i])
    BY <1>2, <1>5, <2>1
  <2> QED
    BY <1>2, <1>5, <2>2, <2>3 DEF Cancels
<1>9. Alike(X, w, k, u, Y, h)
  <2>1. (m - k) + (c - k) = (a - h) + (n - h)
    BY <1>2
  <2>2. ASSUME NEW i \in 1 .. (m - k) + (c - k)
        PROVE  (IF i <= m - k THEN X[i] ELSE w[(i - (m - k)) + k])
                 = IF i <= a - h THEN u[i] ELSE Y[(i - (a - h)) + h]
    <3>1. CASE i <= m - k
      <4>1. i <= a - h /\ i \in 1 .. a - p
        BY <1>2, <1>5, <3>1
      <4> QED
        BY <1>3, <3>1, <4>1
    <3>2. CASE ~(i <= m - k) /\ i <= a - h
      <4> DEFINE j == (a + 1) - i
                 g == (i - a) + b
      <4>1. /\ j \in 1 .. p /\ (a + 1) - j = i /\ g \in 1 .. q /\ (b + 1) - g = j
            /\ (i - (m - k)) + k = g /\ g \in 1 .. c
        BY <1>2, <1>5, <3>2
      <4>2. u[(a + 1) - j] = Undone(v[j])
        BY <1>4, <4>1
      <4>3. v[(b + 1) - g] = Undone(w[g])
        BY <1>4, <4>1
      <4>4. Undone(Undone(w[g])) = w[g]
        BY <1>6, <4>1 DEF IsLetter
      <4> HIDE DEF j, g, m, k, h
      <4> QED
        BY <3>2, <4>1, <4>2, <4>3, <4>4
    <3>3. CASE ~(i <= m - k) /\ ~(i <= a - h)
      <4> DEFINE g == (i - (m - k)) + k
                 j == (i - (a - h)) + h
      <4>1. g \in q + 1 .. c /\ (g + b) - 2 * q = j
        BY <1>2, <1>5, <3>3
      <4>2. Y[j] = w[g]
        <5> HIDE DEF j, g
        <5> QED
          BY <1>3, <4>1
      <4> HIDE DEF m, k, h
      <4> QED
        BY <3>3, <4>2
    <3> QED
      BY <3>1, <3>2, <3>3
  <2>3. Alike(X, w, k, u, Y, h) <=>
           /\ (m - k) + (c - k) = (a - h) + (n - h)
           /\ \A i \in 1 .. (m - k) + (c - k) :
                (IF i <= m - k THEN X[i] ELSE w[(i - (m - k)) + k])
                  = IF i <= a - h THEN u[i] ELSE Y[(i - (a - h)) + h]
    <3> HIDE DEF m, n, k, h
    <3> QED
      BY <1>2 DEF Alike
  <2> HIDE DEF m, n, k, h
  <2> QED
    BY <2>1, <2>2, <2>3
<1> HIDE DEF k, h
<1> QED
  BY <1>7, <1>8, <1>9, AlikeIsEqual DEF Row

(* The product is associative.                                             *)
LEMMA TimesAssociates ==
  ASSUME NEW u, NEW v, NEW w, IsWord(u), IsWord(v), IsWord(w)
  PROVE  Times(Times(u, v), w) = Times(u, Times(v, w))
<1>1. PICK p \in Nat : Cancels(u, v, p) /\ JoinsAt(Times(u, v), u, v, p)
  BY TimesIs
<1>2. PICK q \in Nat : Cancels(v, w, q) /\ JoinsAt(Times(v, w), v, w, q)
  BY TimesIs
<1>3. IsWord(Times(u, v)) /\ IsWord(Times(v, w))
  BY TimesIsAWord
<1>4. Row(u, v, w, Times(u, v), Times(v, w), p, q)
  BY <1>1, <1>2, <1>3 DEF Row
<1>5. Len(v) \in Nat
  BY WordIs
<1>6. p + q < Len(v) \/ p + q = Len(v) \/ p + q > Len(v)
  BY <1>5
<1> QED
  BY <1>4, <1>6, FewCancel, AllCancel, ManyCancel

LEMMA IdentityIsAWord == IsWord(Identity) /\ Len(Identity) = 0 /\ Range(Identity) = {}
BY DEF IsWord, IsLetter, IsSequence, Identity, Range

LEMMA OneLetterIsAWord ==
  ASSUME NEW letter, IsLetter(letter)
  PROVE  IsWord(<<letter>>) /\ Range(<<letter>>) = {letter}
<1> DEFINE w == <<letter>>
<1>1. DOMAIN w = 1 .. 1 /\ w[1] = letter /\ w = [i \in 1 .. 1 |-> w[i]]
  OBVIOUS
<1> HIDE DEF w
<1>2. IsSequence(w)
  BY <1>1, ListIsASequence
<1>3. IsWord(w)
  BY <1>1, <1>2 DEF IsWord, IsLetter
<1>4. Range(w) = {letter}
  BY <1>1 DEF Range
<1> QED
  BY <1>3, <1>4 DEF w

(* Undoing is the other sign of the same letter.                           *)
LEMMA UndoneIs ==
  ASSUME NEW of, NEW b \in BOOLEAN
  PROVE  Undone([of |-> of, inverse |-> b]) = [of |-> of, inverse |-> ~b]
<1> DEFINE letter == [of |-> of, inverse |-> b]
<1>1. Undone(letter) = [letter EXCEPT !.inverse = ~letter.inverse]
  BY Zenon DEF Undone
<1>2. (~letter.inverse) = (~b)
  BY Zenon
<1> DEFINE c == ~b
<1>3. Undone(letter) = [letter EXCEPT !.inverse = c]
  BY <1>1, <1>2, Zenon
<1> HIDE DEF c
<1>4. [letter EXCEPT !.inverse = c] = [of |-> of, inverse |-> c]
  OBVIOUS
<1> QED
  BY <1>3, <1>4 DEF c

LEMMA TurnIsAWord ==
  ASSUME NEW what, NEW j, NEW frame
  PROVE  /\ IsWord(Turn(what, j, frame))
         /\ \A letter \in Range(Turn(what, j, frame)) :
              letter.of = <<what, j, frame>>
<1> DEFINE letter == [of |-> <<what, j, frame>>, inverse |-> FALSE]
<1>1. IsLetter(letter) /\ letter.of = <<what, j, frame>>
  <2> DEFINE of == <<what, j, frame>>
  <2> HIDE DEF of
  <2>1. Undone([of |-> of, inverse |-> FALSE]) = [of |-> of, inverse |-> ~FALSE]
    BY UndoneIs, Zenon
  <2>2. Undone([of |-> of, inverse |-> TRUE]) = [of |-> of, inverse |-> ~TRUE]
    BY UndoneIs, Zenon
  <2>3. (~FALSE) = TRUE /\ (~TRUE) = FALSE
    OBVIOUS
  <2>4. Undone(Undone(letter)) = letter
    BY <2>1, <2>2, <2>3, Zenon DEF of
  <2> QED
    BY <2>4 DEF IsLetter
<1>2. Turn(what, j, frame) = <<letter>>
  BY DEF Turn
<1> HIDE DEF letter
<1> DEFINE w == Turn(what, j, frame)
<1>3. w[1] = letter /\ w = <<w[1]>>
  BY <1>2
<1> HIDE DEF w
<1>4. IsWord(w) /\ Range(w) = {letter}
  BY <1>1, <1>3, OneLetterIsAWord
<1> QED
  BY <1>1, <1>4 DEF w

LEMMA JoinedToIdentity ==
  ASSUME NEW w, IsWord(w)
  PROVE  Times(w, Identity) = w /\ Times(Identity, w) = w
<1> DEFINE n == Len(w)
           none == Identity
<1>1. n \in Nat /\ w = [i \in 1 .. n |-> w[i]] /\ IsWord(none) /\ Len(none) = 0
  BY WordIs, IdentityIsAWord
<1> HIDE DEF none
<1>2. Cancels(w, none, 0) /\ Cancels(none, w, 0)
  BY <1>1 DEF Cancels
<1>3. Times(w, none) = Joined(w, none, 0) /\ Times(none, w) = Joined(none, w, 0)
  BY <1>1, <1>2, TimesJoins
<1>4. Joined(w, none, 0) = w
  <2>1. Joined(w, none, 0) = [i \in 1 .. n |-> IF i <= n THEN w[i] ELSE none[(i - n) + 0]]
    BY <1>1 DEF Joined
  <2> QED
    BY <1>1, <2>1
<1>5. Joined(none, w, 0) = w
  <2>1. Joined(none, w, 0) = [i \in 1 .. n |-> IF i <= 0 THEN none[i] ELSE w[(i - 0) + 0]]
    BY <1>1 DEF Joined
  <2>2. \A i \in 1 .. n : (IF i <= 0 THEN none[i] ELSE w[(i - 0) + 0]) = w[i]
    BY <1>1
  <2> QED
    BY <1>1, <2>1, <2>2
<1> QED
  BY <1>3, <1>4, <1>5 DEF none

LEMMA InvertedUndoes ==
  ASSUME NEW w, IsWord(w)
  PROVE  IsWord(Inverted(w)) /\ Times(w, Inverted(w)) = Identity
<1> DEFINE n == Len(w)
           v == Inverted(w)
<1>1. /\ n \in Nat /\ DOMAIN w = 1 .. n
      /\ \A i \in 1 .. n : IsLetter(w[i]) /\ (i + 1 \in 1 .. n => w[i] # Undone(w[i + 1]))
  BY WordIs DEF IsWord, IsLetter
<1>2. v = [i \in 1 .. n |-> Undone(w[(n + 1) - i])]
  BY <1>1 DEF Inverted
<1> HIDE DEF v
<1>3. IsSequence(v) /\ Len(v) = n /\ DOMAIN v = 1 .. n /\ \A i \in 1 .. n : v[i] = Undone(w[(n + 1) - i])
  <2>1. v = [i \in 1 .. n |-> v[i]]
    BY <1>2
  <2> QED
    BY <1>1, <1>2, <2>1, ListIsASequence
<1> HIDE DEF n
<1>4. \A i \in 1 .. n : (n + 1) - i \in 1 .. n
  BY <1>1
<1>5. \A i \in DOMAIN v : IsLetter(v[i])
  BY <1>1, <1>3, <1>4 DEF IsLetter
<1>6. ASSUME NEW i \in DOMAIN v, i + 1 \in DOMAIN v PROVE v[i] # Undone(v[i + 1])
  <2> DEFINE j == (n + 1) - (i + 1)
  <2>1. j \in 1 .. n /\ j + 1 = (n + 1) - i /\ j + 1 \in 1 .. n
    BY <1>1, <1>3, <1>6
  <2>2. v[i] = Undone(w[j + 1]) /\ v[i + 1] = Undone(w[j])
    BY <1>3, <1>6, <2>1
  <2> HIDE DEF j
  <2>3. Undone(Undone(w[j])) = w[j] /\ w[j] # Undone(w[j + 1])
    BY <1>1, <2>1 DEF IsLetter
  <2> QED
    BY <2>2, <2>3
<1>7. IsWord(v)
  BY <1>3, <1>5, <1>6 DEF IsWord, IsLetter
<1>8. Cancels(w, v, n)
  <2>1. \A i \in 1 .. n : w[(n + 1) - i] = Undone(v[i])
    BY <1>1, <1>3, <1>4 DEF IsLetter
  <2>2. \A i \in 1 .. n : w[n + 1 - i] = Undone(v[i])
    BY <1>1, <2>1
  <2> QED
    BY <1>1, <1>3, <2>2 DEF Cancels, n
<1>9. Times(w, v) = Joined(w, v, n)
  BY <1>7, <1>8, TimesJoins
<1>10. Joined(w, v, n) = Identity
  <2>1. (n - n) + (n - n) = 0 /\ 1 .. 0 = {}
    BY <1>1
  <2>2. Joined(w, v, n) = [i \in {} |-> IF i <= n - n THEN w[i] ELSE v[(i - (n - n)) + n]]
    BY <1>3, <2>1 DEF Joined, n
  <2> QED
    BY <2>2 DEF Identity
<1> QED
  BY <1>7, <1>9, <1>10 DEF v

-----------------------------------------------------------------------------
(* Rotations along a path.                                                 *)

(* The rotations of every joint on a path are words.                       *)
Turns(path, rotations) ==
  Len(path) \in Nat /\ \A i \in 1 .. Len(path) : IsWord(rotations[path[i]])

(* What the first n joints of a path come to.                              *)
TurnsBy(f, path, rotations) ==
  /\ f[0] = Identity
  /\ \A n \in Nat : n + 1 <= Len(path) => f[n + 1] = Times(f[n], rotations[path[n + 1]])
  /\ \A n \in 0 .. Len(path) : IsWord(f[n])
  /\ f[Len(path)] = Composed(path, rotations)

LEMMA ComposedIs ==
  ASSUME NEW path, NEW rotations, Turns(path, rotations)
  PROVE  \E f : TurnsBy(f, path, rotations)
<1> DEFINE N == Len(path)
           next(f, n) == IF n = 0 THEN Identity ELSE Times(f[n - 1], rotations[path[n]])
           IsUpTo(f, n) == f = [k \in 0 .. n |-> next(f, k)]
           Stuck == {n \in 0 .. N : ~ \E f : IsUpTo(f, n)}
<1>1. N \in Nat /\ \A i \in 1 .. N : IsWord(rotations[path[i]])
  BY DEF Turns
<1>2. Stuck = {}
  <2> SUFFICES ASSUME Stuck # {} PROVE FALSE
    OBVIOUS
  <2>1. PICK n \in Stuck : \A k \in Stuck : n <= k
    <3>1. Stuck \subseteq Nat
      OBVIOUS
    <3> HIDE DEF Stuck
    <3> QED
      BY <3>1, SmallestIndex
  <2>2. n # 0
    <3> SUFFICES ASSUME n = 0 PROVE FALSE
      OBVIOUS
    <3>1. IsUpTo([k \in 0 .. 0 |-> Identity], 0)
      OBVIOUS
    <3> QED
      BY <2>1, <3>1
  <2>3. PICK f : IsUpTo(f, n - 1)
    <3>1. n - 1 \in 0 .. N /\ ~(n <= n - 1)
      BY <1>1, <2>1, <2>2
    <3>2. n - 1 \notin Stuck
      BY <2>1, <3>1
    <3> HIDE DEF IsUpTo
    <3> QED
      BY <3>1, <3>2
  <2> DEFINE g == [k \in 0 .. n |-> IF k < n THEN f[k] ELSE Times(f[n - 1], rotations[path[n]])]
  <2>4. \A k \in 0 .. n : g[k] = next(g, k)
    <3> SUFFICES ASSUME NEW k \in 0 .. n PROVE g[k] = next(g, k)
      OBVIOUS
    <3>1. n \in Nat /\ n - 1 \in 0 .. n /\ n - 1 < n /\ ~(n < n)
      BY <1>1, <2>1, <2>2
    <3>2. CASE k = n
      <4>1. g[n] = Times(f[n - 1], rotations[path[n]]) /\ g[n - 1] = f[n - 1]
        BY <3>1
      <4> HIDE DEF g
      <4> QED
        BY <2>2, <3>2, <4>1
    <3>3. CASE k # n
      <4>1. k \in 0 .. n - 1 /\ g[k] = f[k] /\ (k # 0 => g[k - 1] = f[k - 1])
        BY <3>1, <3>3
      <4>2. f[k] = next(f, k)
        BY <2>3, <4>1
      <4> HIDE DEF g
      <4> QED
        BY <4>1, <4>2
    <3> QED
      BY <3>2, <3>3
  <2>5. g = [k \in 0 .. n |-> g[k]]
    OBVIOUS
  <2> HIDE DEF g
  <2>6. IsUpTo(g, n)
    BY <2>4, <2>5
  <2> HIDE DEF IsUpTo
  <2> QED
    BY <2>1, <2>6
<1>3. \E f : IsUpTo(f, N)
  <2>1. N \in 0 .. N
    BY <1>1
  <2> HIDE DEF IsUpTo
  <2> QED
    BY <1>2, <2>1
<1> DEFINE f == CHOOSE h : IsUpTo(h, N)
<1>4. IsUpTo(f, N)
  <2> HIDE DEF IsUpTo
  <2> QED
    BY <1>3
<1>5. Composed(path, rotations) = f[N]
  BY Zenon DEF Composed
<1> HIDE DEF f
<1>6. /\ f[0] = Identity
      /\ \A n \in Nat : n + 1 <= N => f[n + 1] = Times(f[n], rotations[path[n + 1]])
  <2>1. \A k \in 0 .. N : f[k] = IF k = 0 THEN Identity ELSE Times(f[k - 1], rotations[path[k]])
    BY <1>4
  <2>2. f[0] = Identity
    BY <1>1, <2>1
  <2>3. ASSUME NEW n \in Nat, n + 1 <= N PROVE f[n + 1] = Times(f[n], rotations[path[n + 1]])
    <3>1. n + 1 \in 0 .. N /\ n + 1 # 0 /\ (n + 1) - 1 = n
      BY <1>1, <2>3
    <3> DEFINE m == n + 1
    <3> HIDE DEF m
    <3>2. f[m] = Times(f[m - 1], rotations[path[m]]) /\ m - 1 = n
      BY <2>1, <3>1 DEF m
    <3> QED
      BY <3>2 DEF m
  <2> QED
    BY <2>2, <2>3
<1>7. \A n \in 0 .. N : IsWord(f[n])
  <2> DEFINE Wrong == {n \in 0 .. N : ~IsWord(f[n])}
  <2> SUFFICES ASSUME Wrong # {} PROVE FALSE
    OBVIOUS
  <2>1. PICK n \in Wrong : \A k \in Wrong : n <= k
    <3>1. Wrong \subseteq Nat
      OBVIOUS
    <3> HIDE DEF Wrong
    <3> QED
      BY <3>1, SmallestIndex
  <2>2. n # 0 /\ n \in 0 .. N
    BY <1>6, <2>1, IdentityIsAWord
  <2>3. PICK j \in Nat : n = j + 1
    <3>1. n - 1 \in Nat /\ n = (n - 1) + 1
      BY <1>1, <2>2
    <3> QED
      BY <3>1
  <2>4. j \in 0 .. N /\ ~(n <= j) /\ n \in 1 .. N
    BY <1>1, <2>2, <2>3
  <2>5. IsWord(f[j]) /\ IsWord(rotations[path[n]])
    BY <1>1, <2>1, <2>4
  <2>6. f[n] = Times(f[j], rotations[path[n]])
    BY <1>1, <1>6, <2>2, <2>3
  <2>7. IsWord(f[n])
    BY <2>5, <2>6, TimesIsAWord
  <2> QED
    BY <2>1, <2>7
<1> QED
  BY <1>5, <1>6, <1>7 DEF TurnsBy

LEMMA ComposedIsAWord ==
  ASSUME NEW path, NEW rotations, Turns(path, rotations)
  PROVE  IsWord(Composed(path, rotations))
<1>1. PICK f : TurnsBy(f, path, rotations)
  BY ComposedIs
<1>2. Len(path) \in 0 .. Len(path)
  BY DEF Turns
<1> QED
  BY <1>1, <1>2 DEF TurnsBy

(* One path and then another.                                              *)
Then(path, first, second) ==
  /\ Len(path) = Len(first) + Len(second)
  /\ \A i \in 1 .. Len(first) : path[i] = first[i]
  /\ \A i \in 1 .. Len(second) : path[Len(first) + i] = second[i]

LEMMA ComposedThen ==
  ASSUME NEW path, NEW first, NEW second, NEW rotations, Then(path, first, second),
         Turns(first, rotations), Turns(second, rotations)
  PROVE  Composed(path, rotations)
           = Times(Composed(first, rotations), Composed(second, rotations))
<1> DEFINE m == Len(first)
           n == Len(second)
<1>1. /\ m \in Nat /\ n \in Nat /\ Len(path) = m + n
      /\ \A i \in 1 .. m : path[i] = first[i] /\ IsWord(rotations[first[i]])
      /\ \A i \in 1 .. n : path[m + i] = second[i] /\ IsWord(rotations[second[i]])
  BY DEF Then, Turns
<1>2. Turns(path, rotations)
  <2> SUFFICES ASSUME NEW i \in 1 .. m + n PROVE IsWord(rotations[path[i]])
    BY <1>1 DEF Turns
  <2> HIDE DEF m, n
  <2>1. CASE i <= m
    <3>1. i \in 1 .. m
      BY <1>1, <2>1
    <3> QED
      BY <1>1, <3>1
  <2>2. CASE ~(i <= m)
    <3> DEFINE k == i - m
    <3>1. k \in 1 .. n /\ m + k = i
      BY <1>1, <2>2
    <3> HIDE DEF k
    <3>2. path[m + k] = second[k] /\ IsWord(rotations[second[k]])
      BY <1>1, <3>1
    <3> QED
      BY <3>1, <3>2
  <2> QED
    BY <2>1, <2>2
<1>3. PICK f : TurnsBy(f, path, rotations)
  BY <1>2, ComposedIs
<1>4. PICK g : TurnsBy(g, first, rotations)
  BY ComposedIs
<1>5. PICK h : TurnsBy(h, second, rotations)
  BY ComposedIs
<1>6. /\ f[0] = Identity /\ g[0] = Identity /\ h[0] = Identity
      /\ \A k \in Nat : k + 1 <= m + n => f[k + 1] = Times(f[k], rotations[path[k + 1]])
      /\ \A k \in Nat : k + 1 <= m => g[k + 1] = Times(g[k], rotations[first[k + 1]])
      /\ \A k \in Nat : k + 1 <= n => h[k + 1] = Times(h[k], rotations[second[k + 1]])
      /\ \A k \in 0 .. m : IsWord(g[k])
      /\ \A k \in 0 .. n : IsWord(h[k])
      /\ f[m + n] = Composed(path, rotations)
      /\ g[m] = Composed(first, rotations) /\ h[n] = Composed(second, rotations)
  BY <1>1, <1>3, <1>4, <1>5 DEF TurnsBy
<1> HIDE DEF m, n
<1>7. \A k \in 0 .. m : f[k] = g[k]
  <2> DEFINE Apart == {k \in 0 .. m : f[k] # g[k]}
  <2> SUFFICES ASSUME Apart # {} PROVE FALSE
    OBVIOUS
  <2>1. PICK k \in Apart : \A i \in Apart : k <= i
    <3>1. Apart \subseteq Nat
      OBVIOUS
    <3> HIDE DEF Apart
    <3> QED
      BY <3>1, SmallestIndex
  <2>2. k # 0 /\ k \in 0 .. m
    BY <1>6, <2>1
  <2>3. PICK j \in Nat : k = j + 1
    <3>1. k - 1 \in Nat /\ k = (k - 1) + 1
      BY <2>2
    <3> QED
      BY <3>1
  <2>4. j \in 0 .. m /\ ~(k <= j) /\ k \in 1 .. m /\ k <= m + n
    BY <1>1, <2>2, <2>3
  <2>5. f[j] = g[j] /\ path[k] = first[k]
    BY <1>1, <2>1, <2>4
  <2>6. f[k] = Times(f[j], rotations[path[k]])
    BY <1>6, <2>3, <2>4
  <2>7. g[k] = Times(g[j], rotations[first[k]])
    BY <1>6, <2>2, <2>3
  <2> QED
    BY <2>1, <2>5, <2>6, <2>7
<1>8. \A k \in 0 .. n : f[m + k] = Times(g[m], h[k])
  <2> DEFINE Apart == {k \in 0 .. n : f[m + k] # Times(g[m], h[k])}
  <2> SUFFICES ASSUME Apart # {} PROVE FALSE
    OBVIOUS
  <2>1. PICK k \in Apart : \A i \in Apart : k <= i
    <3>1. Apart \subseteq Nat
      OBVIOUS
    <3> HIDE DEF Apart
    <3> QED
      BY <3>1, SmallestIndex
  <2>2. k # 0 /\ k \in 0 .. n
    <3>1. m \in 0 .. m /\ m + 0 = m
      BY <1>1
    <3>2. f[m + 0] = Times(g[m], h[0])
      BY <1>6, <1>7, <3>1, JoinedToIdentity
    <3> QED
      BY <2>1, <3>2
  <2>3. PICK j \in Nat : k = j + 1
    <3>1. k - 1 \in Nat /\ k = (k - 1) + 1
      BY <2>2
    <3> QED
      BY <3>1
  <2>4. /\ j \in 0 .. n /\ ~(k <= j) /\ k \in 1 .. n /\ m \in 0 .. m
        /\ m + k = (m + j) + 1 /\ m + j \in Nat /\ (m + j) + 1 <= m + n
    BY <1>1, <2>2, <2>3
  <2>5. f[m + j] = Times(g[m], h[j])
    BY <2>1, <2>4
  <2> DEFINE at == m + j
  <2>6. f[at + 1] = Times(f[at], rotations[path[at + 1]]) /\ at + 1 = m + k
    <3>1. at \in Nat /\ at + 1 <= m + n /\ at + 1 = m + k
      BY <2>4
    <3> HIDE DEF at
    <3> QED
      BY <1>6, <3>1
  <2>7. path[m + k] = second[k] /\ IsWord(rotations[second[k]]) /\ IsWord(g[m]) /\ IsWord(h[j])
    BY <1>1, <1>6, <2>4
  <2>8. h[k] = Times(h[j], rotations[second[k]])
    BY <1>6, <2>2, <2>3
  <2>9. f[m + k] = Times(Times(g[m], h[j]), rotations[second[k]])
    BY <2>5, <2>6, <2>7
  <2>10. f[m + k] = Times(g[m], h[k])
    BY <2>7, <2>8, <2>9, TimesAssociates
  <2> QED
    BY <2>1, <2>10
<1>9. n \in 0 .. n
  BY <1>1
<1> QED
  BY <1>6, <1>8, <1>9

-----------------------------------------------------------------------------
(* Paths of a rig.                                                         *)

Parents(joints) == [j \in DOMAIN joints |-> joints[j].parent]

(* The joints from n steps above j down to it.                             *)
Descent(joints, j, n) == [i \in 1 .. n |-> At(Parents(joints), j, n - i)]

LEMMA ParentWalkIsAt ==
  ASSUME NEW joints, IsRig(joints), NEW j, NEW k \in 0 .. Len(joints) + 1
  PROVE  ParentWalk(joints, j)[k] = At(Parents(joints), j, k)
<1> DEFINE n == Len(joints) + 1
           up == ParentWalk(joints, j)
           on(i) == At(Parents(joints), j, i)
           Apart == {i \in 0 .. n : up[i] # on(i)}
<1>1. n \in Nat
  BY DEF IsRig
<1>2. \A i \in 0 .. n : up[i] = IF i = 0 THEN j ELSE Above(joints, up[i - 1])
  <2>1. up = [i \in 0 .. n |-> IF i = 0 THEN j ELSE Above(joints, up[i - 1])]
    BY ParentWalkSteps DEF WalkUpTo, IsRig
  <2> HIDE DEF up, n
  <2> QED
    BY <2>1
<1>3. on(0) = j /\ \A i \in Nat : on(i + 1) = Above(joints, on(i))
  BY AtSteps DEF Up, Above, Parents
<1> HIDE DEF up, on
<1>4. SUFFICES ASSUME Apart # {} PROVE FALSE
  BY DEF up, on
<1>5. PICK i \in Apart : \A m \in Apart : i <= m
  <2>1. Apart \subseteq Nat
    OBVIOUS
  <2> HIDE DEF Apart
  <2> QED
    BY <1>4, <2>1, SmallestIndex
<1>6. i # 0 /\ i \in 0 .. n
  BY <1>1, <1>2, <1>3, <1>5
<1>7. PICK h \in Nat : i = h + 1
  <2>1. i - 1 \in Nat /\ i = (i - 1) + 1
    BY <1>6
  <2> QED
    BY <2>1
<1>8. h \in 0 .. n /\ ~(i <= h) /\ i - 1 = h
  BY <1>1, <1>6, <1>7
<1>9. up[h] = on(h)
  BY <1>5, <1>8
<1>10. up[i] = Above(joints, up[h])
  BY <1>2, <1>6, <1>8
<1> QED
  BY <1>3, <1>5, <1>7, <1>9, <1>10

(* A joint's way up: it passes joints and leaves the rig at the root.      *)
Rises(joints, j, n) ==
  /\ n \in 1 .. Len(joints)
  /\ At(Parents(joints), j, n) = 0
  /\ \A k \in 0 .. n - 1 : At(Parents(joints), j, k) \in DOMAIN joints

LEMMA JointRises ==
  ASSUME NEW joints, IsRig(joints), NEW j \in DOMAIN joints
  PROVE  Rises(joints, j, SourceDepth(joints, j) + 1)
<1> DEFINE N == Len(joints)
           up == ParentWalk(joints, j)
           on(k) == At(Parents(joints), j, k)
           ends == {k \in 0 .. N - 1 : up[k + 1] = 0}
           d == SourceDepth(joints, j)
<1>1. N \in Nat /\ DOMAIN joints = 1 .. N /\ j \in 1 .. N
  BY DEF IsRig
<1>2. \A k \in 0 .. N + 1 : up[k] = on(k)
  BY ParentWalkIsAt
<1>3. \A k \in 0 .. N : up[k] \in 0 .. N - k
  BY ParentWalkClimbs
<1>4. on(0) = j
  BY AtSteps
<1>5. d = IF j \notin DOMAIN joints \/ ends = {} THEN 0 ELSE Min(ends)
  BY DEF SourceDepth
<1> HIDE DEF N, up, on, d
<1>6. N - 1 \in ends
  <2>1. N \in 0 .. N /\ N - 1 \in 0 .. N - 1 /\ (N - 1) + 1 = N /\ N - N = 0
    BY <1>1
  <2>2. up[N] \in 0 .. 0
    BY <1>3, <2>1
  <2> QED
    BY <2>1, <2>2
<1>7. d \in ends /\ \A k \in ends : d <= k
  <2>1. ends \subseteq Nat
    BY <1>1
  <2>2. d = Min(ends)
    BY <1>5, <1>6
  <2> HIDE DEF ends
  <2> QED
    BY <1>6, <2>1, <2>2, MinProperties
<1>8. d \in 0 .. N - 1 /\ d + 1 \in 1 .. N /\ up[d + 1] = 0
  BY <1>1, <1>7
<1>9. on(d + 1) = 0
  <2>1. d + 1 \in 0 .. N + 1
    BY <1>1, <1>8
  <2> QED
    BY <1>2, <1>8, <2>1
<1>10. ASSUME NEW k \in 0 .. d PROVE on(k) \in DOMAIN joints
  <2>1. k \in 0 .. N /\ k \in 0 .. N + 1
    BY <1>1, <1>8
  <2>2. CASE k = 0
    BY <1>4, <2>2
  <2>3. CASE k # 0
    <3>1. k - 1 \in 0 .. N - 1 /\ (k - 1) + 1 = k /\ ~(d <= k - 1)
      BY <1>1, <1>8, <2>3
    <3>2. k - 1 \notin ends
      BY <1>7, <3>1
    <3>3. up[k] # 0
      BY <3>1, <3>2
    <3>4. up[k] \in 0 .. N - k
      BY <1>3, <2>1
    <3>5. up[k] \in 1 .. N
      BY <1>1, <2>1, <3>3, <3>4
    <3> QED
      BY <1>1, <1>2, <2>1, <3>5
  <2> QED
    BY <2>2, <2>3
<1>11. (d + 1) - 1 = d
  BY <1>8
<1> QED
  BY <1>8, <1>9, <1>10, <1>11 DEF Rises, N, on, d

LEMMA RisesOnce ==
  ASSUME NEW joints, IsRig(joints), NEW j, NEW n, NEW m, Rises(joints, j, n),
         m \in Nat, At(Parents(joints), j, m) = 0, \A k \in 0 .. m - 1 : At(Parents(joints), j, k) # 0
  PROVE  m = n
<1> DEFINE N == Len(joints)
<1>1. N \in Nat /\ n \in 1 .. N /\ 0 \notin DOMAIN joints
  BY DEF Rises, IsRig
<1>2. ~(m < n)
  <2> SUFFICES ASSUME m < n PROVE FALSE
    OBVIOUS
  <2>1. m \in 0 .. n - 1
    BY <1>1
  <2> QED
    BY <1>1, <2>1 DEF Rises
<1>3. ~(n < m)
  <2> SUFFICES ASSUME n < m PROVE FALSE
    OBVIOUS
  <2>1. n \in 0 .. m - 1
    BY <1>1
  <2> QED
    BY <2>1 DEF Rises
<1> QED
  BY <1>1, <1>2, <1>3

LEMMA RigPathIs ==
  ASSUME NEW j, IsRig(imported.joints), j \in DOMAIN imported.joints
  PROVE  \E n \in 1 .. Len(imported.joints) :
           Rises(imported.joints, j, n) /\ RigPath(j) = Descent(imported.joints, j, n)
<1> DEFINE joints == imported.joints
           n == SourceDepth(joints, j) + 1
           up == ParentWalk(joints, j)
<1>1. RigPath(j) = [i \in 1 .. n |-> up[n - i]]
  BY Zenon DEF RigPath
<1>2. IsRig(joints) /\ j \in DOMAIN joints
  OBVIOUS
<1> HIDE DEF joints
<1>3. Rises(joints, j, n)
  BY <1>2, JointRises
<1>4. \A k \in 0 .. Len(joints) + 1 : up[k] = At(Parents(joints), j, k)
  BY <1>2, ParentWalkIsAt
<1>5. n \in 1 .. Len(joints) /\ Len(joints) \in Nat
  BY <1>2, <1>3 DEF Rises, IsRig
<1> HIDE DEF n, up
<1>6. \A i \in 1 .. n : n - i \in 0 .. Len(joints) + 1
  BY <1>5
<1>7. RigPath(j) = Descent(joints, j, n)
  BY <1>1, <1>4, <1>6 DEF Descent
<1> QED
  BY <1>3, <1>5, <1>7 DEF joints

(* A bone's path comes down from the first bound joint above it, or from   *)
(* above the root.                                                         *)
Meets(joints, bound, j, m) ==
  /\ m \in 1 .. Len(joints)
  /\ At(Parents(joints), j, m) \in bound \cup {0}
  /\ \A k \in 1 .. m - 1 : At(Parents(joints), j, k) \notin bound \cup {0}

LEMMA BonePathIs ==
  ASSUME NEW joints, IsRig(joints), NEW j \in DOMAIN joints, NEW bound
  PROVE  \E m \in 1 .. Len(joints) :
           /\ Meets(joints, bound, j, m)
           /\ PathFromNearestBoundAncestor(joints, j, bound) = Descent(joints, j, m)
<1> DEFINE N == Len(joints)
           up == ParentWalk(joints, j)
           stops == {k \in 1 .. N : up[k] \in bound \cup {0}}
           m == Min(stops)
<1>1. N \in Nat /\ DOMAIN joints = 1 .. N /\ j \in 1 .. N
  BY DEF IsRig
<1>2. \A k \in 0 .. N + 1 : up[k] = At(Parents(joints), j, k)
  BY ParentWalkIsAt
<1>3. \A k \in 0 .. N : up[k] \in 0 .. N - k
  BY ParentWalkClimbs
<1>4. PathFromNearestBoundAncestor(joints, j, bound) = [i \in 1 .. m |-> up[m - i]]
  BY Zenon DEF PathFromNearestBoundAncestor
<1> HIDE DEF N, up
<1>5. N \in stops
  <2>1. N \in 0 .. N /\ N - N = 0
    BY <1>1
  <2>2. up[N] \in 0 .. 0
    BY <1>3, <2>1
  <2> QED
    BY <1>1, <2>2
<1>6. m \in stops /\ \A k \in stops : m <= k
  <2>1. stops \subseteq Nat
    BY <1>1
  <2> HIDE DEF stops
  <2> QED
    BY <1>5, <2>1, MinProperties
<1> HIDE DEF m
<1>7. m \in 1 .. N /\ \A i \in 1 .. m : m - i \in 0 .. N + 1
  BY <1>1, <1>6
<1>8. \A k \in 1 .. m - 1 : k \in 1 .. N /\ k \in 0 .. N + 1 /\ k \notin stops
  BY <1>1, <1>6
<1>9. m \in 0 .. N + 1
  BY <1>1, <1>7
<1>10. Meets(joints, bound, j, m)
  BY <1>2, <1>6, <1>7, <1>8, <1>9 DEF Meets, N
<1>11. PathFromNearestBoundAncestor(joints, j, bound) = Descent(joints, j, m)
  BY <1>2, <1>4, <1>7 DEF Descent
<1> QED
  BY <1>7, <1>10, <1>11 DEF N

(* The way down to a joint is the way down to one above it, and on.        *)
LEMMA DescentGoesOn ==
  ASSUME NEW joints, IsRig(joints), NEW j, NEW n, Rises(joints, j, n),
         NEW m \in Nat, NEW above, above = At(Parents(joints), j, m), above # 0,
         NEW h, Rises(joints, above, h)
  PROVE  Then(Descent(joints, j, n), Descent(joints, above, h), Descent(joints, j, m))
<1> DEFINE on(k) == At(Parents(joints), j, k)
           up(k) == At(Parents(joints), above, k)
<1>1. /\ Len(joints) \in Nat /\ n \in 1 .. Len(joints) /\ h \in 1 .. Len(joints)
      /\ 0 \notin DOMAIN joints
  BY DEF Rises, IsRig
<1>2. \A k \in Nat : up(k) = on(m + k)
  BY AtGoesOn
<1>3. on(n) = 0 /\ (\A k \in 0 .. n - 1 : on(k) # 0) /\ up(h) = 0 /\ \A k \in 0 .. h - 1 : up(k) # 0
  BY <1>1 DEF Rises
<1>4. \A k \in Nat : n <= k => on(k) = 0
  <2>1. on(n) \notin DOMAIN Parents(joints)
    BY <1>1, <1>3 DEF Parents
  <2> SUFFICES ASSUME NEW k \in Nat, n <= k PROVE on(k) = 0
    OBVIOUS
  <2>2. on(k) = on(n)
    BY <1>1, <2>1, AtStaysOut
  <2> QED
    BY <1>3, <2>2
<1> HIDE DEF on, up
<1>5. on(m) # 0
  BY DEF on
<1>6. m < n
  BY <1>1, <1>4, <1>5
<1>7. n = h + m
  <2>1. ~(m + h < n)
    <3> SUFFICES ASSUME m + h < n PROVE FALSE
      OBVIOUS
    <3>1. m + h \in 0 .. n - 1 /\ h \in Nat
      BY <1>1
    <3> QED
      BY <1>2, <1>3, <3>1
  <2>2. ~(n < m + h)
    <3> SUFFICES ASSUME n < m + h PROVE FALSE
      OBVIOUS
    <3>1. n - m \in 0 .. h - 1 /\ n - m \in Nat /\ m + (n - m) = n
      BY <1>1, <1>6
    <3>2. up(n - m) = on(m + (n - m))
      BY <1>2, <3>1
    <3>3. up(n - m) = on(n)
      BY <3>1, <3>2
    <3> QED
      BY <1>3, <3>1, <3>3
  <2> QED
    BY <1>1, <2>1, <2>2
<1> DEFINE path == Descent(joints, j, n)
           first == Descent(joints, above, h)
           second == Descent(joints, j, m)
<1>8. /\ path = [i \in 1 .. n |-> on(n - i)]
      /\ first = [i \in 1 .. h |-> up(h - i)]
      /\ second = [i \in 1 .. m |-> on(m - i)]
  BY DEF Descent, on, up
<1> HIDE DEF path, first, second
<1>9. n \in Nat /\ h \in Nat
  BY <1>1
<1>10. Len(path) = n /\ Len(first) = h /\ Len(second) = m
  BY <1>8, <1>9
<1>11. ASSUME NEW i \in 1 .. h PROVE path[i] = first[i]
  <2>1. i \in 1 .. n /\ h - i \in Nat /\ m + (h - i) = n - i
    BY <1>7, <1>9
  <2>2. up(h - i) = on(m + (h - i))
    BY <1>2, <2>1
  <2>3. path[i] = on(n - i) /\ first[i] = up(h - i)
    BY <1>8, <2>1
  <2> QED
    BY <2>1, <2>2, <2>3
<1>12. ASSUME NEW i \in 1 .. m PROVE path[h + i] = second[i]
  <2> DEFINE k == h + i
  <2>1. k \in 1 .. n /\ n - k = m - i
    BY <1>7, <1>9
  <2> HIDE DEF k
  <2>2. path[k] = on(n - k) /\ second[i] = on(m - i)
    BY <1>8, <2>1
  <2>3. path[k] = second[i]
    BY <2>1, <2>2
  <2> QED
    BY <2>3 DEF k
<1> QED
  BY <1>7, <1>9, <1>10, <1>11, <1>12 DEF Then, path, first, second

-----------------------------------------------------------------------------
(* What a crossing that is not refused works with.                         *)

Carried(c) == {c.jointOf[bone] : bone \in c.present}

CrossingStands(joints, c) ==
  /\ IsRig(joints) /\ c.joints = joints
  /\ c.present \subseteq HumanJoint /\ Hips \in c.present
  /\ \A bone \in c.present :
       /\ c.jointOf[bone] \in DOMAIN joints
       /\ c.path[bone] = PathFromNearestBoundAncestor(joints, c.jointOf[bone], Carried(c))
       /\ NearestPresentAncestor(bone, c.present) # NoBone =>
            IsAncestorJoint(joints, c.jointOf[NearestPresentAncestor(bone, c.present)], c.jointOf[bone])
  /\ \A j \in Carried(c) : c.boneOf[j] \in c.present /\ c.jointOf[c.boneOf[j]] = j

LEMMA WorkStands ==
  ASSUME NEW joints, Len(joints) \in Nat, DOMAIN joints = 1 .. Len(joints),
         NEW animation, NEW f, ConversionRefusal(joints, animation, f) = None
  PROVE  CrossingStands(joints, Crossing(MatchSourceProfile(f, joints), joints, animation, f))
<1> DEFINE match == MatchSourceProfile(f, joints)
           bound == match.bound
           present == {b.bone : b \in bound}
           jointOf == [bone \in present |-> JointBound(bound, bone)]
           carried == Range(jointOf)
           c == Crossing(match, joints, animation, f)
<1>1. IsRig(joints)
  BY NothingRefused DEF IsRig
<1>2. /\ c.joints = joints /\ c.present = present /\ c.jointOf = jointOf
      /\ c.boneOf = [j \in DOMAIN joints |->
                       IF j \in carried THEN CHOOSE bone \in present : jointOf[bone] = j ELSE NoBone]
      /\ c.path = [bone \in present |-> PathFromNearestBoundAncestor(joints, jointOf[bone], carried)]
  BY Zenon DEF Crossing
<1>3. bound = {Binding(joints, m) : m \in Finds(f, joints, {1})}
  BY DEF MatchSourceProfile
<1>4. Hips \in present
  BY HipsAreBound
<1>5. \A bone \in present : JointBound(bound, bone) \in DOMAIN joints
  BY JointBoundIsInTheRig
<1>6. present \subseteq HumanJoint
  <2> SUFFICES ASSUME NEW m \in Finds(f, joints, {1}) PROVE Binding(joints, m).bone \in HumanJoint
    BY <1>3
  <2>1. m \in Range(f.joints)
    BY DEF Finds
  <2>2. \A i \in DOMAIN f.joints : f.joints[i].bone \in HumanJoint
    BY NothingRefused DEF ProfileIsValid, MapsEachJointOnce
  <2> QED
    BY <2>1, <2>2 DEF Range, Binding
<1>7. \A b \in bound : SitsUnderItsAncestor(joints, bound, b)
  BY <1>3, NothingRefused
<1> HIDE DEF bound, c
<1>8. \A bone \in present : jointOf[bone] = JointBound(bound, bone)
  OBVIOUS
<1>9. carried = {jointOf[bone] : bone \in present}
  BY DEF Range
<1> HIDE DEF jointOf
<1>10. ASSUME NEW bone \in present, NearestPresentAncestor(bone, present) # NoBone
       PROVE  IsAncestorJoint(joints, jointOf[NearestPresentAncestor(bone, present)], jointOf[bone])
  <2> DEFINE above == NearestPresentAncestor(bone, present)
             b == CHOOSE x \in bound : x.bone = bone
  <2>1. b \in bound /\ b.bone = bone
    OBVIOUS
  <2>2. jointOf[bone] = b.joint
    BY <1>8 DEF JointBound
  <2> HIDE DEF b
  <2>3. IsAncestorJoint(joints, JointBound(bound, above), b.joint)
    BY <1>7, <1>10, <2>1 DEF SitsUnderItsAncestor
  <2>4. above \in present
    <3>1. bone \in HumanJoint
      BY <1>6
    <3> HIDE DEF present
    <3> QED
      BY <1>6, <1>10, <3>1, LineageAssumption, PathStep
  <2> QED
    BY <1>8, <2>2, <2>3, <2>4
<1>11. ASSUME NEW j \in carried
       PROVE  c.boneOf[j] \in present /\ jointOf[c.boneOf[j]] = j
  <2>1. j \in DOMAIN joints
    BY <1>5, <1>8, <1>9
  <2>2. \E bone \in present : jointOf[bone] = j
    BY <1>9
  <2>3. c.boneOf[j] = CHOOSE bone \in present : jointOf[bone] = j
    BY <1>2, <2>1
  <2> HIDE DEF present
  <2> QED
    BY <2>2, <2>3
<1>12. Carried(c) = carried
  BY <1>2, <1>9 DEF Carried
<1> HIDE DEF carried, present
<1>13. c.joints = joints /\ c.present \subseteq HumanJoint /\ Hips \in c.present
  BY <1>2, <1>4, <1>6
<1>14. \A bone \in c.present :
         /\ c.jointOf[bone] \in DOMAIN joints
         /\ c.path[bone] = PathFromNearestBoundAncestor(joints, c.jointOf[bone], Carried(c))
         /\ NearestPresentAncestor(bone, c.present) # NoBone =>
              IsAncestorJoint(joints, c.jointOf[NearestPresentAncestor(bone, c.present)], c.jointOf[bone])
  BY <1>2, <1>5, <1>8, <1>10, <1>12
<1>15. \A j \in Carried(c) : c.boneOf[j] \in c.present /\ c.jointOf[c.boneOf[j]] = j
  BY <1>2, <1>11, <1>12
<1> QED
  BY <1>1, <1>13, <1>14, <1>15 DEF CrossingStands, c

(* Every bone but the hips has a present bone above it, whose joint is     *)
(* above the bone's own.                                                   *)
LEMMA BonesHangUnderBones ==
  ASSUME NEW joints, NEW c, CrossingStands(joints, c), NEW bone \in c.present, bone # Hips
  PROVE  LET above == NearestPresentAncestor(bone, c.present)
         IN  /\ above \in c.present
             /\ HumanJointPath(bone, c.present) = Append(HumanJointPath(above, c.present), bone)
             /\ \E k \in 1 .. Len(joints) : At(Parents(joints), c.jointOf[bone], k) = c.jointOf[above]
<1> DEFINE above == NearestPresentAncestor(bone, c.present)
           lineage == PresentLineage(bone, c.present)
<1>1. c.present \subseteq HumanJoint /\ Hips \in c.present /\ bone \in HumanJoint /\ IsRig(joints)
  BY DEF CrossingStands
<1>2. IsSequence(Lineage[bone]) /\ Hips \in Range(Lineage[bone])
      /\ \A n \in DOMAIN Lineage[bone] : Lineage[bone][n] # NoBone
  BY <1>1, LineageAssumption, LineageStands
<1>3. IsSequence(lineage) /\ Range(lineage) = Range(Lineage[bone]) \cap c.present
  BY <1>2, OnlyIsThose DEF PresentLineage
<1>4. above = IF lineage = << >> THEN NoBone ELSE lineage[1]
  BY DEF NearestPresentAncestor
<1> HIDE DEF lineage
<1>5. above # NoBone
  <2>1. Hips \in Range(lineage)
    BY <1>1, <1>2, <1>3
  <2>2. lineage # << >> /\ 1 \in DOMAIN lineage
    <3>1. DOMAIN lineage = 1 .. Len(lineage) /\ Len(lineage) \in Nat
      BY <1>3 DEF IsSequence
    <3> QED
      BY <2>1, <3>1 DEF Range
  <2>3. lineage[1] \in Range(Lineage[bone])
    BY <1>3, <2>2 DEF Range
  <2>4. lineage[1] # NoBone
    BY <1>2, <2>3 DEF Range
  <2> QED
    BY <1>4, <2>2, <2>4
<1>6. above \in c.present
      /\ HumanJointPath(bone, c.present) = Append(HumanJointPath(above, c.present), bone)
  BY <1>1, <1>5, LineageAssumption, PathStep
<1>7. IsAncestorJoint(joints, c.jointOf[above], c.jointOf[bone])
  BY <1>5 DEF CrossingStands
<1>8. PICK k \in 1 .. Len(joints) : ParentWalk(joints, c.jointOf[bone])[k] = c.jointOf[above]
  BY <1>7 DEF IsAncestorJoint
<1>9. k \in 0 .. Len(joints) + 1
  BY <1>1 DEF IsRig
<1>10. At(Parents(joints), c.jointOf[bone], k) = c.jointOf[above]
  BY <1>1, <1>8, <1>9, ParentWalkIsAt
<1> QED
  BY <1>6, <1>8, <1>10

LEMMA DescentIsAsLong ==
  ASSUME NEW joints, NEW j, NEW n \in Nat
  PROVE  Len(Descent(joints, j, n)) = n /\ \A i \in 1 .. n : Descent(joints, j, n)[i] = At(Parents(joints), j, n - i)
BY DEF Descent

LEMMA RisesOn ==
  ASSUME NEW joints, IsRig(joints), NEW j, NEW n, Rises(joints, j, n),
         NEW m \in Nat, NEW above, above = At(Parents(joints), j, m), above # 0,
         NEW h, Rises(joints, above, h)
  PROVE  n = h + m
<1>1. Then(Descent(joints, j, n), Descent(joints, above, h), Descent(joints, j, m))
  BY DescentGoesOn
<1>2. n \in Nat /\ h \in Nat
  BY DEF Rises, IsRig
<1>3. /\ Len(Descent(joints, j, n)) = n /\ Len(Descent(joints, above, h)) = h
      /\ Len(Descent(joints, j, m)) = m
  BY <1>2, DescentIsAsLong
<1> QED
  BY <1>1, <1>3 DEF Then

(* No bound joint is above the hips', and every other bone has one above.  *)
LEMMA OnlyHipsAreFirst ==
  ASSUME NEW joints, NEW c, CrossingStands(joints, c), NEW bone \in c.present,
         NEW m, Meets(joints, Carried(c), c.jointOf[bone], m)
  PROVE  At(Parents(joints), c.jointOf[bone], m) = 0 <=> bone = Hips
<1> DEFINE P == Parents(joints)
           N == Len(joints)
           Depths == {n \in Nat : \E b \in c.present : Rises(joints, c.jointOf[b], n)}
<1>1. /\ IsRig(joints) /\ N \in Nat /\ 0 \notin DOMAIN joints /\ Hips \in c.present
      /\ \A b \in c.present : c.jointOf[b] \in DOMAIN joints
      /\ \A j \in Carried(c) : c.boneOf[j] \in c.present /\ c.jointOf[c.boneOf[j]] = j
  BY DEF CrossingStands, IsRig
<1>2. m \in 1 .. N /\ m \in Nat
  BY <1>1 DEF Meets
<1>3. ASSUME NEW b \in c.present, b # Hips
      PROVE  \E k \in 1 .. N, a \in c.present : At(P, c.jointOf[b], k) = c.jointOf[a]
  BY <1>3, BonesHangUnderBones
<1>4. \A b \in c.present : \E n \in Nat : Rises(joints, c.jointOf[b], n)
  <2> SUFFICES ASSUME NEW b \in c.present PROVE \E n \in Nat : Rises(joints, c.jointOf[b], n)
    OBVIOUS
  <2> DEFINE n == SourceDepth(joints, c.jointOf[b]) + 1
  <2>1. Rises(joints, c.jointOf[b], n)
    BY <1>1, JointRises
  <2> HIDE DEF n
  <2>2. n \in Nat
    BY <1>1, <2>1 DEF Rises
  <2> QED
    BY <2>1, <2>2
<1>5. ASSUME NEW b \in c.present, NEW n \in Nat, Rises(joints, c.jointOf[b], n),
             NEW k \in 1 .. N, NEW a \in c.present, At(P, c.jointOf[b], k) = c.jointOf[a]
      PROVE  \E h \in Depths : h < n
  <2>1. PICK h \in Nat : Rises(joints, c.jointOf[a], h)
    BY <1>4
  <2>2. k \in Nat /\ c.jointOf[a] # 0
    BY <1>1
  <2>3. n = h + k
    BY <1>1, <1>5, <2>1, <2>2, RisesOn
  <2>4. h < n /\ h \in Depths
    BY <1>1, <2>1, <2>3
  <2> QED
    BY <2>4
<1>6. CASE bone # Hips
  <2> SUFFICES ASSUME At(P, c.jointOf[bone], m) = 0 PROVE FALSE
    BY <1>6
  <2>1. PICK k \in 1 .. N, a \in c.present : At(P, c.jointOf[bone], k) = c.jointOf[a]
    BY <1>3, <1>6
  <2>2. c.jointOf[a] # 0 /\ c.jointOf[a] \in Carried(c) /\ k \in Nat
    BY <1>1 DEF Carried
  <2>3. k < m
    <3> SUFFICES ASSUME m <= k PROVE FALSE
      BY <1>2, <2>2
    <3>1. At(P, c.jointOf[bone], m) \notin DOMAIN P
      BY <1>1 DEF Parents
    <3>2. At(P, c.jointOf[bone], k) = At(P, c.jointOf[bone], m)
      <4> HIDE DEF P
      <4> QED
        BY <1>2, <2>2, <3>1, AtStaysOut
    <3> QED
      BY <2>1, <2>2, <3>2
  <2>4. k \in 1 .. m - 1
    BY <1>2, <2>3
  <2> QED
    BY <2>1, <2>2, <2>4 DEF Meets
<1>7. CASE bone = Hips
  <2> SUFFICES ASSUME At(P, c.jointOf[Hips], m) # 0 PROVE FALSE
    BY <1>7
  <2>1. PICK n \in Depths : \A k \in Depths : n <= k
    <3>1. Depths # {} /\ Depths \subseteq Nat
      BY <1>1, <1>4
    <3> HIDE DEF Depths
    <3> QED
      BY <3>1, SmallestIndex
  <2>2. PICK b \in c.present : Rises(joints, c.jointOf[b], n)
    BY <2>1
  <2>3. \A h \in Depths : ~(h < n)
    <3>1. Depths \subseteq Nat
      OBVIOUS
    <3> HIDE DEF Depths
    <3> QED
      BY <2>1, <3>1
  <2>4. n \in Nat
    BY <2>1
  <2>5. b = Hips
    <3> SUFFICES ASSUME b # Hips PROVE FALSE
      OBVIOUS
    <3>1. PICK k \in 1 .. N, a \in c.present : At(P, c.jointOf[b], k) = c.jointOf[a]
      BY <1>3
    <3> HIDE DEF Depths, P, N
    <3> QED
      BY <1>5, <2>2, <2>3, <2>4, <3>1
  <2>6. At(P, c.jointOf[Hips], m) \in Carried(c)
    BY <1>7 DEF Meets
  <2>7. PICK a \in c.present : At(P, c.jointOf[Hips], m) = c.jointOf[a]
    BY <1>1, <2>6
  <2> HIDE DEF Depths, P, N
  <2> QED
    BY <1>2, <1>5, <2>2, <2>3, <2>4, <2>5, <2>7
<1> QED
  BY <1>6, <1>7

-----------------------------------------------------------------------------
(* A chain keeps its total orientation.                                    *)

LEMMA ComposedOne ==
  ASSUME NEW path, NEW rotations, Len(path) = 1, IsWord(rotations[path[1]])
  PROVE  Composed(path, rotations) = rotations[path[1]]
<1>1. Turns(path, rotations)
  BY DEF Turns
<1>2. PICK f : TurnsBy(f, path, rotations)
  BY <1>1, ComposedIs
<1>3. f[0] = Identity /\ f[1] = Composed(path, rotations)
  BY <1>2 DEF TurnsBy
<1>4. f[0 + 1] = Times(f[0], rotations[path[0 + 1]])
  BY <1>2 DEF TurnsBy
<1>5. f[1] = Times(Identity, rotations[path[1]])
  BY <1>3, <1>4
<1> QED
  BY <1>3, <1>5, JoinedToIdentity

LEMMA PathIsPresent ==
  ASSUME NEW present, present \subseteq HumanJoint, NEW bone \in present
  PROVE  LET path == HumanJointPath(bone, present)
         IN  /\ IsSequence(path) /\ DOMAIN path = 1 .. Len(path) /\ Len(path) \in Nat
             /\ bone \in Range(path) /\ Range(path) \subseteq present
<1> DEFINE path == HumanJointPath(bone, present)
           above == PresentLineage(bone, present)
<1>1. bone \in HumanJoint
  OBVIOUS
<1>2. /\ IsSequence(above) /\ Len(above) \in Nat /\ DOMAIN above = 1 .. Len(above)
      /\ PathIs(path, above, bone)
  BY <1>1, LineageAssumption, PathShape
<1>3. Range(above) \subseteq present
  BY <1>1, LineageAssumption, LineageStands, OnlyIsThose DEF PresentLineage
<1> HIDE DEF path, above
<1>4. /\ IsSequence(path) /\ Len(path) = Len(above) + 1 /\ DOMAIN path = 1 .. Len(above) + 1
      /\ \A k \in 1 .. Len(above) : path[k] = above[Len(above) + 1 - k]
      /\ path[Len(above) + 1] = bone
  BY <1>2 DEF PathIs
<1> DEFINE n == Len(above)
<1>5. n \in Nat /\ \A k \in 1 .. n : above[k] \in present
  BY <1>2, <1>3 DEF Range
<1> HIDE DEF n
<1>6. ASSUME NEW k \in 1 .. n + 1 PROVE path[k] \in present
  <2>1. CASE k = n + 1
    BY <1>4, <2>1 DEF n
  <2>2. CASE k # n + 1
    <3> DEFINE i == n + 1 - k
    <3>1. i \in 1 .. n /\ k \in 1 .. n
      BY <1>5, <2>2
    <3>2. path[k] = above[i]
      BY <1>4, <3>1 DEF n
    <3> HIDE DEF i
    <3> QED
      BY <1>5, <3>1, <3>2
  <2> QED
    BY <2>1, <2>2
<1>7. Range(path) \subseteq present
  BY <1>4, <1>6 DEF Range, n
<1>8. bone \in Range(path)
  <2>1. n + 1 \in DOMAIN path
    BY <1>4, <1>5 DEF n
  <2> QED
    BY <1>4, <2>1 DEF Range, n
<1> QED
  BY <1>2, <1>4, <1>7, <1>8 DEF path

LEMMA HipsStandAlone ==
  ASSUME NEW present
  PROVE  Len(HumanJointPath(Hips, present)) = 1 /\ HumanJointPath(Hips, present)[1] = Hips
<1> DEFINE above == PresentLineage(Hips, present)
           path == HumanJointPath(Hips, present)
<1>1. Lineage[Hips] = << >>
  BY LineageAssumption DEF LineageIsSound
<1>2. Len(above) = 0
  <2>1. above = Only(<< >>, present)
    BY <1>1 DEF PresentLineage
  <2>2. IsSequence(above) /\ Range(above) = {}
    BY <2>1, NothingIsASequence, OnlyIsThose
  <2> HIDE DEF above
  <2>3. DOMAIN above = 1 .. Len(above) /\ Len(above) \in Nat
    BY <2>2 DEF IsSequence
  <2>4. Len(above) # 0 => 1 \in DOMAIN above /\ above[1] \in Range(above)
    BY <2>3 DEF Range
  <2> QED
    BY <2>2, <2>3, <2>4
<1>3. above = << >>
  <2>1. above = Only(<< >>, present)
    BY <1>1 DEF PresentLineage
  <2>2. IsSequence(above)
    BY <2>1, NothingIsASequence, OnlyIsThose
  <2> HIDE DEF above
  <2> QED
    BY <1>2, <2>2 DEF IsSequence
<1>4. path = Append(Reverse(<< >>), Hips)
  BY <1>3 DEF HumanJointPath
<1>5. Reverse(<< >>) = << >>
  BY DEF Reverse
<1> QED
  BY <1>4, <1>5

LEMMA LongerPath ==
  ASSUME NEW path, NEW bone, IsSequence(path)
  PROVE  /\ Then(Append(path, bone), path, <<bone>>)
         /\ Range(path) \subseteq Range(Append(path, bone))
<1> DEFINE n == Len(path)
           longer == Append(path, bone)
           S == Range(path) \cup {bone}
<1>1. n \in Nat /\ DOMAIN path = 1 .. n /\ path \in Seq(S)
  BY DEF IsSequence
<1> HIDE DEF S
<1>2. /\ longer \in Seq(S) /\ Len(longer) = n + 1
      /\ \A i \in 1 .. n : longer[i] = path[i]
      /\ longer[n + 1] = bone
  <2>1. bone \in S
    BY DEF S
  <2> QED
    BY <1>1, <2>1, AppendProperties
<1> HIDE DEF longer
<1>3. DOMAIN longer = 1 .. n + 1
  BY <1>1, <1>2
<1>4. Then(longer, path, <<bone>>)
  <2>1. Len(<<bone>>) = 1 /\ <<bone>>[1] = bone
    OBVIOUS
  <2>2. \A i \in 1 .. 1 : longer[n + i] = <<bone>>[i]
    BY <1>2
  <2> QED
    BY <1>2, <2>1, <2>2 DEF Then
<1>5. Range(path) \subseteq Range(longer)
  <2> SUFFICES ASSUME NEW i \in 1 .. n PROVE path[i] \in Range(longer)
    BY <1>1 DEF Range
  <2>1. i \in 1 .. n + 1 /\ longer[i] = path[i]
    BY <1>1, <1>2
  <2> QED
    BY <1>3, <2>1 DEF Range
<1> QED
  BY <1>4, <1>5 DEF longer

LEMMA DescentTurns ==
  ASSUME NEW joints, IsRig(joints), NEW j, NEW n, Rises(joints, j, n),
         NEW rotations, \A i \in DOMAIN joints : IsWord(rotations[i]),
         NEW m \in Nat, m <= n
  PROVE  Turns(Descent(joints, j, m), rotations)
<1>1. n \in Nat /\ \A k \in 0 .. n - 1 : At(Parents(joints), j, k) \in DOMAIN joints
  BY DEF Rises, IsRig
<1>2. Len(Descent(joints, j, m)) = m
      /\ \A i \in 1 .. m : Descent(joints, j, m)[i] = At(Parents(joints), j, m - i)
  BY DescentIsAsLong
<1>3. \A i \in 1 .. m : m - i \in 0 .. n - 1
  BY <1>1
<1> QED
  BY <1>1, <1>2, <1>3 DEF Turns

LEMMA MaxIs ==
  ASSUME NEW S, S \subseteq Int, NEW x \in S, \A y \in S : y <= x
  PROVE  Max(S) = x
<1> DEFINE most == CHOOSE z \in S : \A y \in S : z >= y
<1>1. x \in S /\ \A y \in S : x >= y
  OBVIOUS
<1>2. most \in S /\ \A y \in S : most >= y
  BY <1>1
<1>3. Max(S) = most
  BY DEF Max
<1> HIDE DEF most
<1> QED
  BY <1>2, <1>3

(* A bone's path goes on from the nearest bound joint above its own.       *)
LEMMA BoneTurnsOn ==
  ASSUME NEW c, CrossingStands(imported.joints, c), NEW bone \in c.present,
         NEW rotations, \A j \in DOMAIN imported.joints : IsWord(rotations[j])
  PROVE  LET above == JointAbove(c, bone)
         IN  Composed(RigPath(c.jointOf[bone]), rotations)
               = Times(IF above = 0 THEN Identity ELSE Composed(RigPath(above), rotations),
                       Composed(c.path[bone], rotations))
<1> DEFINE joints == imported.joints
           N == Len(joints)
           j == c.jointOf[bone]
           on(k) == At(Parents(joints), j, k)
           above == JointAbove(c, bone)
           path == RigPath(j)
           bound == {i \in 1 .. Len(path) - 1 : path[i] \in Carried(c)}
<1>1. /\ IsRig(joints) /\ N \in Nat /\ 0 \notin DOMAIN joints /\ j \in DOMAIN joints
      /\ Carried(c) \subseteq DOMAIN joints
      /\ c.path[bone] = PathFromNearestBoundAncestor(joints, j, Carried(c))
  <2>1. \A b \in c.present : c.jointOf[b] \in DOMAIN joints
    BY DEF CrossingStands
  <2>2. IsRig(joints) /\ c.path[bone] = PathFromNearestBoundAncestor(joints, j, Carried(c))
    BY DEF CrossingStands
  <2> QED
    BY <2>1, <2>2 DEF IsRig, Carried
<1>2. PICK n \in 1 .. N : Rises(joints, j, n) /\ RigPath(j) = Descent(joints, j, n)
  BY <1>1, RigPathIs
<1>3. PICK m \in 1 .. N : /\ Meets(joints, Carried(c), j, m)
                          /\ PathFromNearestBoundAncestor(joints, j, Carried(c)) = Descent(joints, j, m)
  BY <1>1, BonePathIs
<1>4. above = IF bound = {} THEN 0 ELSE path[Max(bound)]
  BY DEF JointAbove, Carried
<1>5. c.path[bone] = Descent(joints, j, m) /\ path = Descent(joints, j, n)
  BY <1>1, <1>2, <1>3
<1> HIDE DEF joints, N, j, above, path
<1>6. n \in Nat \ {0} /\ m \in Nat \ {0}
  BY <1>1
<1>7. on(n) = 0 /\ \A k \in 0 .. n - 1 : on(k) \in DOMAIN joints /\ on(k) # 0
  BY <1>1, <1>2 DEF Rises
<1>8. on(m) \in Carried(c) \cup {0} /\ \A k \in 1 .. m - 1 : on(k) \notin Carried(c) \cup {0}
  BY <1>3 DEF Meets
<1>9. Len(path) = n /\ \A i \in 1 .. n : path[i] = on(n - i)
  BY <1>5, <1>6, DescentIsAsLong
<1> HIDE DEF on
<1>10. m <= n
  <2> SUFFICES ASSUME n < m PROVE FALSE
    BY <1>6
  <2>1. n \in 1 .. m - 1
    BY <1>6
  <2> QED
    BY <1>7, <1>8, <2>1
<1>11. Turns(Descent(joints, j, m), rotations) /\ Turns(Descent(joints, j, n), rotations)
  <2>1. \A i \in DOMAIN joints : IsWord(rotations[i])
    BY DEF joints
  <2> QED
    BY <1>1, <1>2, <1>6, <1>10, <2>1, DescentTurns
<1>12. CASE m = n
  <2>1. bound = {}
    <3> SUFFICES ASSUME NEW i \in 1 .. n - 1, path[i] \in Carried(c) PROVE FALSE
      BY <1>9
    <3>1. i \in 1 .. n /\ n - i \in 1 .. m - 1
      BY <1>6, <1>12
    <3> QED
      BY <1>8, <1>9, <3>1
  <2>2. above = 0
    BY <1>4, <2>1
  <2>3. Times(Identity, Composed(c.path[bone], rotations)) = Composed(c.path[bone], rotations)
    BY <1>5, <1>11, ComposedIsAWord, JoinedToIdentity
  <2>4. Composed(path, rotations) = Composed(c.path[bone], rotations)
    BY <1>5, <1>12
  <2> QED
    BY <2>2, <2>3, <2>4 DEF above, path, j
<1>13. CASE m # n
  <2>1. m \in 0 .. n - 1 /\ n - m \in 1 .. n - 1 /\ n - m \in 1 .. n /\ n - (n - m) = m
    BY <1>6, <1>10, <1>13
  <2>2. on(m) \in Carried(c) /\ on(m) # 0 /\ on(m) \in DOMAIN joints
    BY <1>7, <1>8, <2>1
  <2>3. n - m \in bound
    <3>1. path[n - m] = on(m)
      BY <1>9, <2>1
    <3> QED
      BY <1>9, <2>1, <2>2, <3>1
  <2>4. \A i \in bound : i <= n - m
    <3> SUFFICES ASSUME NEW i \in 1 .. n - 1, path[i] \in Carried(c), n - m < i PROVE FALSE
      BY <1>6, <1>9
    <3>1. i \in 1 .. n /\ n - i \in 1 .. m - 1
      BY <1>6
    <3> QED
      BY <1>8, <1>9, <3>1
  <2>5. Max(bound) = n - m
    <3>1. bound \subseteq Int
      BY <1>6, <1>9
    <3> HIDE DEF bound
    <3> QED
      BY <2>3, <2>4, <3>1, MaxIs
  <2>6. above = on(m)
    <3>1. path[n - m] = on(m)
      BY <1>9, <2>1
    <3> QED
      BY <1>4, <2>3, <2>5, <3>1
  <2>7. PICK h \in 1 .. N : Rises(joints, above, h) /\ RigPath(above) = Descent(joints, above, h)
    BY <1>1, <2>2, <2>6, RigPathIs DEF joints, N
  <2>8. h \in Nat
    BY <1>1
  <2>9. above = At(Parents(joints), j, m) /\ above # 0
    BY <2>2, <2>6 DEF on
  <2>10. Then(Descent(joints, j, n), Descent(joints, above, h), Descent(joints, j, m))
    BY <1>1, <1>2, <1>6, <2>7, <2>9, DescentGoesOn
  <2>11. Turns(Descent(joints, above, h), rotations)
    <3>1. \A i \in DOMAIN joints : IsWord(rotations[i])
      BY DEF joints
    <3> QED
      BY <1>1, <2>7, <2>8, <3>1, DescentTurns
  <2>12. Composed(path, rotations)
           = Times(Composed(RigPath(above), rotations), Composed(c.path[bone], rotations))
    BY <1>5, <1>11, <2>7, <2>10, <2>11, ComposedThen
  <2> QED
    BY <2>9, <2>12 DEF above, path, j
<1> QED
  BY <1>12, <1>13

LEMMA OrientationComposes ==
  ASSUME NEW c, CrossingStands(imported.joints, c),
         NEW rotations, \A j \in DOMAIN imported.joints : IsWord(rotations[j]),
         NEW bone \in c.present, Aligned(c, bone)
  PROVE  LET turns == [b \in c.present |-> Composed(c.path[b], rotations)]
         IN  Composed(HumanJointPath(bone, c.present), turns)
               = Composed(RigPath(c.jointOf[bone]), rotations)
<1> DEFINE joints == imported.joints
           P == Parents(joints)
           N == Len(joints)
           turns == [b \in c.present |-> Composed(c.path[b], rotations)]
           Keeps(b) == Composed(HumanJointPath(b, c.present), turns)
                        = Composed(RigPath(c.jointOf[b]), rotations)
           Lost == {n \in Nat : \E b \in c.present :
                      Aligned(c, b) /\ Rises(joints, c.jointOf[b], n) /\ ~Keeps(b)}
<1>1. /\ IsRig(joints) /\ c.joints = joints /\ N \in Nat /\ 0 \notin DOMAIN joints
      /\ c.present \subseteq HumanJoint
      /\ \A b \in c.present : /\ c.jointOf[b] \in DOMAIN joints
                              /\ c.path[b] = PathFromNearestBoundAncestor(joints, c.jointOf[b], Carried(c))
      /\ \A j \in Carried(c) : c.boneOf[j] \in c.present /\ c.jointOf[c.boneOf[j]] = j
  BY DEF CrossingStands, IsRig
<1>2. ASSUME NEW b \in c.present
      PROVE  \E n \in 1 .. N, m \in 1 .. N :
               /\ Rises(joints, c.jointOf[b], n)
               /\ RigPath(c.jointOf[b]) = Descent(joints, c.jointOf[b], n)
               /\ Turns(Descent(joints, c.jointOf[b], n), rotations)
               /\ Meets(joints, Carried(c), c.jointOf[b], m) /\ m <= n
               /\ c.path[b] = Descent(joints, c.jointOf[b], m)
               /\ Turns(c.path[b], rotations)
  <2> DEFINE j == c.jointOf[b]
  <2>1. PICK n \in 1 .. N : Rises(joints, j, n) /\ RigPath(j) = Descent(joints, j, n)
    BY <1>1, RigPathIs
  <2>2. PICK m \in 1 .. N : /\ Meets(joints, Carried(c), j, m)
                            /\ PathFromNearestBoundAncestor(joints, j, Carried(c)) = Descent(joints, j, m)
    BY <1>1, BonePathIs
  <2>3. m <= n
    <3> SUFFICES ASSUME n < m PROVE FALSE
      OBVIOUS
    <3>1. n \in 1 .. m - 1
      OBVIOUS
    <3> QED
      BY <2>1, <2>2, <3>1 DEF Rises, Meets
  <2> HIDE DEF joints, N
  <2>4. m \in Nat /\ n \in Nat
    BY <1>1
  <2>5. Turns(Descent(joints, j, m), rotations) /\ Turns(Descent(joints, j, n), rotations)
    BY <1>1, <2>1, <2>3, <2>4, DescentTurns DEF joints
  <2> QED
    BY <1>1, <2>1, <2>2, <2>3, <2>5
<1>3. \A b \in c.present : IsWord(turns[b])
  BY <1>2, ComposedIsAWord
<1>4. \A b \in c.present : turns[b] = Composed(c.path[b], rotations)
  OBVIOUS
<1> HIDE DEF turns, joints, N, P
<1>5. SUFFICES ASSUME Lost # {} PROVE FALSE
  <2>1. PICK n \in 1 .. N : Rises(joints, c.jointOf[bone], n)
    BY <1>2
  <2>2. n \in Nat
    BY <1>1
  <2>3. Keeps(bone)
    BY <1>5, <2>1, <2>2
  <2> QED
    BY <2>3 DEF turns
<1>6. PICK least \in Lost : \A k \in Lost : least <= k
  <2>1. Lost \subseteq Nat
    OBVIOUS
  <2> HIDE DEF Lost
  <2> QED
    BY <1>5, <2>1, SmallestIndex
<1>7. PICK b \in c.present : Aligned(c, b) /\ Rises(joints, c.jointOf[b], least) /\ ~Keeps(b)
  BY <1>6
<1> DEFINE j == c.jointOf[b]
<1>8. PICK n \in 1 .. N, m \in 1 .. N :
        /\ Rises(joints, j, n)
        /\ RigPath(j) = Descent(joints, j, n)
        /\ Turns(Descent(joints, j, n), rotations)
        /\ Meets(joints, Carried(c), j, m) /\ m <= n
        /\ c.path[b] = Descent(joints, j, m)
        /\ Turns(c.path[b], rotations)
  BY <1>2
<1>9. j \in DOMAIN joints /\ m \in Nat /\ n \in Nat /\ n # 0
  BY <1>1
<1>10. n = least
  <2>1. least \in Nat /\ At(P, j, least) = 0 /\ \A k \in 0 .. least - 1 : At(P, j, k) # 0
    BY <1>1, <1>7 DEF Rises, P
  <2> HIDE DEF j
  <2> QED
    BY <1>1, <1>8, <2>1, RisesOnce DEF P
<1>11. CASE b = Hips
  <2>1. At(P, j, m) = 0
    BY <1>8, <1>11, OnlyHipsAreFirst DEF P, joints
  <2>2. m = n
    <3> SUFFICES ASSUME m # n PROVE FALSE
      OBVIOUS
    <3>1. m \in 0 .. n - 1
      BY <1>8, <1>9
    <3> QED
      BY <1>1, <1>8, <2>1, <3>1 DEF Rises, P
  <2>3. turns[b] = Composed(RigPath(j), rotations)
    BY <1>4, <1>8, <2>2
  <2>4. Composed(HumanJointPath(b, c.present), turns) = turns[b]
    BY <1>3, <1>11, HipsStandAlone, ComposedOne
  <2> QED
    BY <1>7, <2>3, <2>4
<1>12. CASE b # Hips
  <2> DEFINE a == NearestPresentAncestor(b, c.present)
             over == At(P, j, m)
             lower == HumanJointPath(a, c.present)
             path == HumanJointPath(b, c.present)
  <2>1. over # 0 /\ over \in Carried(c)
    <3>1. over # 0
      BY <1>8, <1>12, OnlyHipsAreFirst DEF P, joints
    <3> QED
      BY <1>8, <3>1 DEF Meets, P
  <2>2. /\ a \in c.present /\ path = Append(lower, b)
    BY <1>12, BonesHangUnderBones
  <2>3. /\ IsSequence(lower) /\ Len(lower) \in Nat /\ DOMAIN lower = 1 .. Len(lower)
        /\ Range(lower) \subseteq c.present
        /\ b \in Range(path)
    BY <1>1, <2>2, PathIsPresent
  <2> HIDE DEF a, lower, path
  <2>4. Then(path, lower, <<b>>) /\ Range(lower) \subseteq Range(path)
    BY <2>2, <2>3, LongerPath
  <2>5. \A x \in Range(path) \ {Hips} :
          LET above == c.joints[Head(c.path[x])].parent
          IN  above # 0 => c.boneOf[above] = NearestPresentAncestor(x, c.present)
    BY <1>7 DEF Aligned, path
  <2>6. c.joints[Head(c.path[b])].parent = over
    <3> DEFINE up == m - 1
               D == Descent(joints, j, m)
    <3>1. up \in Nat /\ up + 1 = m /\ up \in 0 .. n - 1
      BY <1>1, <1>8, <1>9
    <3>2. D[1] = At(P, j, up) /\ Len(D) = m
      <4>1. 1 \in 1 .. m
        BY <1>9, <3>1
      <4> QED
        BY <1>9, <4>1, DescentIsAsLong DEF P
    <3>3. Head(D) = At(P, j, up)
      <4>1. Head(D) = D[1]
        OBVIOUS
      <4> QED
        BY <3>2, <4>1
    <3> HIDE DEF D, up, j
    <3>4. At(P, j, up) \in DOMAIN joints
      BY <1>8, <3>1 DEF Rises, P
    <3>5. At(P, j, up + 1) = Up(P, At(P, j, up))
      BY <3>1, AtSteps
    <3>6. At(P, j, up + 1) = joints[At(P, j, up)].parent
      BY <3>4, <3>5 DEF Up, P, Parents
    <3> QED
      BY <1>1, <1>8, <3>1, <3>3, <3>6 DEF D
  <2>7. c.jointOf[a] = over
    <3>1. c.boneOf[over] = a
      BY <1>12, <2>1, <2>3, <2>5, <2>6 DEF a
    <3> QED
      BY <1>1, <2>1, <3>1
  <2>8. Aligned(c, a)
    BY <2>4, <2>5 DEF Aligned, lower
  <2>9. PICK h \in 1 .. N : /\ Rises(joints, c.jointOf[a], h)
                            /\ RigPath(c.jointOf[a]) = Descent(joints, c.jointOf[a], h)
                            /\ Turns(Descent(joints, c.jointOf[a], h), rotations)
    BY <1>2, <2>2
  <2>10. n = h + m /\ Then(RigPath(j), RigPath(c.jointOf[a]), c.path[b])
    <3>1. RigPath(j) = Descent(joints, j, n) /\ RigPath(c.jointOf[a]) = Descent(joints, over, h)
          /\ c.path[b] = Descent(joints, j, m) /\ Rises(joints, over, h)
      BY <1>8, <2>7, <2>9
    <3> HIDE DEF j
    <3>2. over = At(Parents(joints), j, m)
      BY DEF P
    <3> HIDE DEF over
    <3>3. n = h + m
      BY <1>1, <1>8, <1>9, <2>1, <3>1, <3>2, RisesOn
    <3>4. Then(Descent(joints, j, n), Descent(joints, over, h), Descent(joints, j, m))
      BY <1>1, <1>8, <1>9, <2>1, <3>1, <3>2, DescentGoesOn
    <3> QED
      BY <3>1, <3>3, <3>4
  <2>11. Keeps(a)
    <3>1. h \in Nat /\ h < n
      BY <1>1, <1>8, <2>10
    <3>2. h \notin Lost
      <4>1. ~(least <= h)
        BY <1>9, <1>10, <3>1
      <4> HIDE DEF Lost
      <4> QED
        BY <1>6, <4>1
    <3> QED
      BY <2>2, <2>8, <2>9, <3>1, <3>2
  <2>12. Composed(RigPath(j), rotations)
           = Times(Composed(RigPath(c.jointOf[a]), rotations), Composed(c.path[b], rotations))
    <3>1. Turns(RigPath(c.jointOf[a]), rotations) /\ Turns(c.path[b], rotations)
      BY <1>8, <2>9
    <3> HIDE DEF j
    <3> QED
      BY <2>10, <3>1, ComposedThen
  <2>13. Composed(path, turns) = Times(Composed(lower, turns), turns[b])
    <3>1. Turns(lower, turns)
      <4>1. \A i \in 1 .. Len(lower) : lower[i] \in c.present
        BY <2>3 DEF Range
      <4> QED
        BY <1>3, <2>3, <4>1 DEF Turns
    <3> DEFINE one == <<b>>
    <3>2. Len(one) = 1 /\ one[1] = b
      OBVIOUS
    <3> HIDE DEF one
    <3>3. Turns(one, turns)
      BY <1>3, <3>2 DEF Turns
    <3>4. Composed(one, turns) = turns[b]
      BY <1>3, <3>2, ComposedOne
    <3>5. Then(path, lower, one)
      BY <2>4 DEF one
    <3> QED
      BY <3>1, <3>3, <3>4, <3>5, ComposedThen
  <2>14. Composed(lower, turns) = Composed(RigPath(c.jointOf[a]), rotations)
    BY <2>11 DEF lower
  <2>15. Keeps(b)
    BY <1>4, <2>12, <2>13, <2>14 DEF path
  <2> QED
    BY <1>7, <2>15
<1> QED
  BY <1>11, <1>12

-----------------------------------------------------------------------------
(* The T-pose's orientations.                                              *)

TPoseStep(c, world, j) ==
  IF DropsRoot(c, j) \/ ~Aimed(c, j) THEN Inherited(c, world, j)
  ELSE AimedFrom(c, Inherited(c, world, j), j)

LEMMA TPoseStepLooksUp ==
  ASSUME NEW c, NEW f, NEW g, NEW j, j # 1 => f[c.joints[j].parent] = g[c.joints[j].parent]
  PROVE  TPoseStep(c, f, j) = TPoseStep(c, g, j)
<1>1. Inherited(c, f, j) = Inherited(c, g, j)
  BY DEF Inherited
<1> QED
  BY <1>1 DEF TPoseStep

LEMMA ParentsComeFirst ==
  ASSUME NEW joints, IsRig(joints), NEW j \in DOMAIN joints
  PROVE  /\ j \in 1 .. Len(joints) /\ Len(joints) \in Nat
         /\ j = 1 => joints[j].parent = 0
         /\ j # 1 => joints[j].parent \in 1 .. j - 1
<1>1. j \in 1 .. Len(joints) /\ Len(joints) \in Nat
  BY DEF IsRig
<1>2. joints[1].parent = 0 /\ JointIsValid(joints, j)
  BY DEF IsRig, SkeletonIsValid
<1>3. j > 1 => joints[j].parent \in 1 .. j - 1
  BY <1>2 DEF JointIsValid
<1> QED
  BY <1>1, <1>2, <1>3

LEMMA TPoseWorldIs ==
  ASSUME NEW c, IsRig(c.joints), NEW j \in DOMAIN c.joints
  PROVE  TPoseWorld(c)[j] = TPoseStep(c, TPoseWorld(c), j)
<1> DEFINE N == Len(c.joints)
           IsUpTo(f, n) == f = [i \in 1 .. n |-> TPoseStep(c, f, i)]
           Stuck == {n \in 0 .. N : ~ \E f : IsUpTo(f, n)}
<1>1. N \in Nat /\ DOMAIN c.joints = 1 .. N
      /\ \A i \in 1 .. N : i # 1 => c.joints[i].parent \in 1 .. i - 1
  BY ParentsComeFirst DEF IsRig
<1>2. Stuck = {}
  <2> SUFFICES ASSUME Stuck # {} PROVE FALSE
    OBVIOUS
  <2>1. PICK n \in Stuck : \A k \in Stuck : n <= k
    <3>1. Stuck \subseteq Nat
      OBVIOUS
    <3> HIDE DEF Stuck
    <3> QED
      BY <3>1, SmallestIndex
  <2>2. n # 0
    <3> SUFFICES ASSUME n = 0 PROVE FALSE
      OBVIOUS
    <3> DEFINE none == [i \in 1 .. 0 |-> Identity]
    <3>1. \A i \in 1 .. 0 : FALSE
      OBVIOUS
    <3>2. none = [i \in 1 .. 0 |-> TPoseStep(c, none, i)]
      BY <3>1
    <3> QED
      BY <2>1, <3>2
  <2>3. n \in 1 .. N
    BY <1>1, <2>1, <2>2
  <2>4. PICK f : IsUpTo(f, n - 1)
    <3>1. n - 1 \in 0 .. N /\ ~(n <= n - 1)
      BY <1>1, <2>3
    <3>2. n - 1 \notin Stuck
      BY <2>1, <3>1
    <3> HIDE DEF IsUpTo
    <3> QED
      BY <3>1, <3>2
  <2> DEFINE g == [i \in 1 .. n |-> IF i < n THEN f[i] ELSE TPoseStep(c, f, n)]
  <2>5. ASSUME NEW i \in 1 .. n PROVE g[i] = TPoseStep(c, g, i)
    <3>1. i # 1 => g[c.joints[i].parent] = f[c.joints[i].parent]
      <4>1. i # 1 => c.joints[i].parent \in 1 .. n /\ c.joints[i].parent < n
        BY <1>1, <2>3
      <4> QED
        BY <4>1
    <3>2. g[i] = IF i < n THEN f[i] ELSE TPoseStep(c, f, n)
      OBVIOUS
    <3> HIDE DEF g
    <3>3. TPoseStep(c, g, i) = TPoseStep(c, f, i)
      BY <3>1, TPoseStepLooksUp
    <3>4. CASE i = n
      <4>1. ~(n < n)
        BY <2>3
      <4> QED
        BY <3>2, <3>3, <3>4, <4>1
    <3>5. CASE i # n
      <4>1. i < n /\ i \in 1 .. n - 1
        BY <2>3, <3>5
      <4>2. f[i] = TPoseStep(c, f, i)
        BY <2>4, <4>1
      <4> QED
        BY <3>2, <3>3, <4>1, <4>2
    <3> QED
      BY <3>4, <3>5
  <2>6. g = [i \in 1 .. n |-> g[i]]
    OBVIOUS
  <2> HIDE DEF g
  <2>7. IsUpTo(g, n)
    BY <2>5, <2>6
  <2> HIDE DEF IsUpTo
  <2> QED
    BY <2>1, <2>7
<1>3. \E f : IsUpTo(f, N)
  <2>1. N \in 0 .. N
    BY <1>1
  <2> HIDE DEF IsUpTo
  <2> QED
    BY <1>2, <2>1
<1>4. TPoseWorld(c) = CHOOSE f : f = [i \in DOMAIN c.joints |-> TPoseStep(c, f, i)]
  BY Zenon DEF TPoseWorld, TPoseStep
<1> DEFINE world == TPoseWorld(c)
<1>5. IsUpTo(world, N)
  <2>1. world = CHOOSE f : IsUpTo(f, N)
    BY <1>1, <1>4
  <2> HIDE DEF IsUpTo, world
  <2> QED
    BY <1>3, <2>1
<1> HIDE DEF world
<1>6. world[j] = TPoseStep(c, world, j)
  BY <1>1, <1>5
<1> QED
  BY <1>6 DEF world

(* The turns a word makes towards the T-pose are of the first n joints.    *)
AimsUpTo(w, n) == \A letter \in Range(w) : letter.of[1] = "aim" => letter.of[2] \in 1 .. n

LEMMA SourceRotationIsAWord ==
  ASSUME NEW c, NEW j, NEW frame, NEW n
  PROVE  IsWord(SourceRotationAt(c, j, frame)) /\ AimsUpTo(SourceRotationAt(c, j, frame), n)
<1>1. IsWord(Identity) /\ AimsUpTo(Identity, n)
  BY IdentityIsAWord DEF AimsUpTo
<1>2. IsWord(Turn("frame", j, frame)) /\ AimsUpTo(Turn("frame", j, frame), n)
  <2> DEFINE w == Turn("frame", j, frame)
  <2>1. IsWord(w) /\ \A letter \in Range(w) : letter.of = <<"frame", j, frame>>
    BY TurnIsAWord
  <2> HIDE DEF w
  <2>2. <<"frame", j, frame>>[1] # "aim"
    OBVIOUS
  <2>3. \A letter \in Range(w) : letter.of[1] # "aim"
    BY <2>1, <2>2
  <2> QED
    BY <2>1, <2>3 DEF AimsUpTo, w
<1> QED
  BY <1>1, <1>2 DEF SourceRotationAt

(* A joint that is aimed ends turned onto its direction: nothing before it *)
(* cancels that turn.                                                      *)
LEMMA AimedFromIs ==
  ASSUME NEW c, NEW j \in Nat \ {0}, NEW w, IsWord(w), AimsUpTo(w, j - 1)
  PROVE  /\ IsWord(AimedFrom(c, w, j)) /\ AimsUpTo(AimedFrom(c, w, j), j)
         /\ Head(AimedFrom(c, w, j)) = Head(Turn("aim", j, 0))
<1> DEFINE frame == SourceRotationAt(c, j, 1)
           v == IF c.animation.frameCount > 0 THEN Times(w, frame) ELSE w
           aim == Turn("aim", j, 0)
           x == Times(aim, v)
<1>1. AimedFrom(c, w, j) = x
  BY DEF AimedFrom
<1>2. IsWord(v) /\ AimsUpTo(v, j - 1)
  <2>1. IsWord(frame) /\ AimsUpTo(frame, j - 1)
    BY SourceRotationIsAWord
  <2> HIDE DEF frame
  <2>2. IsWord(Times(w, frame)) /\ Range(Times(w, frame)) \subseteq Range(w) \cup Range(frame)
    BY <2>1, TimesIsAWord
  <2>3. AimsUpTo(Times(w, frame), j - 1)
    BY <2>1, <2>2 DEF AimsUpTo
  <2> QED
    BY <2>2, <2>3
<1> HIDE DEF v
<1>3. IsWord(aim) /\ \A letter \in Range(aim) : letter.of = <<"aim", j, 0>>
  BY TurnIsAWord
<1>4. Len(aim) = 1 /\ aim[1] \in Range(aim) /\ Head(aim) = aim[1]
  <2>1. aim = <<aim[1]>>
    BY DEF Turn
  <2> HIDE DEF aim
  <2>2. Len(aim) = 1 /\ 1 \in DOMAIN aim /\ Head(aim) = aim[1]
    BY <2>1
  <2> QED
    BY <2>2 DEF Range
<1>5. aim[1].of = <<"aim", j, 0>>
  BY <1>3, <1>4
<1> HIDE DEF aim
<1>6. IsWord(x) /\ Range(x) \subseteq Range(aim) \cup Range(v)
  BY <1>2, <1>3, TimesIsAWord
<1>7. AimsUpTo(x, j)
  <2> SUFFICES ASSUME NEW letter \in Range(x), letter.of[1] = "aim"
               PROVE  letter.of[2] \in 1 .. j
    BY DEF AimsUpTo
  <2>1. CASE letter \in Range(aim)
    <3>1. letter.of = <<"aim", j, 0>>
      BY <1>3, <2>1
    <3>2. letter.of[2] = j
      BY <3>1
    <3> QED
      BY <3>2
  <2>2. CASE letter \in Range(v)
    <3>1. letter.of[2] \in 1 .. j - 1
      BY <1>2, <2>2 DEF AimsUpTo
    <3> QED
      BY <3>1
  <2> QED
    BY <1>6, <2>1, <2>2
<1>8. PICK k \in Nat : Cancels(aim, v, k) /\ JoinsAt(x, aim, v, k)
  BY <1>2, <1>3, TimesIs
<1>9. k = 0
  <2> SUFFICES ASSUME k # 0 PROVE FALSE
    OBVIOUS
  <2>1. k = 1 /\ 1 <= Len(v)
    BY <1>4, <1>8 DEF Cancels
  <2>2. aim[1] = Undone(v[1])
    <3>1. \A i \in 1 .. 1 : aim[Len(aim) + 1 - i] = Undone(v[i])
      BY <1>8, <2>1 DEF Cancels
    <3>2. aim[1 + 1 - 1] = Undone(v[1])
      BY <1>4, <3>1
    <3> QED
      BY <3>2
  <2>3. v[1] \in Range(v) /\ IsLetter(v[1])
    <3>1. Len(v) \in Nat /\ DOMAIN v = 1 .. Len(v)
      BY <1>2, WordIs
    <3>2. 1 \in DOMAIN v
      BY <2>1, <3>1
    <3> QED
      BY <1>2, <3>2 DEF Range, IsWord, IsLetter
  <2>4. Undone(v[1]).of = v[1].of
    <3>1. v[1] = Undone(Undone(v[1]))
      BY <2>3 DEF IsLetter
    <3> QED
      BY <2>2, <1>5, <3>1 DEF Undone
  <2>5. v[1].of = <<"aim", j, 0>>
    BY <1>5, <2>2, <2>4
  <2>6. v[1].of[1] = "aim" /\ v[1].of[2] = j
    BY <2>5
  <2>7. j \in 1 .. j - 1
    BY <1>2, <2>3, <2>6 DEF AimsUpTo
  <2> QED
    BY <2>7
<1>10. Head(x) = Head(aim)
  <2>1. Len(v) \in Nat
    BY <1>2, WordIs
  <2>2. /\ Len(x) = (Len(aim) - 0) + (Len(v) - 0)
        /\ \A i \in 1 .. Len(x) : x[i] = IF i <= Len(aim) - 0 THEN aim[i]
                                         ELSE v[(i - (Len(aim) - 0)) + 0]
    BY <1>8, <1>9 DEF JoinsAt
  <2> HIDE DEF x
  <2>3. 1 \in 1 .. Len(x) /\ 1 <= Len(aim) - 0
    BY <1>4, <2>1, <2>2
  <2>4. x[1] = aim[1]
    BY <2>2, <2>3
  <2>5. Head(x) = x[1]
    OBVIOUS
  <2> QED
    BY <1>4, <2>4, <2>5
<1> QED
  BY <1>1, <1>6, <1>7, <1>10 DEF aim

LEMMA InheritedIsAWord ==
  ASSUME NEW c, NEW world, NEW j \in Nat \ {0}, NEW above, above = c.joints[j].parent,
         j # 1 => above \in 1 .. j - 1 /\ IsWord(world[above]) /\ AimsUpTo(world[above], above)
  PROVE  IsWord(Inherited(c, world, j)) /\ AimsUpTo(Inherited(c, world, j), j - 1)
<1>1. CASE j = 1
  <2>1. Inherited(c, world, j) = Identity
    BY <1>1 DEF Inherited
  <2> QED
    BY <2>1, IdentityIsAWord DEF AimsUpTo
<1>2. CASE j # 1
  <2> DEFINE w == world[above]
  <2>1. Inherited(c, world, j) = w /\ IsWord(w) /\ AimsUpTo(w, above)
    BY <1>2 DEF Inherited
  <2>2. \A i \in 1 .. above : i \in 1 .. j - 1
    BY <1>2
  <2> HIDE DEF w
  <2> QED
    BY <2>1, <2>2 DEF AimsUpTo
<1> QED
  BY <1>1, <1>2

LEMMA TPoseWorldIsWords ==
  ASSUME NEW c, IsRig(c.joints), NEW j \in DOMAIN c.joints
  PROVE  LET world == TPoseWorld(c)
         IN  /\ IsWord(world[j]) /\ AimsUpTo(world[j], j)
             /\ IsWord(Inherited(c, world, j)) /\ AimsUpTo(Inherited(c, world, j), j - 1)
<1> DEFINE N == Len(c.joints)
           world == TPoseWorld(c)
           Holds(i) == IsWord(world[i]) /\ AimsUpTo(world[i], i)
           Wrong == {i \in 1 .. N : ~Holds(i)}
<1>1. /\ N \in Nat /\ DOMAIN c.joints = 1 .. N
      /\ \A i \in 1 .. N : i # 1 => c.joints[i].parent \in 1 .. i - 1
  BY ParentsComeFirst DEF IsRig
<1>2. \A i \in 1 .. N : world[i] = TPoseStep(c, world, i)
  BY <1>1, TPoseWorldIs
<1> HIDE DEF world, N
<1>3. ASSUME NEW i \in 1 .. N, i # 1 => Holds(c.joints[i].parent)
      PROVE  IsWord(Inherited(c, world, i)) /\ AimsUpTo(Inherited(c, world, i), i - 1)
  <2>1. i \in Nat \ {0} /\ (i # 1 => c.joints[i].parent \in 1 .. i - 1)
    BY <1>1
  <2> QED
    BY <1>3, <2>1, InheritedIsAWord
<1>4. Wrong = {}
  <2> SUFFICES ASSUME Wrong # {} PROVE FALSE
    OBVIOUS
  <2>1. PICK i \in Wrong : \A k \in Wrong : i <= k
    <3>1. Wrong \subseteq Nat
      OBVIOUS
    <3> HIDE DEF Wrong
    <3> QED
      BY <3>1, SmallestIndex
  <2>2. i \in 1 .. N /\ i \in Nat \ {0}
    BY <2>1
  <2>3. i # 1 => Holds(c.joints[i].parent)
    <3> SUFFICES ASSUME i # 1 PROVE Holds(c.joints[i].parent)
      OBVIOUS
    <3> DEFINE above == c.joints[i].parent
    <3>1. above \in 1 .. N /\ ~(i <= above)
      BY <1>1, <2>2
    <3> HIDE DEF above
    <3>2. above \notin Wrong
      BY <2>1, <3>1
    <3>3. Holds(above)
      BY <3>1, <3>2
    <3> QED
      BY <3>3 DEF above
  <2> DEFINE w == Inherited(c, world, i)
  <2>4. IsWord(w) /\ AimsUpTo(w, i - 1)
    BY <1>3, <2>2, <2>3
  <2>5. world[i] = w \/ world[i] = AimedFrom(c, w, i)
    BY <1>2, <2>2 DEF TPoseStep
  <2> HIDE DEF w
  <2>6. AimsUpTo(w, i)
    <3>1. \A k \in 1 .. i - 1 : k \in 1 .. i
      BY <2>2
    <3> QED
      BY <2>4, <3>1 DEF AimsUpTo
  <2>7. Holds(i)
    BY <2>2, <2>4, <2>5, <2>6, AimedFromIs
  <2> QED
    BY <2>1, <2>7
<1>5. j \in 1 .. N /\ j # 1 => c.joints[j].parent \in 1 .. N
  BY <1>1
<1>6. \A i \in 1 .. N : Holds(i)
  BY <1>4
<1>7. j \in 1 .. N /\ (j # 1 => Holds(c.joints[j].parent))
  BY <1>1, <1>5, <1>6
<1>8. IsWord(Inherited(c, world, j)) /\ AimsUpTo(Inherited(c, world, j), j - 1)
  BY <1>3, <1>7
<1> QED
  BY <1>6, <1>7, <1>8 DEF world

LEMMA RestRotationIsAWord ==
  ASSUME NEW c, IsRig(c.joints), NEW j \in DOMAIN c.joints,
         c.profile.restPose \in RestPoseSources
  PROVE  IsWord(RestRotation(c, j))
<1> DEFINE world == TPoseWorld(c)
           inherited == Inherited(c, world, j)
<1>1. IsWord(Identity) /\ IsWord(Turn("rest", j, 0)) /\ IsWord(SourceRotationAt(c, j, 1))
  BY IdentityIsAWord, TurnIsAWord, SourceRotationIsAWord
<1>2. IsWord(world[j]) /\ IsWord(inherited)
  BY TPoseWorldIsWords
<1>3. IsWord(Times(Inverted(inherited), world[j]))
  <2> HIDE DEF world, inherited
  <2>1. IsWord(Inverted(inherited))
    BY <1>2, InvertedUndoes
  <2> QED
    BY <1>2, <2>1, TimesIsAWord
<1>4. CASE DropsRoot(c, j)
  BY <1>1, <1>4 DEF RestRotation
<1>5. CASE ~DropsRoot(c, j) /\ c.profile.restPose = "stated-rest-rotations"
  BY <1>1, <1>5 DEF RestRotation
<1>6. CASE ~DropsRoot(c, j) /\ c.profile.restPose = "t-pose"
  BY <1>3, <1>6 DEF RestRotation
<1>7. CASE ~DropsRoot(c, j) /\ c.profile.restPose = "first-frame"
  BY <1>1, <1>7 DEF RestRotation
<1>8. CASE ~DropsRoot(c, j) /\ c.profile.restPose = "rest-offsets"
  BY <1>1, <1>8 DEF RestRotation
<1> QED
  BY <1>4, <1>5, <1>6, <1>7, <1>8 DEF RestPoseSources

(* What the rest turns a joint by takes it from where it is carried to     *)
(* where the T-pose has it.                                                *)
LEMMA RestTurnsToTPose ==
  ASSUME NEW c, IsRig(c.joints), NEW j \in DOMAIN c.joints, c.profile.restPose = "t-pose"
  PROVE  Times(Inherited(c, TPoseWorld(c), j), RestRotation(c, j)) = TPoseWorld(c)[j]
<1> DEFINE world == TPoseWorld(c)
           w == Inherited(c, world, j)
           v == world[j]
<1>1. IsWord(w) /\ IsWord(v)
  BY TPoseWorldIsWords
<1>2. world[j] = TPoseStep(c, world, j)
  BY TPoseWorldIs
<1>3. CASE DropsRoot(c, j)
  <2>1. w = Identity /\ RestRotation(c, j) = Identity
    BY <1>3 DEF DropsRoot, Inherited, RestRotation
  <2>2. v = w
    BY <1>2, <1>3 DEF TPoseStep
  <2> QED
    BY <2>1, <2>2, IdentityIsAWord, JoinedToIdentity
<1>4. CASE ~DropsRoot(c, j)
  <2>1. RestRotation(c, j) = Times(Inverted(w), v)
    BY <1>4 DEF RestRotation
  <2> HIDE DEF w, v
  <2>2. IsWord(Inverted(w)) /\ Times(w, Inverted(w)) = Identity
    BY <1>1, InvertedUndoes
  <2>3. Times(w, Times(Inverted(w), v)) = Times(Times(w, Inverted(w)), v)
    BY <1>1, <2>2, TimesAssociates
  <2>4. Times(w, Times(Inverted(w), v)) = v
    BY <1>1, <2>2, <2>3, JoinedToIdentity
  <2> QED
    BY <2>1, <2>4 DEF w, v
<1> QED
  BY <1>3, <1>4

LEMMA TPoseComposes ==
  ASSUME NEW c, c.joints = imported.joints, IsRig(c.joints), NEW j \in DOMAIN c.joints,
         c.profile.restPose = "t-pose"
  PROVE  Composed(RigPath(j), [i \in DOMAIN c.joints |-> RestRotation(c, i)]) = TPoseWorld(c)[j]
<1> DEFINE joints == c.joints
           P == Parents(joints)
           world == TPoseWorld(c)
           rotations == [i \in DOMAIN joints |-> RestRotation(c, i)]
<1>1. PICK n \in 1 .. Len(joints) : Rises(joints, j, n) /\ RigPath(j) = Descent(joints, j, n)
  BY RigPathIs
<1> DEFINE D == Descent(joints, j, n)
<1>2. n \in Nat /\ n # 0
  BY DEF IsRig
<1>3. Len(D) = n /\ \A k \in 1 .. n : D[k] = At(P, j, n - k)
  BY <1>2, DescentIsAsLong
<1>4. \A i \in DOMAIN joints : IsWord(rotations[i])
  BY RestRotationIsAWord DEF RestPoseSources
<1>5. Turns(D, rotations)
  <2> HIDE DEF rotations
  <2> QED
    BY <1>1, <1>2, <1>4, DescentTurns
<1>6. PICK f : TurnsBy(f, D, rotations)
  BY <1>5, ComposedIs
<1>7. \A i \in DOMAIN joints : Times(Inherited(c, world, i), rotations[i]) = world[i]
  BY RestTurnsToTPose
<1> HIDE DEF D, rotations, world
<1>8. /\ f[0] = Identity
      /\ \A k \in Nat : k + 1 <= n => f[k + 1] = Times(f[k], rotations[D[k + 1]])
      /\ f[n] = Composed(D, rotations)
  BY <1>3, <1>6 DEF TurnsBy
<1>9. /\ At(P, j, n) = 0
      /\ \A k \in 0 .. n - 1 : At(P, j, k) \in DOMAIN joints
      /\ \A k \in Nat : At(P, j, k + 1) = Up(P, At(P, j, k))
  BY <1>1, AtSteps DEF Rises
<1> HIDE DEF P
(* Each joint on the way down hangs under the one before it.               *)
<1>10. ASSUME NEW k \in 1 .. n
       PROVE  /\ D[k] \in DOMAIN joints
              /\ D[k] = 1 <=> k = 1
              /\ k # 1 => joints[D[k]].parent = D[k - 1]
  <2> DEFINE h == n - k
  <2>1. h \in 0 .. n - 1 /\ h \in Nat /\ (k = 1 => h + 1 = n) /\ (k # 1 => h + 1 \in 0 .. n - 1)
        /\ (k # 1 => k - 1 \in 1 .. n /\ n - (k - 1) = h + 1)
    BY <1>2
  <2>2. D[k] = At(P, j, h)
    BY <1>3
  <2>3. k # 1 => D[k - 1] = At(P, j, h + 1)
    BY <1>3, <2>1
  <2> HIDE DEF h
  <2>4. D[k] \in DOMAIN joints
    BY <1>9, <2>1, <2>2
  <2>5. At(P, j, h + 1) = joints[D[k]].parent
    BY <1>9, <2>1, <2>2, <2>4 DEF Up, P, Parents
  <2>6. /\ D[k] = 1 => joints[D[k]].parent = 0
        /\ D[k] # 1 => joints[D[k]].parent \in 1 .. D[k] - 1
        /\ 0 \notin DOMAIN joints /\ 0 \notin 1 .. D[k] - 1
    <3> DEFINE i == D[k]
    <3>1. i \in DOMAIN joints
      BY <2>4
    <3> HIDE DEF i
    <3>2. i \in 1 .. Len(joints) /\ Len(joints) \in Nat
          /\ (i = 1 => joints[i].parent = 0) /\ (i # 1 => joints[i].parent \in 1 .. i - 1)
      BY <3>1, ParentsComeFirst
    <3>3. 0 \notin DOMAIN joints /\ 0 \notin 1 .. i - 1
      BY <3>2 DEF IsRig
    <3> QED
      BY <3>2, <3>3 DEF i
  <2>7. CASE k = 1
    <3>1. joints[D[k]].parent = 0
      BY <1>9, <2>1, <2>5, <2>7
    <3> QED
      BY <2>4, <2>6, <2>7, <3>1
  <2>8. CASE k # 1
    <3>1. joints[D[k]].parent \in DOMAIN joints
      BY <1>9, <2>1, <2>5, <2>8
    <3> QED
      BY <2>3, <2>4, <2>5, <2>6, <2>8, <3>1
  <2> QED
    BY <2>7, <2>8
<1>11. \A k \in 1 .. n : f[k] = world[D[k]]
  <2> DEFINE Apart == {k \in 1 .. n : f[k] # world[D[k]]}
  <2> SUFFICES ASSUME Apart # {} PROVE FALSE
    OBVIOUS
  <2>1. PICK k \in Apart : \A i \in Apart : k <= i
    <3>1. Apart \subseteq Nat
      OBVIOUS
    <3> HIDE DEF Apart
    <3> QED
      BY <3>1, SmallestIndex
  <2>2. k \in 1 .. n
    BY <2>1
  <2>3. PICK h \in Nat : k = h + 1
    <3>1. k - 1 \in Nat /\ k = (k - 1) + 1
      BY <2>2
    <3> QED
      BY <3>1
  <2>4. f[h] = Inherited(c, world, D[k])
    <3>1. CASE k = 1
      <4>1. D[k] = 1 /\ h = 0
        BY <1>10, <2>2, <2>3, <3>1
      <4> QED
        BY <1>8, <4>1 DEF Inherited
    <3>2. CASE k # 1
      <4>1. h \in 1 .. n /\ ~(k <= h) /\ k - 1 = h
        BY <1>2, <2>2, <2>3, <3>2
      <4>2. f[h] = world[D[h]]
        BY <2>1, <4>1
      <4>3. D[k] # 1 /\ joints[D[k]].parent = D[h]
        BY <1>10, <2>2, <3>2, <4>1
      <4> QED
        BY <4>2, <4>3 DEF Inherited
    <3> QED
      BY <3>1, <3>2
  <2>5. f[k] = Times(f[h], rotations[D[k]])
    BY <1>8, <2>2, <2>3
  <2>6. f[k] = world[D[k]]
    BY <1>7, <1>10, <2>2, <2>4, <2>5
  <2> QED
    BY <2>1, <2>6
<1>12. D[n] = j
  <2>1. n \in 1 .. n /\ n - n = 0
    BY <1>2
  <2>2. At(P, j, 0) = j
    BY AtSteps
  <2> QED
    BY <1>3, <2>1, <2>2
<1>13. n \in 1 .. n
  BY <1>2
<1> QED
  BY <1>1, <1>8, <1>11, <1>12, <1>13 DEF D, rotations, world

-----------------------------------------------------------------------------
(* What every conversion keeps.                                            *)

LEMMA ConvertedStands ==
  ASSUME ConvertInv, IsConverted
  PROVE  /\ CrossingStands(imported.joints, Work) /\ Work.profile = profile
         /\ Work.joints = imported.joints
         /\ profile.restPose \in RestPoseSources
         /\ conversion.rest = RestPose(Work)
         /\ conversion.samples = [frame \in 1 .. imported.animation.frameCount |-> PoseAt(Work, frame)]
         /\ conversion.report = Report(Work) /\ Work.animation = imported.animation
<1> DEFINE joints == imported.joints
           animation == imported.animation
           match == MatchSourceProfile(profile, joints)
           c == Crossing(match, joints, animation, profile)
<1>1. /\ IsSource(imported)
      /\ ConversionRefusal(joints, animation, profile) = None
      /\ conversion = Converted(joints, animation, profile)
  BY DEF ConvertInv, ConversionStands, IsConverted
<1>2. Len(joints) \in Nat /\ DOMAIN joints = 1 .. Len(joints)
  BY <1>1, ImportsAssumption DEF IsSource
<1>3. /\ conversion.match = match /\ conversion.rest = RestPose(c)
      /\ conversion.report = Report(c)
      /\ conversion.samples = [frame \in 1 .. animation.frameCount |-> PoseAt(c, frame)]
  BY <1>1 DEF Converted
<1>4. Work = c
  BY <1>3 DEF Work
<1>5. c.profile = profile /\ c.joints = joints /\ c.animation = animation
  BY DEF Crossing
<1>6. CrossingStands(joints, c)
  BY <1>1, <1>2, WorkStands
<1>7. profile.restPose \in RestPoseSources
  <2>1. ProfileIsValid(profile)
    BY <1>1, NothingRefused
  <2> QED
    BY <2>1 DEF ProfileIsValid, StatesItsPolicies
<1> HIDE DEF c
<1> QED
  BY <1>3, <1>4, <1>5, <1>6, <1>7

LEMMA RestTurnsBones ==
  ASSUME ConvertInv, IsConverted
  PROVE  LET rotations == [j \in DOMAIN Work.joints |-> RestRotation(Work, j)]
         IN  /\ \A bone \in Work.present :
                  conversion.rest.localRotations[bone] = Composed(Work.path[bone], rotations)
             /\ \A j \in DOMAIN imported.joints : IsWord(rotations[j])
<1> DEFINE c == Work
           rotations == [j \in DOMAIN c.joints |-> RestRotation(c, j)]
           turns == [b \in c.present |-> Composed(c.path[b], rotations)]
<1>1. /\ CrossingStands(imported.joints, c) /\ c.profile = profile /\ c.joints = imported.joints
      /\ profile.restPose \in RestPoseSources /\ conversion.rest = RestPose(c)
  BY ConvertedStands
<1> HIDE DEF c
<1>2. conversion.rest.localRotations = turns
  BY <1>1 DEF RestPose
<1>3. \A j \in DOMAIN imported.joints : IsWord(rotations[j])
  BY <1>1, RestRotationIsAWord DEF CrossingStands
<1>4. \A bone \in c.present : turns[bone] = Composed(c.path[bone], rotations)
  OBVIOUS
<1> HIDE DEF turns
<1> QED
  BY <1>2, <1>3, <1>4 DEF c

LEMMA FramesTurnBones ==
  ASSUME ConvertInv, IsConverted, NEW f \in DOMAIN conversion.samples
  PROVE  /\ \A bone \in Work.present :
              conversion.samples[f].localRotations[bone] = Composed(Work.path[bone], RotationsAt(Work, f))
         /\ \A j \in DOMAIN imported.joints : IsWord(RotationsAt(Work, f)[j])
<1> DEFINE c == Work
           rotations == RotationsAt(c, f)
           turns == [b \in c.present |-> Composed(c.path[b], rotations)]
<1>1. c.joints = imported.joints /\ conversion.samples[f] = PoseAt(c, f)
  BY ConvertedStands
<1> HIDE DEF c
<1>2. conversion.samples[f].localRotations = turns
  BY <1>1 DEF PoseAt, RotationsAt
<1>3. \A j \in DOMAIN imported.joints : IsWord(rotations[j])
  <2>1. \A j \in DOMAIN imported.joints : IsWord(Identity) /\ IsWord(SourceRotationAt(c, j, f))
    BY IdentityIsAWord, SourceRotationIsAWord
  <2> QED
    BY <1>1, <2>1 DEF RotationsAt
<1>4. \A bone \in c.present : turns[bone] = Composed(c.path[bone], rotations)
  OBVIOUS
<1> HIDE DEF turns
<1> QED
  BY <1>2, <1>3, <1>4 DEF c

LEMMA RestKeepsOrientation ==
  ASSUME ConvertInv, IsConverted, NEW bone \in Work.present, Aligned(Work, bone)
  PROVE  BodyOrientation(conversion.rest.localRotations, bone)
           = RigOrientation(Work.jointOf[bone], [j \in DOMAIN Work.joints |-> RestRotation(Work, j)])
<1> DEFINE c == Work
           rotations == [j \in DOMAIN c.joints |-> RestRotation(c, j)]
           turns == [b \in c.present |-> Composed(c.path[b], rotations)]
<1>1. /\ CrossingStands(imported.joints, c) /\ c.profile = profile /\ c.joints = imported.joints
      /\ profile.restPose \in RestPoseSources
      /\ conversion.rest = RestPose(c) /\ bone \in c.present /\ Aligned(c, bone)
  BY ConvertedStands
<1> HIDE DEF c
<1>2. conversion.rest.localRotations = turns
  BY <1>1 DEF RestPose
<1>3. \A j \in DOMAIN imported.joints : IsWord(rotations[j])
  BY <1>1, RestRotationIsAWord DEF CrossingStands
<1>4. Composed(HumanJointPath(bone, c.present), turns) = Composed(RigPath(c.jointOf[bone]), rotations)
  <2> HIDE DEF rotations
  <2> QED
    BY <1>1, <1>3, OrientationComposes
<1>5. DOMAIN turns = c.present
  OBVIOUS
<1> HIDE DEF turns
<1> QED
  BY <1>2, <1>4, <1>5 DEF BodyOrientation, RigOrientation, c

(* In the rest and in every frame a bone turns its joint on from the       *)
(* nearest bound joint above it, for every rig the match lets through; and *)
(* where the rig hangs the bones of its lineage as the humanoid does, it   *)
(* is turned, composed down the humanoid, as its joint is in the rig.  So  *)
(* it is whatever the rig, the profile and the clip are, and however many  *)
(* unmapped joints lie between (CanonicalConversion.cpp:138, 822).         *)
THEOREM OrientationIsKeptDownTheChain == Spec => []OrientationIsKept
<1>1. ConvertInv => OrientationIsKept
  <2> SUFFICES ASSUME ConvertInv, IsConverted, NEW bone \in Work.present
               PROVE  /\ KeepsItsChain(Work, bone)
                      /\ Aligned(Work, bone) => KeepsOrientation(Work, bone)
    BY DEF OrientationIsKept
  <2>1. CrossingStands(imported.joints, Work)
    BY ConvertedStands
  <2>2. KeepsItsChain(Work, bone)
    <3>1. ASSUME NEW f \in DOMAIN conversion.samples
          PROVE  TurnsOnFrom(Work, JointAbove(Work, bone), bone,
                             conversion.samples[f].localRotations, RotationsAt(Work, f))
      <4> DEFINE rotations == RotationsAt(Work, f)
      <4>1. /\ conversion.samples[f].localRotations[bone] = Composed(Work.path[bone], rotations)
            /\ \A j \in DOMAIN imported.joints : IsWord(rotations[j])
        BY FramesTurnBones
      <4> HIDE DEF rotations
      <4> QED
        BY <2>1, <4>1, BoneTurnsOn DEF TurnsOnFrom, RigOrientation, rotations
    <3>2. TurnsOnFrom(Work, JointAbove(Work, bone), bone, conversion.rest.localRotations,
                      [j \in DOMAIN Work.joints |-> RestRotation(Work, j)])
      <4> DEFINE rotations == [j \in DOMAIN Work.joints |-> RestRotation(Work, j)]
      <4>1. /\ conversion.rest.localRotations[bone] = Composed(Work.path[bone], rotations)
            /\ \A j \in DOMAIN imported.joints : IsWord(rotations[j])
        BY RestTurnsBones
      <4> HIDE DEF rotations
      <4> QED
        BY <2>1, <4>1, BoneTurnsOn DEF TurnsOnFrom, RigOrientation, rotations
    <3> QED
      BY <3>1, <3>2 DEF KeepsItsChain
  <2>3. ASSUME Aligned(Work, bone) PROVE KeepsOrientation(Work, bone)
    <3>1. ASSUME NEW f \in DOMAIN conversion.samples
          PROVE  BodyOrientation(conversion.samples[f].localRotations, bone)
                   = RigOrientation(Work.jointOf[bone], RotationsAt(Work, f))
      <4> DEFINE c == Work
                 rotations == RotationsAt(c, f)
                 turns == [b \in c.present |-> Composed(c.path[b], rotations)]
      <4>1. /\ CrossingStands(imported.joints, c) /\ c.joints = imported.joints
            /\ conversion.samples[f] = PoseAt(c, f) /\ bone \in c.present /\ Aligned(c, bone)
        BY <2>3, ConvertedStands
      <4> HIDE DEF c
      <4>2. conversion.samples[f].localRotations = turns
        BY <4>1 DEF PoseAt, RotationsAt
      <4>3. \A j \in DOMAIN imported.joints : IsWord(rotations[j])
        <5>1. \A j \in DOMAIN imported.joints :
                IsWord(Identity) /\ IsWord(SourceRotationAt(c, j, f))
          BY IdentityIsAWord, SourceRotationIsAWord
        <5> QED
          BY <4>1, <5>1 DEF RotationsAt
      <4> HIDE DEF rotations
      <4>4. Composed(HumanJointPath(bone, c.present), turns) = Composed(RigPath(c.jointOf[bone]), rotations)
        BY <4>1, <4>3, OrientationComposes
      <4>5. DOMAIN turns = c.present
        OBVIOUS
      <4> HIDE DEF turns
      <4> QED
        BY <4>2, <4>4, <4>5 DEF BodyOrientation, RigOrientation, c, rotations
    <3>2. BodyOrientation(conversion.rest.localRotations, bone)
            = RigOrientation(Work.jointOf[bone], [j \in DOMAIN Work.joints |-> RestRotation(Work, j)])
      BY <2>3, RestKeepsOrientation
    <3> QED
      BY <3>1, <3>2 DEF KeepsOrientation
  <2> QED
    BY <2>2, <2>3
<1> QED
  BY <1>1, ConvertAlways, PTL

(* Each aimed bone of a T-pose rest, composed down the humanoid, ends      *)
(* turned onto its direction, also below a root whose rotation is dropped, *)
(* whatever the rig and the profile are (CanonicalConversion.cpp:575).     *)
THEOREM RestReachesTheTPose == Spec => []TPoseIsReached
<1>1. ConvertInv => TPoseIsReached
  <2> SUFFICES ASSUME ConvertInv, IsConverted, profile.restPose = "t-pose",
                      NEW bone \in Work.present, Aligned(Work, bone),
                      Aimed(Work, Work.jointOf[bone]), ~DropsRoot(Work, Work.jointOf[bone])
               PROVE  Head(BodyOrientation(conversion.rest.localRotations, bone))
                        = Head(Turn("aim", Work.jointOf[bone], 0))
    BY DEF TPoseIsReached, ReachesTPose
  <2> DEFINE c == Work
             j == c.jointOf[bone]
             world == TPoseWorld(c)
             inherited == Inherited(c, world, j)
  <2>1. /\ CrossingStands(imported.joints, c) /\ c.profile = profile /\ c.joints = imported.joints
        /\ Aimed(c, j) /\ ~DropsRoot(c, j) /\ bone \in c.present
    BY ConvertedStands
  <2>2. BodyOrientation(conversion.rest.localRotations, bone)
          = Composed(RigPath(j), [i \in DOMAIN c.joints |-> RestRotation(c, i)])
    BY RestKeepsOrientation DEF RigOrientation
  <2> HIDE DEF c
  <2>3. IsRig(c.joints) /\ j \in DOMAIN c.joints
    BY <2>1 DEF CrossingStands
  <2> HIDE DEF j
  <2>4. Composed(RigPath(j), [i \in DOMAIN c.joints |-> RestRotation(c, i)]) = world[j]
    BY <2>1, <2>3, TPoseComposes
  <2>5. world[j] = AimedFrom(c, inherited, j)
    BY <2>1, <2>3, TPoseWorldIs DEF TPoseStep
  <2>6. IsWord(inherited) /\ AimsUpTo(inherited, j - 1)
    BY <2>3, TPoseWorldIsWords
  <2>7. j \in Nat \ {0}
    BY <2>3 DEF IsRig
  <2> HIDE DEF inherited, world
  <2>8. Head(AimedFrom(c, inherited, j)) = Head(Turn("aim", j, 0))
    BY <2>6, <2>7, AimedFromIs
  <2> QED
    BY <2>2, <2>4, <2>5, <2>8 DEF j, c
<1> QED
  BY <1>1, ConvertAlways, PTL

(* The root path goes through joints of the rig.                           *)
LEMMA RootPathIsInTheRig ==
  ASSUME NEW joints, NEW c, CrossingStands(joints, c), NEW i \in DOMAIN RootPath(c)
  PROVE  RootPath(c)[i] \in DOMAIN joints
<1>1. /\ RootPath(c) = PathFromNearestBoundAncestor(joints, c.jointOf[Hips], Carried(c))
      /\ c.jointOf[Hips] \in DOMAIN joints /\ IsRig(joints)
  BY DEF CrossingStands, RootPath
<1> QED
  BY <1>1, PathIsInTheRig

(* A joint on the root path is seen in the position, by its own sample.    *)
LEMMA CarriedIsPlaced ==
  ASSUME NEW c, NEW f, NEW j, HasTranslation(c, j), CarriesTranslation(c, j), j \in DOMAIN c.joints
  PROVE  \E i \in DOMAIN PoseAt(c, f).worldPosition :
           c.animation.tracks[j].translations[f] \in Range(PoseAt(c, f).worldPosition[i].by)
<1> DEFINE rotations == [k \in DOMAIN c.joints |->
                           IF DropsRoot(c, k) THEN Identity ELSE SourceRotationAt(c, k, f)]
           offsets == [k \in DOMAIN c.joints |-> LocalTranslation(c, k, f, TRUE)]
           position == Placed(RootPath(c), rotations, offsets)
<1>1. PICK i \in DOMAIN RootPath(c) : RootPath(c)[i] = j
  BY DEF CarriesTranslation, Range
<1>2. PoseAt(c, f).worldPosition = position
  BY DEF PoseAt, CarriesTranslation
<1>3. DOMAIN position = DOMAIN RootPath(c) /\ position[i].by = offsets[j]
  BY <1>1 DEF Placed
<1>4. offsets[j] = LocalTranslation(c, j, f, TRUE)
  OBVIOUS
<1> HIDE DEF position, offsets, rotations
<1>5. c.animation.tracks[j].translations[f] \in Range(LocalTranslation(c, j, f, TRUE))
  BY DEF LocalTranslation, Range
<1> QED
  BY <1>1, <1>2, <1>3, <1>4, <1>5

(* What the position holds is stated by a joint that carries it.           *)
LEMMA PlacedIsCarried ==
  ASSUME NEW joints, NEW c, CrossingStands(joints, c), NEW f, NEW j \in DOMAIN joints, IsItsOwn(c, j, f),
         NEW i \in DOMAIN PoseAt(c, f).worldPosition,
         c.animation.tracks[j].translations[f] \in Range(PoseAt(c, f).worldPosition[i].by)
  PROVE  CarriesTranslation(c, j)
<1> DEFINE rotations == [k \in DOMAIN c.joints |->
                           IF DropsRoot(c, k) THEN Identity ELSE SourceRotationAt(c, k, f)]
           offsets == [k \in DOMAIN c.joints |-> LocalTranslation(c, k, f, TRUE)]
           position == Placed(RootPath(c), rotations, offsets)
           above == RootPath(c)[i]
<1>1. PoseAt(c, f).worldPosition = IF /\ c.profile.rootTranslation # "none"
                                      /\ \E k \in Range(RootPath(c)) : HasTranslation(c, k)
                                   THEN position ELSE << >>
  BY DEF PoseAt
<1>2. DOMAIN << >> = {}
  OBVIOUS
<1>3. c.profile.rootTranslation # "none" /\ PoseAt(c, f).worldPosition = position
  <2> HIDE DEF position
  <2> QED
    BY <1>1, <1>2
<1>4. DOMAIN position = DOMAIN RootPath(c)
  BY DEF Placed
<1>5. i \in DOMAIN RootPath(c)
  BY <1>3, <1>4
<1>6. position[i].by = offsets[above]
  BY <1>5 DEF Placed
<1>7. c.joints = joints /\ above \in DOMAIN joints
  BY <1>5, RootPathIsInTheRig DEF CrossingStands
<1>8. offsets[above] = LocalTranslation(c, above, f, TRUE)
  BY <1>7
<1>9. c.animation.tracks[j].translations[f] \in Range(LocalTranslation(c, above, f, TRUE))
  BY <1>3, <1>6, <1>8
<1> HIDE DEF position, offsets, rotations, above
<1> DEFINE rest == c.joints[above].restTranslation
           moved == c.animation.tracks[above].translations[f]
<1>10. \/ LocalTranslation(c, above, f, TRUE) = <<rest>>
       \/ /\ HasTranslation(c, above)
          /\ LocalTranslation(c, above, f, TRUE) \in {<<rest, moved>>, <<moved>>}
  BY DEF LocalTranslation
<1>11. Range(<<rest>>) = {rest} /\ Range(<<moved>>) = {moved} /\ Range(<<rest, moved>>) = {rest, moved}
  <2> HIDE DEF rest, moved
  <2>1. \A a : <<a>>[1] = a /\ DOMAIN <<a>> = {1}
    OBVIOUS
  <2>2. \A a, b : <<a, b>>[1] = a /\ <<a, b>>[2] = b /\ DOMAIN <<a, b>> = {1, 2}
    OBVIOUS
  <2>3. \A a : Range(<<a>>) = {a}
    BY <2>1 DEF Range
  <2>4. \A a, b : Range(<<a, b>>) = {a, b}
    BY <2>2 DEF Range
  <2> QED
    BY <2>3, <2>4
<1>12. \/ c.animation.tracks[j].translations[f] = rest
       \/ HasTranslation(c, above) /\ c.animation.tracks[j].translations[f] = moved
  <2> HIDE DEF rest, moved
  <2>1. CASE LocalTranslation(c, above, f, TRUE) = <<rest>>
    BY <1>9, <1>11, <2>1
  <2>2. CASE HasTranslation(c, above) /\ LocalTranslation(c, above, f, TRUE) = <<rest, moved>>
    BY <1>9, <1>11, <2>2
  <2>3. CASE HasTranslation(c, above) /\ LocalTranslation(c, above, f, TRUE) = <<moved>>
    <3>1. Range(LocalTranslation(c, above, f, TRUE)) = {moved}
      BY <1>11, <2>3, Zenon
    <3>2. c.animation.tracks[j].translations[f] \in {moved}
      BY <1>9, <3>1, Zenon
    <3> QED
      BY <2>3, <3>2, Zenon
  <2>4. \/ LocalTranslation(c, above, f, TRUE) = <<rest>>
        \/ HasTranslation(c, above) /\ LocalTranslation(c, above, f, TRUE) = <<rest, moved>>
        \/ HasTranslation(c, above) /\ LocalTranslation(c, above, f, TRUE) = <<moved>>
    BY <1>10
  <2> QED
    BY <2>1, <2>2, <2>3, <2>4
<1>13. above = j
  BY <1>7, <1>12 DEF IsItsOwn
<1> QED
  BY <1>3, <1>5, <1>13 DEF CarriesTranslation, Range, above

(* Every translation that a source states is in every frame's position or  *)
(* in one list of the report, and if it is no other joint's, not in both,  *)
(* whatever the rig, the profile and the clip are                          *)
(* (CanonicalConversion.cpp:692).                                          *)
THEOREM NoTranslationIsLost == Spec => []EveryTranslationIsCarriedOrReported
<1>1. ConvertInv => EveryTranslationIsCarriedOrReported
  <2> DEFINE carried(j, f) ==
               \E i \in DOMAIN conversion.samples[f].worldPosition :
                 imported.animation.tracks[j].translations[f]
                   \in Range(conversion.samples[f].worldPosition[i].by)
             reported(j) == {list \in {"restated", "dropped"} : j \in conversion.report[list]}
  <2> SUFFICES ASSUME ConvertInv, IsConverted, NEW j \in DOMAIN imported.joints, HasTranslation(Work, j)
               PROVE  /\ Cardinality(reported(j)) <= 1
                      /\ reported(j) = {} => \A f \in DOMAIN conversion.samples : carried(j, f)
                      /\ \A f \in DOMAIN conversion.samples :
                           carried(j, f) /\ IsItsOwn(Work, j, f) => reported(j) = {}
    BY DEF EveryTranslationIsCarriedOrReported
  <2>1. /\ CrossingStands(imported.joints, Work) /\ Work.joints = imported.joints
        /\ conversion.samples = [f \in 1 .. imported.animation.frameCount |-> PoseAt(Work, f)]
        /\ conversion.report = Report(Work) /\ Work.animation = imported.animation
    BY ConvertedStands
  <2>2. reported(j) = IF CarriesTranslation(Work, j) THEN {}
                      ELSE IF RestatesTheRest(Work, j) THEN {"restated"} ELSE {"dropped"}
    BY <2>1 DEF Report
  <2>3. Cardinality({}) = 0 /\ Cardinality({"restated"}) = 1 /\ Cardinality({"dropped"}) = 1
    BY FS_EmptySet, FS_Singleton
  <2>4. \A f \in DOMAIN conversion.samples : conversion.samples[f] = PoseAt(Work, f)
    BY <2>1
  <2>5. ASSUME reported(j) = {}, NEW f \in DOMAIN conversion.samples PROVE carried(j, f)
    <3>1. CarriesTranslation(Work, j)
      BY <2>2, <2>5
    <3> QED
      BY <2>1, <2>4, <3>1, CarriedIsPlaced
  <2>6. ASSUME NEW f \in DOMAIN conversion.samples, carried(j, f), IsItsOwn(Work, j, f)
        PROVE  reported(j) = {}
    <3>1. CarriesTranslation(Work, j)
      BY <2>1, <2>4, <2>6, PlacedIsCarried
    <3> QED
      BY <2>2, <3>1
  <2>7. Cardinality(reported(j)) <= 1
    <3> HIDE DEF reported
    <3> QED
      BY <2>2, <2>3
  <2> QED
    BY <2>5, <2>6, <2>7
<1> QED
  BY <1>1, ConvertAlways, PTL

-----------------------------------------------------------------------------
(* Ways up that end.                                                       *)

(* Up from a place a walk goes through n known places and leaves them.     *)
ClimbsOut(parents, from, n) ==
  /\ n \in Nat /\ At(parents, from, n) \notin DOMAIN parents
  /\ \A k \in 0 .. n - 1 : At(parents, from, k) \in DOMAIN parents

LEMMA ClimbIs ==
  ASSUME NEW parents, NEW from, NEW n, ClimbsOut(parents, from, n), NEW count \in Nat, n <= count
  PROVE  /\ IsSequence(Climb(parents, from, count)) /\ Len(Climb(parents, from, count)) = n
         /\ DOMAIN Climb(parents, from, count) = 1 .. n
         /\ \A k \in 1 .. n : Climb(parents, from, count)[k] = At(parents, from, k - 1)
<1> DEFINE up == Walk(parents, from, count)
           left == {k \in 0 .. count : up[k] \notin DOMAIN parents}
           length == IF left = {} THEN count ELSE Min(left)
           C == Climb(parents, from, count)
<1>1. C = [k \in 1 .. length |-> up[k - 1]]
  BY Zenon DEF Climb
<1>2. \A k \in 0 .. count : up[k] = At(parents, from, k)
  BY WalkAsFar
<1>3. n \in Nat /\ n \in 0 .. count
  BY DEF ClimbsOut
<1> HIDE DEF up, C
<1>4. n \in left /\ left \subseteq Nat
  BY <1>2, <1>3 DEF ClimbsOut
<1>5. \A k \in left : ~(k < n)
  <2> SUFFICES ASSUME NEW k \in left, k < n PROVE FALSE
    OBVIOUS
  <2>1. k \in 0 .. n - 1
    BY <1>3, <1>4
  <2> QED
    BY <1>2, <2>1 DEF ClimbsOut
<1>6. Min(left) \in left /\ \A k \in left : Min(left) <= k
  <2> HIDE DEF left
  <2> QED
    BY <1>4, MinProperties
<1>7. Min(left) = n
  <2>1. Min(left) \in Nat /\ Min(left) <= n /\ ~(Min(left) < n)
    <3> HIDE DEF left
    <3> QED
      BY <1>4, <1>5, <1>6
  <2> QED
    BY <1>3, <2>1
<1>8. length = n
  BY <1>4, <1>7
<1> HIDE DEF length
<1>9. C = [k \in 1 .. n |-> C[k]] /\ \A k \in 1 .. n : C[k] = up[k - 1]
  BY <1>1, <1>8
<1>10. IsSequence(C) /\ Len(C) = n /\ DOMAIN C = 1 .. n
  BY <1>3, <1>9, ListIsASequence
<1>11. \A k \in 1 .. n : k - 1 \in 0 .. count
  BY <1>3
<1> QED
  BY <1>2, <1>9, <1>10, <1>11 DEF C

LEMMA ClimbsOutOnce ==
  ASSUME NEW parents, NEW from, NEW n, NEW m, ClimbsOut(parents, from, n), ClimbsOut(parents, from, m)
  PROVE  n = m
<1>1. n \in Nat /\ m \in Nat
  BY DEF ClimbsOut
<1>2. ~(n < m)
  <2> SUFFICES ASSUME n < m PROVE FALSE
    OBVIOUS
  <2>1. n \in 0 .. m - 1
    BY <1>1
  <2> QED
    BY <2>1 DEF ClimbsOut
<1>3. ~(m < n)
  <2> SUFFICES ASSUME m < n PROVE FALSE
    OBVIOUS
  <2>1. m \in 0 .. n - 1
    BY <1>1
  <2> QED
    BY <2>1 DEF ClimbsOut
<1> QED
  BY <1>1, <1>2, <1>3

LEMMA ClimbsOn ==
  ASSUME NEW parents, NEW from, NEW n, ClimbsOut(parents, from, n), NEW m \in 0 .. n
  PROVE  ClimbsOut(parents, At(parents, from, m), n - m)
<1>1. n \in Nat /\ m \in Nat /\ n - m \in Nat /\ m + (n - m) = n
  BY DEF ClimbsOut
<1>2. At(parents, At(parents, from, m), n - m) = At(parents, from, n)
  <2> DEFINE rest == n - m
  <2>1. rest \in Nat /\ m + rest = n
    BY <1>1
  <2> HIDE DEF rest
  <2>2. At(parents, At(parents, from, m), rest) = At(parents, from, m + rest)
    BY <1>1, <2>1, AtGoesOn
  <2> QED
    BY <2>1, <2>2 DEF rest
<1>3. ASSUME NEW k \in 0 .. (n - m) - 1
      PROVE  At(parents, At(parents, from, m), k) \in DOMAIN parents
  <2>1. k \in Nat /\ m + k \in 0 .. n - 1
    BY <1>1
  <2>2. At(parents, At(parents, from, m), k) = At(parents, from, m + k)
    BY <1>1, <2>1, AtGoesOn
  <2> QED
    BY <2>1, <2>2 DEF ClimbsOut
<1> QED
  BY <1>1, <1>2, <1>3 DEF ClimbsOut

(* One step up.                                                            *)
LEMMA ClimbsUp ==
  ASSUME NEW parents, NEW from \in DOMAIN parents, NEW n, ClimbsOut(parents, from, n)
  PROVE  /\ n \in Nat \ {0} /\ ClimbsOut(parents, parents[from], n - 1)
         /\ \A k \in Nat : At(parents, parents[from], k) = At(parents, from, k + 1)
<1>1. At(parents, from, 0) = from /\ At(parents, from, 0 + 1) = Up(parents, At(parents, from, 0))
  BY AtSteps
<1>2. At(parents, from, 1) = parents[from]
  BY <1>1 DEF Up
<1>3. n \in Nat /\ n # 0
  BY <1>1 DEF ClimbsOut
<1>4. 1 \in 0 .. n
  BY <1>3
<1>5. ClimbsOut(parents, At(parents, from, 1), n - 1)
  BY <1>4, ClimbsOn
<1>6. \A k \in Nat : At(parents, At(parents, from, 1), k) = At(parents, from, 1 + k)
  BY AtGoesOn
<1>7. \A k \in Nat : 1 + k = k + 1
  OBVIOUS
<1> QED
  BY <1>2, <1>3, <1>5, <1>6, <1>7

(* No place comes twice on such a way.                                     *)
LEMMA OnceOnTheWay ==
  ASSUME NEW parents, NEW from, NEW n, ClimbsOut(parents, from, n), NEW a \in 0 .. n, NEW b \in 0 .. n,
         At(parents, from, a) = At(parents, from, b)
  PROVE  a = b
<1>1. ClimbsOut(parents, At(parents, from, a), n - a) /\ ClimbsOut(parents, At(parents, from, b), n - b)
  BY ClimbsOn
<1>2. n - a = n - b
  BY <1>1, ClimbsOutOnce
<1> QED
  BY <1>2 DEF ClimbsOut

(* What holds of a place as soon as it holds of the place above it holds   *)
(* all the way.                                                            *)
LEMMA FromTheTop ==
  ASSUME NEW parents, NEW from, NEW n, ClimbsOut(parents, from, n), NEW S,
         \A k \in 0 .. n - 1 : (k + 1 \in 0 .. n - 1 => At(parents, from, k + 1) \in S)
                                 => At(parents, from, k) \in S
  PROVE  \A k \in 0 .. n - 1 : At(parents, from, k) \in S
<1> DEFINE on(k) == At(parents, from, k)
           Missing == {h \in 0 .. n - 1 : on((n - 1) - h) \notin S}
<1>1. n \in Nat
  BY DEF ClimbsOut
<1>2. \A k \in 0 .. n - 1 : (k + 1 \in 0 .. n - 1 => on(k + 1) \in S) => on(k) \in S
  OBVIOUS
<1> HIDE DEF on
<1>3. Missing = {}
  <2> SUFFICES ASSUME Missing # {} PROVE FALSE
    OBVIOUS
  <2>1. PICK h \in Missing : \A i \in Missing : h <= i
    <3>1. Missing \subseteq Nat
      OBVIOUS
    <3> HIDE DEF Missing
    <3> QED
      BY <3>1, SmallestIndex
  <2> DEFINE k == (n - 1) - h
  <2>2. h \in 0 .. n - 1 /\ k \in 0 .. n - 1 /\ on(k) \notin S
    BY <1>1, <2>1
  <2>3. ASSUME k + 1 \in 0 .. n - 1 PROVE on(k + 1) \in S
    <3>1. h - 1 \in 0 .. n - 1 /\ (n - 1) - (h - 1) = k + 1 /\ ~(h <= h - 1)
      BY <1>1, <2>2, <2>3
    <3>2. h - 1 \notin Missing
      <4> HIDE DEF Missing
      <4> QED
        BY <2>1, <3>1
    <3>3. on((n - 1) - (h - 1)) \in S
      BY <3>1, <3>2
    <3> QED
      BY <3>1, <3>3
  <2> HIDE DEF k
  <2> QED
    BY <1>2, <2>2, <2>3
<1> SUFFICES ASSUME NEW k \in 0 .. n - 1 PROVE on(k) \in S
  BY DEF on
<1>4. (n - 1) - k \in 0 .. n - 1 /\ (n - 1) - ((n - 1) - k) = k
  BY <1>1
<1> QED
  BY <1>3, <1>4

-----------------------------------------------------------------------------
(* Rotations composed down such a way.                                     *)

Total(parents, from, count, rotations) == Composed(Reverse(Climb(parents, from, count)), rotations)

LEMMA TotalSteps ==
  ASSUME NEW parents, NEW from, NEW n, ClimbsOut(parents, from, n), NEW count \in Nat, n <= count,
         NEW rotations, \A x \in DOMAIN parents : IsWord(rotations[x])
  PROVE  /\ IsWord(Total(parents, from, count, rotations))
         /\ from \notin DOMAIN parents => Total(parents, from, count, rotations) = Identity
         /\ from \in DOMAIN parents =>
              Total(parents, from, count, rotations)
                = Times(Total(parents, parents[from], count, rotations), rotations[from])
<1>1. ASSUME NEW x, NEW m, ClimbsOut(parents, x, m), m <= count
      PROVE  /\ m \in Nat /\ Len(Reverse(Climb(parents, x, count))) = m
             /\ \A i \in 1 .. m : Reverse(Climb(parents, x, count))[i] = At(parents, x, m - i)
             /\ Turns(Reverse(Climb(parents, x, count)), rotations)
  <2> DEFINE C == Climb(parents, x, count)
             R == Reverse(C)
  <2>1. m \in Nat /\ Len(C) = m /\ \A k \in 1 .. m : C[k] = At(parents, x, k - 1)
    BY <1>1, ClimbIs DEF ClimbsOut
  <2> HIDE DEF C
  <2>2. R = [i \in 1 .. m |-> C[(m - i) + 1]]
    BY <2>1 DEF Reverse
  <2> HIDE DEF R
  <2>3. R = [i \in 1 .. m |-> R[i]] /\ \A i \in 1 .. m : R[i] = C[(m - i) + 1]
    BY <2>2
  <2>4. Len(R) = m
    BY <2>1, <2>3, ListIsASequence
  <2>5. \A i \in 1 .. m : (m - i) + 1 \in 1 .. m /\ ((m - i) + 1) - 1 = m - i /\ m - i \in 0 .. m - 1
    BY <2>1
  <2>6. \A i \in 1 .. m : R[i] = At(parents, x, m - i)
    BY <2>1, <2>3, <2>5
  <2>7. \A i \in 1 .. m : IsWord(rotations[R[i]])
    BY <1>1, <2>5, <2>6 DEF ClimbsOut
  <2> QED
    BY <2>1, <2>4, <2>6, <2>7 DEF R, C, Turns
<1> DEFINE path == Reverse(Climb(parents, from, count))
<1>2. /\ n \in Nat /\ Len(path) = n
      /\ \A i \in 1 .. n : path[i] = At(parents, from, n - i)
      /\ Turns(path, rotations)
  BY <1>1
<1>3. Total(parents, from, count, rotations) = Composed(path, rotations)
  BY DEF Total
<1> HIDE DEF path
<1>4. IsWord(Composed(path, rotations))
  BY <1>2, ComposedIsAWord
<1>5. ASSUME from \notin DOMAIN parents PROVE Composed(path, rotations) = Identity
  <2>1. At(parents, from, 0) = from
    BY AtSteps
  <2>2. n = 0
    <3> SUFFICES ASSUME n # 0 PROVE FALSE
      OBVIOUS
    <3>1. 0 \in 0 .. n - 1
      BY <1>2
    <3> QED
      BY <1>5, <2>1, <3>1 DEF ClimbsOut
  <2>3. PICK f : TurnsBy(f, path, rotations)
    BY <1>2, ComposedIs
  <2> QED
    BY <1>2, <2>2, <2>3 DEF TurnsBy
<1>6. ASSUME from \in DOMAIN parents
      PROVE  Composed(path, rotations)
               = Times(Total(parents, parents[from], count, rotations), rotations[from])
  <2> DEFINE upper == Reverse(Climb(parents, parents[from], count))
             last == <<from>>
  <2>1. /\ n \in Nat \ {0} /\ ClimbsOut(parents, parents[from], n - 1) /\ n - 1 <= count
        /\ \A k \in Nat : At(parents, parents[from], k) = At(parents, from, k + 1)
    BY <1>6, <1>2, ClimbsUp
  <2>2. /\ Len(upper) = n - 1 /\ Turns(upper, rotations)
        /\ \A i \in 1 .. n - 1 : upper[i] = At(parents, parents[from], (n - 1) - i)
    BY <1>1, <2>1
  <2>3. Len(last) = 1 /\ last[1] = from
    OBVIOUS
  <2>4. Total(parents, parents[from], count, rotations) = Composed(upper, rotations)
    BY DEF Total
  <2> HIDE DEF upper, last
  <2>5. \A i \in 1 .. n - 1 : i \in 1 .. n /\ (n - 1) - i \in Nat /\ ((n - 1) - i) + 1 = n - i
    BY <2>1
  <2>6. \A i \in 1 .. n - 1 : path[i] = upper[i]
    BY <1>2, <2>1, <2>2, <2>5
  <2>7. path[(n - 1) + 1] = from
    <3>1. (n - 1) + 1 = n /\ n \in 1 .. n /\ n - n = 0
      BY <2>1
    <3> QED
      BY <1>2, <3>1, AtSteps
  <2>8. Then(path, upper, last)
    <3>1. \A i \in 1 .. 1 : path[(n - 1) + i] = last[i]
      BY <2>3, <2>7
    <3>2. n = (n - 1) + 1
      BY <2>1
    <3> QED
      BY <1>2, <2>2, <2>3, <2>6, <3>1, <3>2 DEF Then
  <2>9. Turns(last, rotations)
    BY <1>6, <2>3 DEF Turns
  <2>10. Composed(last, rotations) = rotations[from]
    BY <1>6, <2>3, ComposedOne
  <2> QED
    BY <2>2, <2>4, <2>8, <2>9, <2>10, ComposedThen
<1> QED
  BY <1>3, <1>4, <1>5, <1>6

-----------------------------------------------------------------------------
(* Rotations that are undone.                                              *)

LEMMA InvertedUndoesBefore ==
  ASSUME NEW w, IsWord(w)
  PROVE  Times(Inverted(w), w) = Identity
<1> DEFINE v == Inverted(w)
           u == Inverted(v)
<1>1. IsWord(v) /\ Times(w, v) = Identity
  BY InvertedUndoes
<1> HIDE DEF v
<1>2. IsWord(u) /\ Times(v, u) = Identity
  BY <1>1, InvertedUndoes
<1> HIDE DEF u
<1>3. IsWord(Times(v, w))
  BY <1>1, TimesIsAWord
<1>4. Times(v, w) = Times(Times(v, w), Times(v, u))
  BY <1>2, <1>3, JoinedToIdentity
<1>5. Times(Times(v, w), Times(v, u)) = Times(Times(Times(v, w), v), u)
  BY <1>1, <1>2, <1>3, TimesAssociates
<1>6. Times(Times(v, w), v) = Times(v, Times(w, v))
  BY <1>1, TimesAssociates
<1>7. Times(Times(v, w), v) = v
  BY <1>1, <1>6, JoinedToIdentity
<1> QED
  BY <1>2, <1>4, <1>5, <1>7 DEF v

LEMMA UndoneAfter ==
  ASSUME NEW a, IsWord(a), NEW b, IsWord(b)
  PROVE  /\ Times(Times(a, b), Inverted(b)) = a
         /\ Times(Inverted(a), Times(a, b)) = b
<1>1. /\ IsWord(Inverted(a)) /\ IsWord(Inverted(b))
      /\ Times(b, Inverted(b)) = Identity /\ Times(Inverted(a), a) = Identity
  BY InvertedUndoes, InvertedUndoesBefore
<1>2. Times(Times(a, b), Inverted(b)) = Times(a, Times(b, Inverted(b)))
  BY <1>1, TimesAssociates
<1>3. Times(Inverted(a), Times(a, b)) = Times(Times(Inverted(a), a), b)
  BY <1>1, TimesAssociates
<1> QED
  BY <1>1, <1>2, <1>3, JoinedToIdentity

LEMMA InvertedProduct ==
  ASSUME NEW a, IsWord(a), NEW b, IsWord(b)
  PROVE  Inverted(Times(a, b)) = Times(Inverted(b), Inverted(a))
<1> DEFINE x == Times(a, b)
           i == Inverted(a)
           j == Inverted(b)
           y == Times(j, i)
<1>1. IsWord(i) /\ IsWord(j) /\ Times(a, i) = Identity
  BY InvertedUndoes
<1>2. Times(x, j) = a
  BY UndoneAfter
<1>3. IsWord(x)
  BY TimesIsAWord
<1> HIDE DEF x, i, j
<1>4. IsWord(y) /\ Times(x, y) = Identity
  BY <1>1, <1>2, <1>3, TimesIsAWord, TimesAssociates
<1> HIDE DEF y
<1>5. Times(Inverted(x), Times(x, y)) = y
  BY <1>3, <1>4, UndoneAfter
<1>6. Inverted(x) = y
  BY <1>3, <1>4, <1>5, InvertedUndoes, JoinedToIdentity
<1> QED
  BY <1>6 DEF x, y, i, j

(* What a rotation f turns beyond a rest s, seen through s's parent, whose *)
(* rest comes to S.                                                        *)
Beyond(S, f, s) == Times(Times(Times(S, f), Inverted(s)), Inverted(S))

LEMMA BeyondIsAWord ==
  ASSUME NEW S, IsWord(S), NEW f, IsWord(f), NEW s, IsWord(s)
  PROVE  IsWord(Beyond(S, f, s)) /\ (f = s => Beyond(S, f, s) = Identity)
<1>1. IsWord(Inverted(s)) /\ IsWord(Inverted(S)) /\ IsWord(Times(S, f)) /\ Times(S, Inverted(S)) = Identity
  BY InvertedUndoes, TimesIsAWord
<1>2. IsWord(Times(Times(S, f), Inverted(s)))
  BY <1>1, TimesIsAWord
<1>3. IsWord(Beyond(S, f, s))
  BY <1>1, <1>2, TimesIsAWord DEF Beyond
<1>4. ASSUME f = s PROVE Beyond(S, f, s) = Identity
  <2>1. Times(Times(S, s), Inverted(s)) = S
    BY UndoneAfter
  <2> QED
    BY <1>1, <1>4, <2>1 DEF Beyond
<1> QED
  BY <1>3, <1>4

(* The source: what a bone has turned from its rest is what its parent has,*)
(* and what the bone's own rotation turns beyond its own rest.             *)
LEMMA SourceTurnsOn ==
  ASSUME NEW T, IsWord(T), NEW S, IsWord(S), NEW f, IsWord(f), NEW s, IsWord(s)
  PROVE  Times(Times(T, f), Inverted(Times(S, s))) = Times(Times(T, Inverted(S)), Beyond(S, f, s))
<1> DEFINE i == Inverted(S)
           j == Inverted(s)
           g == Times(Times(f, j), i)
<1>1. IsWord(i) /\ IsWord(j)
  BY InvertedUndoes
<1>2. Inverted(Times(S, s)) = Times(j, i)
  BY InvertedProduct
<1>3. Times(Times(S, f), j) = Times(S, Times(f, j))
  BY <1>1, TimesAssociates
<1>4. IsWord(Times(f, j))
  BY <1>1, TimesIsAWord
<1>5. Beyond(S, f, s) = Times(Times(S, Times(f, j)), i)
  BY <1>3 DEF Beyond
<1> HIDE DEF i, j
<1>6. Beyond(S, f, s) = Times(S, g) /\ IsWord(g)
  BY <1>1, <1>4, <1>5, TimesAssociates, TimesIsAWord
<1>7. Times(Times(T, f), Times(j, i)) = Times(T, g)
  <2>1. Times(Times(T, f), Times(j, i)) = Times(T, Times(f, Times(j, i)))
    BY <1>1, TimesIsAWord, TimesAssociates
  <2>2. Times(f, Times(j, i)) = g
    BY <1>1, TimesAssociates
  <2> QED
    BY <2>1, <2>2
<1> HIDE DEF g
<1>8. IsWord(Times(S, g))
  BY <1>6, TimesIsAWord
<1>9. Times(Times(T, i), Times(S, g)) = Times(T, Times(i, Times(S, g)))
  BY <1>1, <1>8, TimesAssociates
<1>10. Times(i, Times(S, g)) = g
  BY <1>6, UndoneAfter DEF i
<1> QED
  BY <1>2, <1>6, <1>7, <1>9, <1>10 DEF i

(* The target: a joint that a bone drives goes on by the same, whatever    *)
(* the two rests are; one that stands at its rest does not.                *)
LEMMA TargetTurnsOn ==
  ASSUME NEW U, IsWord(U), NEW A, IsWord(A), NEW R, IsWord(R),
         NEW S, IsWord(S), NEW f, IsWord(f), NEW s, IsWord(s)
  PROVE  LET turn == Times(Times(Times(Inverted(A), S), f),
                           Times(Times(Inverted(s), Inverted(S)), Times(A, R)))
         IN  /\ IsWord(turn)
             /\ Times(Times(U, turn), Inverted(Times(A, R)))
                  = Times(Times(U, Inverted(A)), Beyond(S, f, s))
             /\ Times(Times(U, R), Inverted(Times(A, R))) = Times(U, Inverted(A))
<1> DEFINE a == Inverted(A)
           i == Inverted(S)
           j == Inverted(s)
           B == Beyond(S, f, s)
           AR == Times(A, R)
           turn == Times(Times(Times(a, S), f), Times(Times(j, i), AR))
<1>1. IsWord(a) /\ IsWord(i) /\ IsWord(j) /\ IsWord(B) /\ IsWord(AR)
  BY InvertedUndoes, BeyondIsAWord, TimesIsAWord
<1>2. B = Times(Times(Times(S, f), j), i)
  BY DEF Beyond
<1>3. Inverted(AR) = Times(Inverted(R), a) /\ IsWord(Inverted(R))
  BY InvertedProduct, InvertedUndoes
<1> HIDE DEF AR, a, i, j, B
<1>4. IsWord(Times(a, S)) /\ IsWord(Times(S, f)) /\ IsWord(Times(j, i)) /\ IsWord(Times(Times(S, f), j))
      /\ IsWord(Times(Times(a, S), f))
  BY <1>1, TimesIsAWord
<1>5. turn = Times(Times(a, B), AR)
  <2>1. Times(Times(a, S), f) = Times(a, Times(S, f))
    BY <1>1, TimesAssociates
  <2>2. Times(Times(S, f), Times(j, i)) = B
    BY <1>1, <1>2, <1>4, TimesAssociates
  <2>3. Times(Times(a, Times(S, f)), Times(j, i)) = Times(a, B)
    BY <1>1, <1>4, <2>2, TimesAssociates
  <2>4. turn = Times(Times(Times(Times(a, S), f), Times(j, i)), AR)
    BY <1>1, <1>4, TimesAssociates
  <2> QED
    BY <2>1, <2>3, <2>4
<1> HIDE DEF turn
<1>6. IsWord(Times(a, B)) /\ IsWord(Times(U, Times(a, B)))
  BY <1>1, TimesIsAWord
<1>7. Times(U, turn) = Times(Times(U, Times(a, B)), AR)
  BY <1>1, <1>5, <1>6, TimesAssociates
<1>8. Times(Times(U, turn), Inverted(AR)) = Times(U, Times(a, B))
  BY <1>1, <1>6, <1>7, UndoneAfter
<1>9. Times(U, Times(a, B)) = Times(Times(U, a), B)
  BY <1>1, TimesAssociates
<1>10. IsWord(turn)
  BY <1>1, <1>5, <1>6, TimesIsAWord
<1>11. Times(Times(U, R), Inverted(AR)) = Times(U, a)
  <2>1. IsWord(Times(U, R)) /\ Times(Times(U, R), Inverted(R)) = U
    BY UndoneAfter, TimesIsAWord
  <2>2. Times(Times(U, R), Times(Inverted(R), a)) = Times(Times(Times(U, R), Inverted(R)), a)
    BY <1>1, <1>3, <2>1, TimesAssociates
  <2> QED
    BY <1>3, <2>1, <2>2
<1> QED
  BY <1>8, <1>9, <1>10, <1>11 DEF turn, AR, a, i, j, B

-----------------------------------------------------------------------------
(* One fold.                                                               *)

IsPose(q) ==
  q.valid \subseteq Bones /\ DOMAIN q.rotations = Bones /\ \A b \in Bones : IsWord(q.rotations[b])

(* What a pose says of a bone, its rest where it says nothing.             *)
Held(q, b) == IF b \in q.valid THEN q.rotations[b] ELSE SourceRest(b)

HeldBy(q) == [b \in Bones |-> Held(q, b)]

TurnOf(q, b) == Times(Held(q, b), Inverted(SourceRest(b)))

LEMMA HeldIsAWord ==
  ASSUME NEW q, IsPose(q), NEW b \in Bones
  PROVE  IsWord(Held(q, b)) /\ IsWord(SourceRest(b)) /\ IsWord(TurnOf(q, b))
<1>1. IsWord(SourceRest(b))
  BY TurnIsAWord DEF SourceRest
<1>2. IsWord(Held(q, b))
  BY <1>1 DEF Held, IsPose
<1> QED
  BY <1>1, <1>2, InvertedUndoes, TimesIsAWord DEF TurnOf

(* One bone of a pose brought to rest, its turn given to the one above.    *)
GivesItsTurn(q, bone, above, next) ==
  /\ IsPose(next)
  /\ Held(next, bone) = SourceRest(bone)
  /\ Held(next, above) = Times(Held(q, above), TurnOf(q, bone))
  /\ \A b \in Bones \ {bone, above} : Held(next, b) = Held(q, b)

LEMMA FoldOneIs ==
  ASSUME NEW r, NEW q, IsPose(q), NEW bone \in Bones, r.rest[bone] \in Bones, r.rest[bone] # bone
  PROVE  GivesItsTurn(q, bone, r.rest[bone], FoldOne(r, q, bone))
<1> DEFINE next == FoldOne(r, q, bone)
           above == r.rest[bone]
           base == Held(q, above)
           turn == TurnOf(q, bone)
<1>1. IsWord(base) /\ IsWord(turn) /\ IsWord(SourceRest(bone)) /\ above \in Bones /\ above # bone
  BY HeldIsAWord
<1>2. CASE bone \notin q.valid
  <2>1. next = q
    BY <1>2, Zenon DEF FoldOne
  <2>2. Held(q, bone) = SourceRest(bone)
    BY <1>2 DEF Held
  <2>3. turn = Identity
    BY <1>1, <2>2, InvertedUndoes DEF TurnOf
  <2>4. Times(base, turn) = base
    BY <1>1, <2>3, JoinedToIdentity
  <2> HIDE DEF next, base, turn, above
  <2>5. IsPose(next) /\ Held(next, bone) = SourceRest(bone)
    BY <2>1, <2>2
  <2>6. Held(next, above) = Times(base, turn)
    BY <2>1, <2>4 DEF base
  <2>7. \A b \in Bones \ {bone, above} : Held(next, b) = Held(q, b)
    BY <2>1
  <2> QED
    BY <2>5, <2>6, <2>7 DEF next, base, turn, above, GivesItsTurn
<1>3. CASE bone \in q.valid
  <2>1. turn = Times(q.rotations[bone], Inverted(SourceRest(bone)))
    BY <1>3 DEF TurnOf, Held
  <2> DEFINE valid == IF turn = Identity THEN q.valid ELSE q.valid \cup {above}
             rotations == [q.rotations EXCEPT ![bone] = SourceRest(bone),
                             ![above] = IF turn = Identity THEN @ ELSE Times(base, turn)]
  <2>2. next = [valid |-> valid, rotations |-> rotations]
    BY <1>3, <2>1, Zenon DEF FoldOne, Held
  <2> HIDE DEF next
  <2>3. next.valid = valid /\ next.rotations = rotations
    BY <2>2
  <2> HIDE DEF base, turn, above
  <2>4. DOMAIN q.rotations = Bones /\ q.valid \subseteq Bones /\ \A b \in Bones : IsWord(q.rotations[b])
    BY DEF IsPose
  <2>5. /\ DOMAIN rotations = Bones
        /\ rotations[bone] = SourceRest(bone)
        /\ rotations[above] = IF turn = Identity THEN q.rotations[above] ELSE Times(base, turn)
        /\ \A b \in Bones \ {bone, above} : rotations[b] = q.rotations[b]
    BY <1>1, <2>4
  <2> HIDE DEF rotations
  <2>6. IsPose(next)
    <3>1. IsWord(Times(base, turn))
      BY <1>1, TimesIsAWord
    <3>2. \A b \in Bones : IsWord(rotations[b])
      BY <1>1, <2>4, <2>5, <3>1
    <3>3. valid \subseteq Bones
      BY <1>1, <2>4
    <3> QED
      BY <2>3, <2>5, <3>2, <3>3 DEF IsPose
  <2>7. Held(next, bone) = SourceRest(bone)
    BY <2>3, <2>5 DEF Held
  <2>8. Held(next, above) = Times(base, turn)
    <3>1. CASE turn = Identity
      <4>1. Times(base, turn) = base
        BY <1>1, <3>1, JoinedToIdentity
      <4>2. Held(next, above) = Held(q, above)
        BY <2>3, <2>5, <3>1 DEF Held
      <4> QED
        BY <4>1, <4>2 DEF base
    <3>2. CASE turn # Identity
      BY <2>3, <2>5, <3>2 DEF Held
    <3> QED
      BY <3>1, <3>2
  <2>9. \A b \in Bones \ {bone, above} : Held(next, b) = Held(q, b)
    BY <2>3, <2>5 DEF Held
  <2> QED
    BY <2>6, <2>7, <2>8, <2>9 DEF base, turn, above, next, GivesItsTurn
<1> QED
  BY <1>2, <1>3

(* Where a way up meets the bone above this one, it goes through this one. *)
MeetsBelow(rest, from, n, bone) ==
  \A k \in 0 .. n - 1 : At(rest, from, k) = rest[bone] => \E l \in 0 .. n - 1 : At(rest, from, l) = bone

(* A fold within a way up, or off it, does not change what the rotations   *)
(* come to down that way.                                                  *)
LEMMA FoldKeepsTotal ==
  ASSUME NEW r, DOMAIN r.rest = Bones, NEW q, IsPose(q), NEW bone \in Bones, r.rest[bone] \in Bones,
         NEW from, NEW n, ClimbsOut(r.rest, from, n), NEW count \in Nat, n <= count,
         r.rest[bone] # bone, MeetsBelow(r.rest, from, n, bone)
  PROVE  Total(r.rest, from, count, HeldBy(FoldOne(r, q, bone))) = Total(r.rest, from, count, HeldBy(q))
<1> DEFINE rest == r.rest
           above == rest[bone]
           next == FoldOne(r, q, bone)
           was(x) == Total(rest, x, count, HeldBy(q))
           is(x) == Total(rest, x, count, HeldBy(next))
           turn == TurnOf(q, bone)
           x(k) == At(rest, from, k)
           Good == {y \in Bones : is(y) = IF y = above THEN Times(was(y), turn) ELSE was(y)}
<1>1. /\ IsPose(next) /\ Held(next, bone) = SourceRest(bone)
      /\ Held(next, above) = Times(Held(q, above), turn)
      /\ \A b \in Bones \ {bone, above} : Held(next, b) = Held(q, b)
  <2>1. GivesItsTurn(q, bone, above, next)
    BY FoldOneIs
  <2> HIDE DEF next, above, turn
  <2> QED
    BY <2>1 DEF GivesItsTurn, turn
<1>2. \A b \in Bones : /\ HeldBy(q)[b] = Held(q, b) /\ HeldBy(next)[b] = Held(next, b)
                       /\ IsWord(Held(q, b)) /\ IsWord(Held(next, b)) /\ IsWord(SourceRest(b))
  <2> HIDE DEF next
  <2> QED
    BY <1>1, HeldIsAWord DEF HeldBy
<1>3. IsWord(turn) /\ above \in Bones /\ above # bone
  BY HeldIsAWord
<1>4. n \in Nat
  BY DEF ClimbsOut
<1> HIDE DEF turn
<1>5. ASSUME NEW k \in 0 .. n - 1
      PROVE  /\ x(k) \in Bones /\ rest[x(k)] = x(k + 1)
             /\ ClimbsOut(rest, x(k), n - k) /\ n - k <= count
             /\ ClimbsOut(rest, x(k + 1), n - (k + 1)) /\ n - (k + 1) <= count
  <2>1. k \in 0 .. n /\ k + 1 \in 0 .. n /\ k \in Nat
    BY <1>4
  <2>2. x(k) \in Bones
    BY DEF ClimbsOut
  <2>3. x(k + 1) = Up(rest, x(k))
    BY <2>1, AtSteps
  <2>4. ClimbsOut(rest, x(k), n - k) /\ ClimbsOut(rest, x(k + 1), n - (k + 1))
    BY <2>1, ClimbsOn
  <2> QED
    BY <1>4, <2>1, <2>2, <2>3, <2>4 DEF Up
<1>6. ASSUME NEW k \in 0 .. n - 1
      PROVE  /\ is(x(k)) = Times(is(x(k + 1)), Held(next, x(k)))
             /\ was(x(k)) = Times(was(x(k + 1)), Held(q, x(k)))
             /\ IsWord(was(x(k))) /\ IsWord(was(x(k + 1)))
  <2>1. /\ x(k) \in Bones /\ rest[x(k)] = x(k + 1)
        /\ ClimbsOut(rest, x(k), n - k) /\ n - k <= count
        /\ ClimbsOut(rest, x(k + 1), n - (k + 1)) /\ n - (k + 1) <= count
    BY <1>5
  <2> HIDE DEF x, next
  <2>2. \A b \in DOMAIN rest : IsWord(HeldBy(q)[b]) /\ IsWord(HeldBy(next)[b])
    BY <1>2
  <2>3. IsWord(was(x(k))) /\ was(x(k)) = Times(was(rest[x(k)]), HeldBy(q)[x(k)])
    BY <2>1, <2>2, TotalSteps
  <2>4. IsWord(was(x(k + 1)))
    BY <2>1, <2>2, TotalSteps
  <2>5. is(x(k)) = Times(is(rest[x(k)]), HeldBy(next)[x(k)])
    BY <2>1, <2>2, TotalSteps
  <2> HIDE DEF is, was
  <2> QED
    BY <1>2, <2>1, <2>3, <2>4, <2>5
<1>7. x(n) \notin Bones /\ is(x(n)) = Identity /\ was(x(n)) = Identity
  <2>1. x(n) \notin Bones
    BY DEF ClimbsOut
  <2>2. n \in 0 .. n /\ n - n = 0 /\ 0 <= count
    BY <1>4
  <2>3. ClimbsOut(rest, x(n), 0)
    BY <2>2, ClimbsOn
  <2> HIDE DEF x, next
  <2>4. \A b \in DOMAIN rest : IsWord(HeldBy(q)[b]) /\ IsWord(HeldBy(next)[b])
    BY <1>2
  <2> QED
    BY <2>1, <2>2, <2>3, <2>4, TotalSteps
<1>8. \A k \in 0 .. n - 1 : x(k) = above =>
        \E l \in 0 .. n - 1 : x(l) = bone
  BY DEF MeetsBelow
<1>9. \A a, b \in 0 .. n : x(a) = x(b) => a = b
  BY OnceOnTheWay
<1> HIDE DEF x, is, was, next, rest, Good
<1>10. ASSUME NEW k \in 0 .. n - 1, k + 1 \in 0 .. n - 1 => x(k + 1) \in Good
       PROVE  x(k) \in Good
  <2>1. /\ is(x(k)) = Times(is(x(k + 1)), Held(next, x(k)))
        /\ was(x(k)) = Times(was(x(k + 1)), Held(q, x(k)))
        /\ IsWord(was(x(k))) /\ IsWord(was(x(k + 1)))
    BY <1>6
  <2>2. x(k) \in Bones /\ rest[x(k)] = x(k + 1)
    BY <1>5
  <2>3. is(x(k + 1)) = IF x(k + 1) = above THEN Times(was(x(k + 1)), turn) ELSE was(x(k + 1))
    <3>1. CASE k + 1 \in 0 .. n - 1
      BY <1>10, <3>1 DEF Good
    <3>2. CASE k + 1 \notin 0 .. n - 1
      <4>1. k + 1 = n
        BY <1>4, <3>2
      <4> QED
        BY <1>3, <1>7, <4>1
    <3> QED
      BY <3>1, <3>2
  <2>4. CASE x(k) = bone
    <3>1. x(k + 1) = above /\ x(k) # above
      BY <1>3, <2>2, <2>4 DEF above
    <3>2. is(x(k)) = Times(Times(was(x(k + 1)), turn), SourceRest(bone))
      BY <1>1, <2>1, <2>3, <2>4, <3>1
    <3>3. Times(turn, SourceRest(bone)) = Held(q, bone)
      <4> DEFINE j == Inverted(SourceRest(bone))
      <4>1. IsWord(j) /\ Times(j, SourceRest(bone)) = Identity /\ IsWord(Held(q, bone)) /\ IsWord(SourceRest(bone))
        BY <1>2, InvertedUndoes, InvertedUndoesBefore
      <4>2. turn = Times(Held(q, bone), j)
        BY DEF turn, TurnOf
      <4> HIDE DEF j
      <4>3. Times(turn, SourceRest(bone)) = Times(Held(q, bone), Times(j, SourceRest(bone)))
        BY <4>1, <4>2, TimesAssociates
      <4> QED
        BY <4>1, <4>3, JoinedToIdentity
    <3>4. Times(Times(was(x(k + 1)), turn), SourceRest(bone)) = Times(was(x(k + 1)), Times(turn, SourceRest(bone)))
      BY <1>2, <1>3, <2>1, TimesAssociates
    <3>5. is(x(k)) = was(x(k))
      BY <2>1, <2>4, <3>2, <3>3, <3>4
    <3> QED
      BY <2>2, <3>1, <3>5 DEF Good
  <2>5. CASE x(k) = above
    <3>1. x(k + 1) # above
      <4>1. k \in 0 .. n /\ k + 1 \in 0 .. n /\ k # k + 1
        BY <1>4
      <4> QED
        BY <1>9, <2>5, <4>1
    <3>2. is(x(k)) = Times(was(x(k + 1)), Times(Held(q, above), turn))
      BY <1>1, <2>1, <2>3, <2>5, <3>1
    <3>3. Times(was(x(k + 1)), Times(Held(q, above), turn)) = Times(Times(was(x(k + 1)), Held(q, above)), turn)
      BY <1>2, <1>3, <2>1, TimesAssociates
    <3>4. is(x(k)) = Times(was(x(k)), turn)
      BY <2>1, <2>5, <3>2, <3>3
    <3> QED
      BY <2>2, <2>5, <3>4 DEF Good
  <2>6. CASE x(k) # bone /\ x(k) # above
    <3>1. x(k + 1) # above
      <4>1. SUFFICES ASSUME x(k + 1) = above PROVE FALSE
        OBVIOUS
      <4>2. k + 1 \in 0 .. n - 1
        <5>1. k + 1 # n
          BY <1>3, <1>7, <4>1
        <5> QED
          BY <1>4, <5>1
      <4>3. PICK l \in 0 .. n - 1 : x(l) = bone
        BY <1>8, <4>1, <4>2
      <4>4. x(l + 1) = above
        BY <1>5, <4>3 DEF above
      <4>5. l + 1 \in 0 .. n /\ k + 1 \in 0 .. n /\ k \in Nat /\ l \in Nat
        BY <1>4
      <4>6. l + 1 = k + 1
        BY <1>9, <4>1, <4>4, <4>5
      <4>7. l = k
        BY <4>5, <4>6
      <4> QED
        BY <2>6, <4>3, <4>7
    <3>2. is(x(k)) = was(x(k))
      BY <1>1, <2>1, <2>2, <2>3, <2>6, <3>1
    <3> QED
      BY <2>2, <2>6, <3>2 DEF Good
  <2> QED
    BY <2>4, <2>5, <2>6
<1>11. \A k \in 0 .. n - 1 : x(k) \in Good
  <2>1. \A k \in 0 .. n - 1 : (k + 1 \in 0 .. n - 1 => At(rest, from, k + 1) \in Good)
                                => At(rest, from, k) \in Good
    BY <1>10 DEF x
  <2>2. ClimbsOut(rest, from, n)
    BY DEF rest
  <2>3. \A k \in 0 .. n - 1 : At(rest, from, k) \in Good
    BY <2>1, <2>2, FromTheTop
  <2> QED
    BY <2>3 DEF x
<1>12. x(0) = from
  BY AtSteps DEF x
<1>13. is(from) = was(from)
  <2>1. CASE n = 0
    BY <1>7, <1>12, <2>1
  <2>2. CASE n # 0
    <3>1. 0 \in 0 .. n - 1 /\ from \in Good
      BY <1>4, <1>11, <1>12, <2>2
    <3>2. from # above
      <4>1. SUFFICES ASSUME from = above PROVE FALSE
        OBVIOUS
      <4>2. PICK l \in 0 .. n - 1 : x(l) = bone
        BY <1>8, <1>12, <3>1, <4>1
      <4>3. x(l + 1) = above
        BY <1>5, <4>2 DEF above
      <4>4. l + 1 \in 0 .. n /\ 0 \in 0 .. n /\ l + 1 # 0
        BY <1>4
      <4> QED
        BY <1>9, <1>12, <4>1, <4>3, <4>4
    <3> QED
      BY <3>1, <3>2 DEF Good
  <2> QED
    BY <2>1, <2>2
<1> QED
  BY <1>13 DEF is, was, rest, next

-----------------------------------------------------------------------------
(* All folds of a pose.                                                    *)

Start(p) == [valid |-> p.valid, rotations |-> p.rotations]

(* What the first n folds come to.                                         *)
FoldsBy(f, r, p) ==
  /\ f[0] = Start(p)
  /\ \A n \in Nat : n + 1 <= Len(r.folds) => f[n + 1] = FoldOne(r, f[n], r.folds[n + 1])
  /\ f[Len(r.folds)] = FoldedPose(r, p)

LEMMA FoldedPoseIs ==
  ASSUME NEW r, Len(r.folds) \in Nat, NEW p
  PROVE  \E f : FoldsBy(f, r, p)
<1> DEFINE N == Len(r.folds)
           next(f, n) == IF n = 0 THEN [valid |-> p.valid, rotations |-> p.rotations]
                         ELSE FoldOne(r, f[n - 1], r.folds[n])
           IsUpTo(f, n) == f = [k \in 0 .. n |-> next(f, k)]
           Stuck == {n \in 0 .. N : ~ \E f : IsUpTo(f, n)}
<1>1. N \in Nat
  OBVIOUS
<1>2. Stuck = {}
  <2> SUFFICES ASSUME Stuck # {} PROVE FALSE
    OBVIOUS
  <2>1. PICK n \in Stuck : \A k \in Stuck : n <= k
    <3>1. Stuck \subseteq Nat
      OBVIOUS
    <3> HIDE DEF Stuck
    <3> QED
      BY <3>1, SmallestIndex
  <2>2. n # 0
    <3> SUFFICES ASSUME n = 0 PROVE FALSE
      OBVIOUS
    <3>1. IsUpTo([k \in 0 .. 0 |-> [valid |-> p.valid, rotations |-> p.rotations]], 0)
      OBVIOUS
    <3> QED
      BY <2>1, <3>1
  <2>3. PICK f : IsUpTo(f, n - 1)
    <3>1. n - 1 \in 0 .. N /\ ~(n <= n - 1)
      BY <1>1, <2>1, <2>2
    <3>2. n - 1 \notin Stuck
      BY <2>1, <3>1
    <3> HIDE DEF IsUpTo
    <3> QED
      BY <3>1, <3>2
  <2> DEFINE g == [k \in 0 .. n |-> IF k < n THEN f[k] ELSE FoldOne(r, f[n - 1], r.folds[n])]
  <2>4. \A k \in 0 .. n : g[k] = next(g, k)
    <3> SUFFICES ASSUME NEW k \in 0 .. n PROVE g[k] = next(g, k)
      OBVIOUS
    <3>1. n \in Nat /\ n - 1 \in 0 .. n /\ n - 1 < n /\ ~(n < n)
      BY <1>1, <2>1, <2>2
    <3>2. CASE k = n
      <4>1. g[n] = FoldOne(r, f[n - 1], r.folds[n]) /\ g[n - 1] = f[n - 1]
        BY <3>1
      <4> HIDE DEF g
      <4> QED
        BY <2>2, <3>2, <4>1
    <3>3. CASE k # n
      <4>1. k \in 0 .. n - 1 /\ g[k] = f[k] /\ (k # 0 => g[k - 1] = f[k - 1])
        BY <3>1, <3>3
      <4>2. f[k] = next(f, k)
        BY <2>3, <4>1
      <4> HIDE DEF g
      <4> QED
        BY <4>1, <4>2
    <3> QED
      BY <3>2, <3>3
  <2>5. g = [k \in 0 .. n |-> g[k]]
    OBVIOUS
  <2> HIDE DEF g
  <2>6. IsUpTo(g, n)
    BY <2>4, <2>5
  <2> HIDE DEF IsUpTo
  <2> QED
    BY <2>1, <2>6
<1>3. \E f : IsUpTo(f, N)
  <2>1. N \in 0 .. N
    BY <1>1
  <2> HIDE DEF IsUpTo
  <2> QED
    BY <1>2, <2>1
<1> DEFINE f == CHOOSE h : IsUpTo(h, N)
<1>4. IsUpTo(f, N)
  <2> HIDE DEF IsUpTo
  <2> QED
    BY <1>3
<1>5. FoldedPose(r, p) = f[N]
  BY Zenon DEF FoldedPose
<1> HIDE DEF f
<1>6. \A k \in 0 .. N : f[k] = next(f, k)
  BY <1>4
<1>7. f[0] = Start(p)
  BY <1>1, <1>6 DEF Start
<1>8. ASSUME NEW n \in Nat, n + 1 <= N PROVE f[n + 1] = FoldOne(r, f[n], r.folds[n + 1])
  <2>1. n + 1 \in 0 .. N /\ n + 1 # 0 /\ (n + 1) - 1 = n
    BY <1>1, <1>8
  <2> DEFINE m == n + 1
  <2> HIDE DEF m
  <2>2. f[m] = FoldOne(r, f[m - 1], r.folds[m]) /\ m - 1 = n
    BY <1>6, <2>1 DEF m
  <2> QED
    BY <2>2 DEF m
<1> QED
  BY <1>5, <1>7, <1>8 DEF FoldsBy

-----------------------------------------------------------------------------
(* The order of the folds.                                                 *)

Depth(r, bone) == Len(SourceChain(r.rest, bone))

(* A list of these bones, of which none is followed by a deeper one.       *)
ListsDeepestFirst(r, list, bones) ==
  /\ IsSequence(list) /\ Range(list) = bones
  /\ \A i, k \in DOMAIN list : i < k => Depth(r, list[k]) <= Depth(r, list[i])

(* What the chain of a bone lists.                                         *)
ChainIs(rest, bone, chain, length) ==
  /\ IsSequence(chain) /\ Len(chain) = length /\ DOMAIN chain = 1 .. length
  /\ \A k \in 1 .. length : chain[k] = At(rest, bone, k - 1) /\ At(rest, bone, k - 1) \in Bones

LEMMA ChainLists ==
  ASSUME NEW rest, DOMAIN rest = Bones, NEW bone \in Bones
  PROVE  \E length \in 1 .. Len(Vocabulary) : ChainIs(rest, bone, SourceChain(rest, bone), length)
<1> DEFINE N == Len(Vocabulary)
<1>1. N \in Nat \ {0}
  <2>1. N \in Nat /\ DOMAIN Vocabulary = 1 .. N
    BY RetargetAssumption, SequenceOver
  <2>2. N # 0
    BY <2>1 DEF Bones, Range
  <2> QED
    BY <2>1, <2>2
<1> HIDE DEF N
<1>2. bone \in DOMAIN rest
  OBVIOUS
<1>3. PICK length \in 1 .. N :
        /\ IsSequence(Climb(rest, bone, N)) /\ Len(Climb(rest, bone, N)) = length
        /\ DOMAIN Climb(rest, bone, N) = 1 .. length
        /\ \A k \in 1 .. length :
             /\ Climb(rest, bone, N)[k] = At(rest, bone, k - 1)
             /\ At(rest, bone, k - 1) \in DOMAIN rest
  BY <1>1, <1>2, ClimbLists
<1> QED
  BY <1>3 DEF ChainIs, SourceChain, N

LEMMA DeepestFirstIs ==
  ASSUME NEW r, DOMAIN r.rest = Bones, NEW bones, bones \subseteq Bones
  PROVE  ListsDeepestFirst(r, DeepestFirst(r, bones), bones)
<1> DEFINE N == Len(Vocabulary)
           level(n) == {bone \in bones : Len(SourceChain(r.rest, bone)) = n}
           upTo(n) == {bone \in bones : Depth(r, bone) \in 1 .. n}
           T == Seq(Bones)
           step == [n \in 1 .. N |-> [s \in T |-> Only(Vocabulary, level(n)) \o s]]
           IsLevels(f) == f = [n \in 0 .. N |-> IF n = 0 THEN << >> ELSE Only(Vocabulary, level(n)) \o f[n - 1]]
<1>1. IsSequence(Vocabulary) /\ N \in Nat /\ DOMAIN Vocabulary = 1 .. N
  BY RetargetAssumption, SequenceOver
<1>2. \A n : /\ IsSequence(Only(Vocabulary, level(n))) /\ Range(Only(Vocabulary, level(n))) = level(n)
             /\ Only(Vocabulary, level(n)) \in Seq(Bones)
  <2> SUFFICES ASSUME NEW n
               PROVE  /\ IsSequence(Only(Vocabulary, level(n))) /\ Range(Only(Vocabulary, level(n))) = level(n)
                      /\ Only(Vocabulary, level(n)) \in Seq(Bones)
    OBVIOUS
  <2>1. level(n) \subseteq Bones
    OBVIOUS
  <2> DEFINE l == level(n)
             O == Only(Vocabulary, l)
  <2> HIDE DEF l
  <2>2. IsSequence(O) /\ Range(O) = Range(Vocabulary) \cap l
    BY <1>1, OnlyIsThose
  <2>3. Range(O) = l /\ l \subseteq Bones
    BY <2>1, <2>2 DEF Bones, l
  <2> HIDE DEF O
  <2>4. O \in Seq(Range(O))
    BY <2>2, SequenceOver
  <2>5. O \in Seq(Bones)
    BY <2>3, <2>4
  <2> QED
    BY <2>2, <2>3, <2>5 DEF O, l
<1> HIDE DEF level
<1>3. step \in [1 .. N -> [T -> T]] /\ << >> \in T
  BY <1>2
<1>4. PICK f \in [0 .. N -> T] : GoesBy(f, N, << >>, step)
  <2> HIDE DEF T, step, N
  <2> QED
    BY <1>1, <1>3, StepsExist
<1>5. IsLevels(f)
  <2>1. \A k \in 0 .. N : k # 0 => k \in 1 .. N /\ k - 1 \in 0 .. N
    BY <1>1
  <2>2. \A k \in 0 .. N : k # 0 => step[k][f[k - 1]] = Only(Vocabulary, level(k)) \o f[k - 1]
    BY <1>4, <2>1
  <2> HIDE DEF T, step
  <2> QED
    BY <1>4, <2>2 DEF GoesBy
<1> DEFINE g == CHOOSE h : IsLevels(h)
<1>6. DeepestFirst(r, bones) = g[N]
  BY Zenon DEF DeepestFirst, level
<1>7. IsLevels(g)
  <2> HIDE DEF IsLevels
  <2> QED
    BY <1>5
<1> HIDE DEF g
<1>8. g[0] = << >> /\ \A n \in 1 .. N : g[n] = Only(Vocabulary, level(n)) \o g[n - 1]
  <2>1. \A n \in 1 .. N : n \in 0 .. N /\ n # 0
    BY <1>1
  <2>2. 0 \in 0 .. N
    BY <1>1
  <2> QED
    BY <1>7, <2>1, <2>2
<1> DEFINE Wrong == {n \in 0 .. N : ~ListsDeepestFirst(r, g[n], upTo(n))}
<1>9. Wrong = {}
  <2> SUFFICES ASSUME Wrong # {} PROVE FALSE
    OBVIOUS
  <2>1. PICK n \in Wrong : \A k \in Wrong : n <= k
    <3>1. Wrong \subseteq Nat
      OBVIOUS
    <3> HIDE DEF Wrong
    <3> QED
      BY <3>1, SmallestIndex
  <2>2. CASE n = 0
    <3>1. upTo(0) = {} /\ DOMAIN << >> = {}
      OBVIOUS
    <3> HIDE DEF upTo
    <3>2. ListsDeepestFirst(r, << >>, {})
      BY <3>1, NothingIsASequence DEF ListsDeepestFirst
    <3> QED
      BY <1>8, <2>1, <2>2, <3>1, <3>2
  <2>3. CASE n # 0
    <3>1. n \in 1 .. N /\ n - 1 \in 0 .. N /\ ~(n <= n - 1)
      BY <1>1, <2>1, <2>3
    <3>2. ListsDeepestFirst(r, g[n - 1], upTo(n - 1))
      BY <2>1, <3>1
    <3> DEFINE a == Only(Vocabulary, level(n))
               b == g[n - 1]
    <3>3. g[n] = a \o b
      BY <1>8, <3>1
    <3>4. IsSequence(a) /\ Range(a) = level(n) /\ IsSequence(b) /\ Range(b) = upTo(n - 1)
      BY <1>2, <3>2 DEF ListsDeepestFirst
    <3>5. \A bone \in level(n) : Depth(r, bone) = n
      BY DEF level, Depth
    <3>6. \A bone \in upTo(n - 1) : Depth(r, bone) \in 1 .. n - 1
      OBVIOUS
    <3>7. level(n) \cup upTo(n - 1) = upTo(n)
      <4>1. 1 .. n = (1 .. n - 1) \cup {n}
        BY <3>1
      <4> QED
        BY <4>1 DEF level, Depth
    <3> HIDE DEF a, b, upTo
    <3>8. IsSequence(a \o b) /\ Range(a \o b) = upTo(n)
      BY <3>4, <3>7, JoinedLists
    <3>9. /\ Len(a) \in Nat /\ Len(b) \in Nat /\ DOMAIN a = 1 .. Len(a) /\ DOMAIN b = 1 .. Len(b)
          /\ a \in Seq(Range(a)) /\ b \in Seq(Range(b))
          /\ \A i \in DOMAIN a : a[i] \in level(n)
          /\ \A i \in DOMAIN b : b[i] \in upTo(n - 1)
      BY <3>4, SequenceOver
    <3>10. /\ DOMAIN (a \o b) = 1 .. Len(a) + Len(b)
           /\ \A i \in 1 .. Len(a) + Len(b) :
                \/ i \in DOMAIN a /\ (a \o b)[i] = a[i]
                \/ i - Len(a) \in DOMAIN b /\ (a \o b)[i] = b[i - Len(a)]
      <4> DEFINE R == Range(a) \cup Range(b)
      <4>1. a \in Seq(R) /\ b \in Seq(R)
        BY <3>9
      <4> HIDE DEF R
      <4>2. a \o b \in Seq(R) /\ Len(a \o b) = Len(a) + Len(b)
        BY <4>1
      <4>3. \A i \in 1 .. Len(a) : (a \o b)[i] = a[i]
        BY <4>1
      <4>4. \A i \in 1 .. Len(b) : (a \o b)[Len(a) + i] = b[i]
        BY <4>1
      <4>5. \A i \in 1 .. Len(a) + Len(b) :
              i \in 1 .. Len(a) \/ (i - Len(a) \in 1 .. Len(b) /\ i = Len(a) + (i - Len(a)))
        BY <3>9
      <4> QED
        BY <3>9, <4>2, <4>3, <4>4, <4>5
    <3>11. ASSUME NEW i \in DOMAIN (a \o b), NEW k \in DOMAIN (a \o b), i < k
           PROVE  Depth(r, (a \o b)[k]) <= Depth(r, (a \o b)[i])
      <4>1. CASE k \in DOMAIN a /\ (a \o b)[k] = a[k]
        <5>1. i \in DOMAIN a /\ i - Len(a) \notin DOMAIN b
          BY <3>9, <3>10, <3>11, <4>1
        <5>2. (a \o b)[i] = a[i]
          BY <3>10, <3>11, <5>1
        <5> QED
          BY <3>1, <3>5, <3>9, <4>1, <5>1, <5>2
      <4>2. CASE k - Len(a) \in DOMAIN b /\ (a \o b)[k] = b[k - Len(a)]
        <5>1. Depth(r, b[k - Len(a)]) \in 1 .. n - 1
          BY <3>6, <3>9, <4>2
        <5>2. CASE i \in DOMAIN a /\ (a \o b)[i] = a[i]
          <6>1. Depth(r, a[i]) = n
            BY <3>5, <3>9, <5>2
          <6> QED
            BY <3>1, <4>2, <5>1, <5>2, <6>1
        <5>3. CASE i - Len(a) \in DOMAIN b /\ (a \o b)[i] = b[i - Len(a)]
          <6>1. i - Len(a) < k - Len(a)
            BY <3>9, <3>10, <3>11
          <6>2. Depth(r, b[k - Len(a)]) <= Depth(r, b[i - Len(a)])
            BY <3>2, <4>2, <5>3, <6>1 DEF ListsDeepestFirst, b
          <6> QED
            BY <4>2, <5>3, <6>2
        <5> QED
          BY <3>10, <3>11, <5>2, <5>3
      <4> QED
        BY <3>10, <3>11, <4>1, <4>2
    <3>12. ListsDeepestFirst(r, a \o b, upTo(n))
      BY <3>8, <3>11 DEF ListsDeepestFirst
    <3> QED
      BY <2>1, <3>3, <3>12
  <2> QED
    BY <2>2, <2>3
<1>10. upTo(N) = bones
  <2> SUFFICES ASSUME NEW bone \in bones PROVE Depth(r, bone) \in 1 .. N
    OBVIOUS
  <2>1. PICK length \in 1 .. N : ChainIs(r.rest, bone, SourceChain(r.rest, bone), length)
    BY ChainLists
  <2> QED
    BY <2>1 DEF Depth, ChainIs
<1>11. N \in 0 .. N
  BY <1>1
<1> HIDE DEF upTo
<1>12. ListsDeepestFirst(r, g[N], upTo(N))
  BY <1>9, <1>11
<1> QED
  BY <1>6, <1>10, <1>12

-----------------------------------------------------------------------------
(* The bones above a bone.                                                 *)

(* From a bone the way up goes through n bones and ends.                   *)
Ends(rest, bone, n) ==
  ClimbsOut(rest, bone, n) /\ n <= Len(Vocabulary) /\ At(rest, bone, n) = NoBone

LEMMA VocabularyIsAList == IsSequence(Vocabulary) /\ Len(Vocabulary) \in Nat /\ NoBone \notin Bones
BY RetargetAssumption, SequenceOver

LEMMA EndsIs ==
  ASSUME NEW rest, DOMAIN rest = Bones, NEW bone \in Bones, ChainEnds(rest, bone)
  PROVE  \E n \in Nat \ {0} : Ends(rest, bone, n)
<1>1. PICK length \in 1 .. Len(Vocabulary) : ChainIs(rest, bone, SourceChain(rest, bone), length)
  BY ChainLists
<1>2. PICK n \in 1 .. length : rest[SourceChain(rest, bone)[n]] = NoBone
  BY <1>1 DEF ChainEnds, ChainIs, Range
<1>3. n \in Nat \ {0} /\ n <= Len(Vocabulary) /\ n - 1 \in Nat /\ (n - 1) + 1 = n
  BY <1>2, VocabularyIsAList
<1>4. At(rest, bone, n) = NoBone
  <2>1. At(rest, bone, n - 1) \in Bones /\ rest[At(rest, bone, n - 1)] = NoBone
    BY <1>1, <1>2 DEF ChainIs
  <2>2. At(rest, bone, (n - 1) + 1) = Up(rest, At(rest, bone, n - 1))
    BY <1>3, AtSteps
  <2> QED
    BY <1>3, <2>1, <2>2 DEF Up
<1>5. ASSUME NEW k \in 0 .. n - 1 PROVE At(rest, bone, k) \in Bones
  <2>1. k + 1 \in 1 .. length /\ (k + 1) - 1 = k
    BY <1>2
  <2>2. At(rest, bone, (k + 1) - 1) \in Bones
    BY <1>1, <2>1 DEF ChainIs
  <2> QED
    BY <2>1, <2>2
<1> QED
  BY <1>3, <1>4, <1>5, VocabularyIsAList DEF Ends, ClimbsOut

LEMMA EndingChain ==
  ASSUME NEW rest, DOMAIN rest = Bones, NEW bone, NEW n, Ends(rest, bone, n)
  PROVE  ChainIs(rest, bone, SourceChain(rest, bone), n)
<1>1. n \in Nat /\ ClimbsOut(rest, bone, n) /\ n <= Len(Vocabulary) /\ Len(Vocabulary) \in Nat
  BY VocabularyIsAList DEF Ends, ClimbsOut
<1>2. /\ IsSequence(SourceChain(rest, bone)) /\ Len(SourceChain(rest, bone)) = n
      /\ DOMAIN SourceChain(rest, bone) = 1 .. n
      /\ \A k \in 1 .. n : SourceChain(rest, bone)[k] = At(rest, bone, k - 1)
  BY <1>1, ClimbIs DEF SourceChain
<1>3. \A k \in 1 .. n : k - 1 \in 0 .. n - 1
  BY <1>1
<1> QED
  BY <1>1, <1>2, <1>3 DEF ChainIs, ClimbsOut

LEMMA EndsAbove ==
  ASSUME NEW rest, DOMAIN rest = Bones, NEW bone, NEW n, Ends(rest, bone, n), NEW k \in 0 .. n
  PROVE  Ends(rest, At(rest, bone, k), n - k)
<1>1. n \in Nat /\ ClimbsOut(rest, bone, n) /\ n <= Len(Vocabulary) /\ Len(Vocabulary) \in Nat
      /\ At(rest, bone, n) = NoBone
  BY VocabularyIsAList DEF Ends, ClimbsOut
<1>2. ClimbsOut(rest, At(rest, bone, k), n - k)
  BY <1>1, ClimbsOn
<1> DEFINE m == n - k
<1>3. m \in Nat /\ k + m = n /\ m <= Len(Vocabulary) /\ k \in Nat
  BY <1>1
<1>4. At(rest, At(rest, bone, k), m) = NoBone
  <2> HIDE DEF m
  <2>1. At(rest, At(rest, bone, k), m) = At(rest, bone, k + m)
    BY <1>3, AtGoesOn
  <2> QED
    BY <1>1, <1>3, <2>1
<1> QED
  BY <1>2, <1>3, <1>4 DEF Ends

(* The first that is held, going up.                                       *)
IsFirstHeld(rest, bone, held, n, k) ==
  /\ k \in 1 .. n - 1 /\ At(rest, bone, k) \in held
  /\ \A i \in 1 .. k - 1 : At(rest, bone, i) \notin held

LEMMA FirstAboveIs ==
  ASSUME NEW rest, DOMAIN rest = Bones, NEW bone, NEW n \in Nat \ {0}, Ends(rest, bone, n), NEW held
  PROVE  \/ /\ FirstAbove(rest, bone, held) = NoBone
            /\ \A k \in 1 .. n - 1 : At(rest, bone, k) \notin held
         \/ \E k \in 1 .. n - 1 : /\ IsFirstHeld(rest, bone, held, n, k)
                                  /\ FirstAbove(rest, bone, held) = At(rest, bone, k)
<1> DEFINE C == SourceChain(rest, bone)
           T == Tail(C)
           O == Only(T, held)
<1>1. ChainIs(rest, bone, C, n)
  BY EndingChain
<1> HIDE DEF C
<1>2. T = [i \in 1 .. n - 1 |-> T[i]] /\ \A i \in 1 .. n - 1 : T[i] = At(rest, bone, i)
  <2>1. C \in Seq(Range(C)) /\ Len(C) = n /\ C # << >>
    BY <1>1, SequenceOver DEF ChainIs
  <2>2. Len(T) = n - 1 /\ T \in Seq(Range(C)) /\ \A i \in 1 .. n - 1 : T[i] = C[i + 1]
    BY <2>1
  <2>3. ASSUME NEW i \in 1 .. n - 1 PROVE C[i + 1] = At(rest, bone, i)
    <3>1. i + 1 \in 1 .. n /\ (i + 1) - 1 = i
      OBVIOUS
    <3>2. C[i + 1] = At(rest, bone, (i + 1) - 1)
      BY <1>1, <3>1 DEF ChainIs
    <3> QED
      BY <3>1, <3>2
  <2> HIDE DEF T
  <2>4. T = [i \in 1 .. n - 1 |-> T[i]]
    BY <2>2
  <2> QED
    BY <2>2, <2>3, <2>4
<1>3. IsSequence(T) /\ DOMAIN T = 1 .. n - 1
  <2> HIDE DEF T
  <2> QED
    BY <1>2, ListIsASequence
<1> HIDE DEF T
<1>4. PICK m \in Nat, at \in [1 .. Len(O) -> Kept(T, held)] :
        /\ m = Len(O) /\ IsSequence(O) /\ DOMAIN O = 1 .. m
        /\ \A k \in 1 .. m : O[k] = T[at[k]]
        /\ \A i \in Kept(T, held) : \E k \in 1 .. m : at[k] = i
        /\ \A k, l \in 1 .. m : k < l => at[k] < at[l]
  BY <1>3, OnlyKeeps
<1>5. \A i \in 1 .. n - 1 : At(rest, bone, i) \in held <=> i \in Kept(T, held)
  BY <1>2, <1>3 DEF Kept
<1>6. Kept(T, held) \subseteq 1 .. n - 1
  BY <1>3 DEF Kept
<1>7. FirstAbove(rest, bone, held) = IF O = << >> THEN NoBone ELSE Head(O)
  BY Zenon DEF FirstAbove, O, T, C
<1>8. O \in Seq(Range(O))
  BY <1>4, SequenceOver
<1> HIDE DEF O
<1>9. CASE m = 0
  <2>1. O = << >>
    BY <1>4, <1>8, <1>9
  <2>2. Kept(T, held) = {}
    BY <1>4, <1>9
  <2> QED
    BY <1>5, <1>7, <2>1, <2>2
<1>10. CASE m # 0
  <2>1. 1 \in 1 .. m /\ O # << >>
    BY <1>4, <1>8, <1>10
  <2>2. Head(O) = O[1]
    BY <1>8, <2>1
  <2>3. at[1] \in Kept(T, held) /\ at[1] \in 1 .. n - 1
    BY <1>4, <1>6, <2>1
  <2>4. FirstAbove(rest, bone, held) = At(rest, bone, at[1])
    BY <1>2, <1>4, <1>7, <2>1, <2>2, <2>3
  <2>5. ASSUME NEW i \in 1 .. at[1] - 1, At(rest, bone, i) \in held PROVE FALSE
    <3>1. i \in 1 .. n - 1 /\ i < at[1]
      BY <2>3
    <3>2. i \in Kept(T, held)
      BY <1>5, <2>5, <3>1
    <3>3. PICK l \in 1 .. m : at[l] = i
      BY <1>4, <3>2
    <3>4. l = 1 \/ 1 < l
      BY <3>3
    <3>5. l # 1
      BY <2>3, <3>1, <3>3
    <3>6. at[1] < at[l]
      BY <1>4, <2>1, <3>3, <3>4, <3>5
    <3> QED
      BY <2>3, <3>1, <3>3, <3>6
  <2>6. IsFirstHeld(rest, bone, held, n, at[1])
    BY <1>5, <2>3, <2>5 DEF IsFirstHeld
  <2> QED
    BY <2>3, <2>4, <2>6
<1> QED
  BY <1>9, <1>10

LEMMA FirstHeldIsFound ==
  ASSUME NEW rest, DOMAIN rest = Bones, NEW bone, NEW n \in Nat \ {0}, Ends(rest, bone, n), NEW held,
         NEW k, IsFirstHeld(rest, bone, held, n, k)
  PROVE  FirstAbove(rest, bone, held) = At(rest, bone, k)
<1>1. k \in 1 .. n - 1 /\ At(rest, bone, k) \in held /\ \A i \in 1 .. k - 1 : At(rest, bone, i) \notin held
  BY DEF IsFirstHeld
<1>2. PICK l \in 1 .. n - 1 :
        IsFirstHeld(rest, bone, held, n, l) /\ FirstAbove(rest, bone, held) = At(rest, bone, l)
  BY <1>1, FirstAboveIs
<1>3. At(rest, bone, l) \in held /\ \A i \in 1 .. l - 1 : At(rest, bone, i) \notin held
  BY <1>2 DEF IsFirstHeld
<1>4. ~(k < l)
  <2> SUFFICES ASSUME k < l PROVE FALSE
    OBVIOUS
  <2>1. k \in 1 .. l - 1
    BY <1>1, <1>2
  <2> QED
    BY <1>1, <1>3, <2>1
<1>5. ~(l < k)
  <2> SUFFICES ASSUME l < k PROVE FALSE
    OBVIOUS
  <2>1. l \in 1 .. k - 1
    BY <1>1, <1>2
  <2> QED
    BY <1>1, <1>3, <2>1
<1>6. k = l
  BY <1>1, <1>2, <1>4, <1>5
<1> QED
  BY <1>2, <1>6

-----------------------------------------------------------------------------
(* What a fold plan holds.                                                 *)

Folds(r) == {bone \in Bones : Qualifies(r, bone) /\ ReachesItsReceiver(r, bone)}

(* A bone that is folded gives its turn to a bone that has a joint, or     *)
(* that is folded itself.                                                  *)
FoldStands(r, bone, folds) ==
  /\ ~Bound(r, bone) /\ ChainEnds(r.rest, bone) /\ Receiver(r, bone) # NoBone
  /\ r.rest[bone] \in Bones /\ Depth(r, r.rest[bone]) < Depth(r, bone)
  /\ Bound(r, r.rest[bone]) \/ r.rest[bone] \in folds

LEMMA FoldGoesUp ==
  ASSUME NEW r, DOMAIN r.rest = Bones, NEW bone \in Folds(r)
  PROVE  FoldStands(r, bone, Folds(r))
<1> DEFINE rest == r.rest
           above == rest[bone]
           x(k) == At(rest, bone, k)
           held == BoundBones(r)
<1>1. bone \in Bones /\ Qualifies(r, bone) /\ ReachesItsReceiver(r, bone)
  BY DEF Folds
<1>2. ~Bound(r, bone) /\ ChainEnds(rest, bone) /\ Receiver(r, bone) # NoBone
  BY <1>1 DEF Qualifies
<1>3. DOMAIN rest = Bones
  OBVIOUS
<1>4. Receiver(r, bone) = FirstAbove(rest, bone, held) /\ held \subseteq Bones
      /\ \A b \in Bones : b \in held <=> Bound(r, b)
  BY DEF Receiver, BoundBones
<1> HIDE DEF rest, held
<1>5. PICK n \in Nat \ {0} : Ends(rest, bone, n)
  BY <1>1, <1>2, <1>3, EndsIs
<1>6. PICK k \in 1 .. n - 1 : IsFirstHeld(rest, bone, held, n, k) /\ Receiver(r, bone) = x(k)
  BY <1>2, <1>3, <1>4, <1>5, FirstAboveIs
<1>7. k \in 1 .. n - 1 /\ x(k) \in held /\ \A i \in 1 .. k - 1 : x(i) \notin held
  BY <1>6 DEF IsFirstHeld
<1>8. ClimbsOut(rest, bone, n) /\ \A i \in 0 .. n - 1 : x(i) \in Bones
  BY <1>3, <1>5 DEF Ends, ClimbsOut
<1>9. x(0) = bone /\ x(1) = above
  <2>1. x(0) = bone /\ x(0 + 1) = Up(rest, x(0))
    BY AtSteps
  <2> QED
    BY <1>1, <1>3, <2>1 DEF Up
<1>10. above \in Bones /\ 1 \in 0 .. n - 1 /\ 1 \in 0 .. n
  BY <1>7, <1>8, <1>9
<1>11. Ends(rest, above, n - 1) /\ \A i \in Nat : At(rest, above, i) = x(1 + i)
  <2>1. Ends(rest, x(1), n - 1)
    BY <1>3, <1>5, <1>10, EndsAbove
  <2>2. \A i \in Nat : At(rest, x(1), i) = x(1 + i)
    BY AtGoesOn
  <2> QED
    BY <1>9, <2>1, <2>2
<1> HIDE DEF above
<1> DEFINE m == n - 1
<1>12. m \in Nat \ {0} /\ m = n - 1
  BY <1>7
<1>13. ChainIs(rest, bone, SourceChain(rest, bone), n) /\ ChainIs(rest, above, SourceChain(rest, above), m)
  <2>1. Ends(rest, above, m)
    BY <1>11
  <2> HIDE DEF m
  <2> QED
    BY <1>3, <1>5, <2>1, EndingChain
<1>14. Depth(r, above) < Depth(r, bone)
  BY <1>13, <1>12 DEF Depth, ChainIs, rest
<1> HIDE DEF m
<1>15. ASSUME ~Bound(r, above) PROVE above \in Folds(r)
  <2>1. k # 1
    BY <1>4, <1>7, <1>9, <1>10, <1>15
  <2>2. k - 1 \in 1 .. m - 1 /\ 1 + (k - 1) = k /\ k - 1 \in Nat
    BY <1>7, <1>12, <2>1
  <2>3. IsFirstHeld(rest, above, held, m, k - 1)
    <3>1. At(rest, above, k - 1) = x(k)
      BY <1>11, <2>2
    <3>2. ASSUME NEW i \in 1 .. (k - 1) - 1 PROVE At(rest, above, i) \notin held
      <4>1. i \in Nat /\ 1 + i \in 1 .. k - 1
        BY <1>7
      <4> QED
        BY <1>7, <1>11, <4>1
    <3> QED
      BY <1>7, <2>2, <3>1, <3>2 DEF IsFirstHeld
  <2>4. Ends(rest, above, m)
    BY <1>11, <1>12
  <2>5. FirstAbove(rest, above, held) = At(rest, above, k - 1)
    BY <1>3, <1>12, <2>3, <2>4, FirstHeldIsFound
  <2>6. Receiver(r, above) = Receiver(r, bone)
    <3>1. Receiver(r, above) = FirstAbove(rest, above, held)
      BY DEF Receiver, rest, held
    <3> QED
      BY <1>6, <1>11, <2>2, <2>5, <3>1
  <2>7. \A between \in Range(SourceChain(rest, bone)) :
          Receiver(r, bone) \in Range(Tail(SourceChain(rest, between))) /\ between # Receiver(r, bone)
            => Qualifies(r, between)
    BY <1>1 DEF ReachesItsReceiver, rest
  <2>8. Range(SourceChain(rest, above)) \subseteq Range(SourceChain(rest, bone))
    <3> SUFFICES ASSUME NEW i \in 1 .. m PROVE SourceChain(rest, above)[i] \in Range(SourceChain(rest, bone))
      BY <1>13 DEF ChainIs, Range
    <3>1. i + 1 \in 1 .. n /\ i - 1 \in Nat /\ 1 + (i - 1) = i /\ (i + 1) - 1 = i
      BY <1>12
    <3>2. SourceChain(rest, above)[i] = x(i)
      BY <1>11, <1>13, <3>1 DEF ChainIs
    <3>3. SourceChain(rest, bone)[i + 1] = x((i + 1) - 1)
      BY <1>13, <3>1 DEF ChainIs
    <3> QED
      BY <1>13, <3>1, <3>2, <3>3 DEF ChainIs, Range
  <2>9. ReachesItsReceiver(r, above)
    BY <2>6, <2>7, <2>8 DEF ReachesItsReceiver, rest
  <2>10. Qualifies(r, above)
    <3>1. above \in Range(SourceChain(rest, bone))
      <4>1. 1 \in 1 .. m /\ 1 - 1 = 0 /\ At(rest, above, 0) = above
        BY <1>12, AtSteps
      <4>2. SourceChain(rest, above)[1] = above
        BY <1>13, <4>1 DEF ChainIs
      <4> QED
        BY <1>13, <2>8, <4>1, <4>2 DEF ChainIs, Range
    <3>2. above # Receiver(r, bone)
      BY <1>4, <1>6, <1>7, <1>10, <1>15
    <3>3. Receiver(r, bone) \in Range(Tail(SourceChain(rest, above)))
      <4> DEFINE C == SourceChain(rest, above)
      <4>1. C \in Seq(Range(C)) /\ Len(C) = m /\ C # << >>
        BY <1>12, <1>13, SequenceOver DEF ChainIs
      <4> HIDE DEF C
      <4>2. k - 1 \in DOMAIN Tail(C) /\ Tail(C)[k - 1] = C[k]
        <5>1. Len(Tail(C)) = m - 1 /\ Tail(C) \in Seq(Range(C)) /\ \A i \in 1 .. m - 1 : Tail(C)[i] = C[i + 1]
          BY <4>1
        <5>2. (k - 1) + 1 = k
          BY <1>7
        <5>3. DOMAIN Tail(C) = 1 .. m - 1
          BY <5>1
        <5>4. Tail(C)[k - 1] = C[(k - 1) + 1]
          BY <5>1, <2>2
        <5> QED
          BY <2>2, <5>2, <5>3, <5>4
      <4>3. k \in 1 .. m
        BY <1>7, <1>12
      <4>4. C[k] = At(rest, above, k - 1)
        BY <1>13, <4>3 DEF ChainIs, C
      <4>5. C[k] = Receiver(r, bone)
        BY <1>6, <1>11, <2>2, <4>4
      <4> QED
        BY <4>2, <4>5 DEF Range, C
    <3> QED
      BY <2>7, <3>1, <3>2, <3>3
  <2> QED
    BY <1>10, <2>9, <2>10 DEF Folds
<1> QED
  BY <1>2, <1>10, <1>14, <1>15 DEF FoldStands, rest, above

(* A plan: a bone only folds into one that has a joint, or is folded later.*)
PlanStands(r, plan) ==
  /\ Len(plan) \in Nat /\ DOMAIN plan = 1 .. Len(plan)
  /\ \A i \in 1 .. Len(plan) : plan[i] \in Bones /\ FoldStands(r, plan[i], Range(plan))
  /\ \A i, k \in 1 .. Len(plan) : plan[k] = r.rest[plan[i]] => i < k

LEMMA FoldPlanStands ==
  ASSUME NEW r, DOMAIN r.rest = Bones
  PROVE  PlanStands(r, FoldPlan(r))
<1> DEFINE plan == FoldPlan(r)
<1>1. plan = << >> \/ plan = DeepestFirst(r, Folds(r))
  BY Zenon DEF FoldPlan, Folds
<1> SUFFICES PlanStands(r, plan)
  OBVIOUS
<1>2. ASSUME plan = << >> PROVE PlanStands(r, plan)
  <2>1. Len(<< >>) = 0 /\ DOMAIN << >> = 1 .. 0 /\ 1 .. 0 = {}
    OBVIOUS
  <2> HIDE DEF plan
  <2> QED
    BY <1>2, <2>1 DEF PlanStands
<1>3. ASSUME plan = DeepestFirst(r, Folds(r)) PROVE PlanStands(r, plan)
  <2>1. Folds(r) \subseteq Bones
    BY DEF Folds
  <2>2. ListsDeepestFirst(r, plan, Folds(r))
    BY <1>3, <2>1, DeepestFirstIs
  <2> HIDE DEF plan
  <2>3. /\ Len(plan) \in Nat /\ DOMAIN plan = 1 .. Len(plan) /\ Range(plan) = Folds(r)
        /\ \A i \in 1 .. Len(plan) : plan[i] \in Folds(r)
        /\ \A i, k \in DOMAIN plan : i < k => Depth(r, plan[k]) <= Depth(r, plan[i])
    BY <2>2, SequenceOver DEF ListsDeepestFirst
  <2>4. \A i \in 1 .. Len(plan) : FoldStands(r, plan[i], Folds(r))
    BY <2>3, FoldGoesUp
  <2>5. ASSUME NEW i \in 1 .. Len(plan), NEW k \in 1 .. Len(plan), plan[k] = r.rest[plan[i]]
        PROVE  i < k
    <3>1. Depth(r, plan[k]) < Depth(r, plan[i])
      BY <2>4, <2>5 DEF FoldStands
    <3>2. Depth(r, plan[k]) \in Nat /\ Depth(r, plan[i]) \in Nat
      <4>1. plan[k] \in Bones /\ plan[i] \in Bones
        BY <2>1, <2>3
      <4>2. \A b \in Bones : Depth(r, b) \in Nat
        <5> SUFFICES ASSUME NEW b \in Bones PROVE Depth(r, b) \in Nat
          OBVIOUS
        <5>1. PICK length \in 1 .. Len(Vocabulary) : ChainIs(r.rest, b, SourceChain(r.rest, b), length)
          BY ChainLists
        <5> QED
          BY <5>1, VocabularyIsAList DEF ChainIs, Depth
      <4> QED
        BY <4>1, <4>2
    <3>3. ~(k < i)
      BY <2>3, <3>1, <3>2
    <3>4. k # i
      BY <3>1, <3>2
    <3> QED
      BY <2>3, <3>3, <3>4
  <2>6. \A i \in 1 .. Len(plan) : plan[i] \in Bones /\ FoldStands(r, plan[i], Range(plan))
    BY <2>1, <2>3, <2>4
  <2> QED
    BY <2>3, <2>5, <2>6 DEF PlanStands
<1> QED
  BY <1>1, <1>2, <1>3

(* A fold into a bone on a way up whose receivers have no other branch is  *)
(* of a bone on that way.                                                  *)
LEMMA FoldIsOnTheWay ==
  ASSUME NEW r, DOMAIN r.rest = Bones, NEW from, NEW n, Ends(r.rest, from, n),
         NEW bone \in Bones, NEW folds, FoldStands(r, bone, folds),
         Receiver(r, bone) \in Range(SourceChain(r.rest, from)) => bone \in Range(SourceChain(r.rest, from))
  PROVE  MeetsBelow(r.rest, from, n, bone)
<1> SUFFICES ASSUME NEW k \in 0 .. n - 1, At(r.rest, from, k) = r.rest[bone]
             PROVE  \E l \in 0 .. n - 1 : At(r.rest, from, l) = bone
  BY DEF MeetsBelow
<1> DEFINE rest == r.rest
           above == rest[bone]
           held == BoundBones(r)
<1>1. ChainEnds(rest, bone) /\ Receiver(r, bone) # NoBone /\ above \in Bones
  BY DEF FoldStands
<1>2. Receiver(r, bone) = FirstAbove(rest, bone, held)
  BY DEF Receiver
<1>3. DOMAIN rest = Bones /\ Ends(rest, from, n) /\ At(rest, from, k) = above
  OBVIOUS
<1>4. Receiver(r, bone) \in Range(SourceChain(rest, from)) => bone \in Range(SourceChain(rest, from))
  OBVIOUS
<1>5. At(rest, bone, 0) = bone /\ At(rest, bone, 0 + 1) = Up(rest, At(rest, bone, 0))
  BY AtSteps
<1>6. At(rest, bone, 1) = above
  BY <1>3, <1>5 DEF Up
<1> HIDE DEF rest, held, above
<1>7. PICK m \in Nat \ {0} : Ends(rest, bone, m)
  BY <1>1, <1>3, EndsIs
<1>8. PICK j \in 1 .. m - 1 : Receiver(r, bone) = At(rest, bone, j)
  BY <1>1, <1>2, <1>3, <1>7, FirstAboveIs
<1>9. /\ n \in Nat /\ m \in Nat /\ j \in Nat /\ k \in Nat /\ k \in 0 .. n /\ 1 \in 0 .. m
      /\ j - 1 \in Nat /\ 1 + (j - 1) = j
  BY <1>3, <1>8 DEF Ends, ClimbsOut
<1>10. ClimbsOut(rest, above, n - k) /\ ClimbsOut(rest, above, m - 1)
  <2>1. ClimbsOut(rest, At(rest, from, k), n - k) /\ ClimbsOut(rest, At(rest, bone, 1), m - 1)
    BY <1>3, <1>7, <1>9, ClimbsOn DEF Ends
  <2> QED
    BY <1>3, <1>6, <2>1
<1>11. n - k = m - 1
  BY <1>10, ClimbsOutOnce
<1>12. At(rest, bone, j) = At(rest, from, k + (j - 1))
  <2> DEFINE i == j - 1
  <2>1. i \in Nat /\ 1 + i = j
    BY <1>9
  <2> HIDE DEF i
  <2>2. At(rest, At(rest, bone, 1), i) = At(rest, bone, 1 + i)
    BY <2>1, AtGoesOn
  <2>3. At(rest, At(rest, from, k), i) = At(rest, from, k + i)
    BY <1>9, <2>1, AtGoesOn
  <2> QED
    BY <1>3, <1>6, <2>1, <2>2, <2>3 DEF i
<1>13. ChainIs(rest, from, SourceChain(rest, from), n)
  BY <1>3, EndingChain
<1>14. Receiver(r, bone) \in Range(SourceChain(rest, from))
  <2> DEFINE l == (k + (j - 1)) + 1
  <2>1. l \in 1 .. n /\ l - 1 = k + (j - 1)
    BY <1>8, <1>9, <1>11
  <2> HIDE DEF l
  <2>2. SourceChain(rest, from)[l] = At(rest, from, l - 1)
    BY <1>13, <2>1 DEF ChainIs
  <2> QED
    BY <1>8, <1>12, <1>13, <2>1, <2>2 DEF ChainIs, Range
<1>15. PICK l \in 1 .. n : SourceChain(rest, from)[l] = bone
  BY <1>4, <1>13, <1>14 DEF ChainIs, Range
<1>16. l - 1 \in 0 .. n - 1 /\ At(rest, from, l - 1) = bone
  BY <1>9, <1>13, <1>15 DEF ChainIs
<1> QED
  BY <1>16 DEF rest

(* After every fold a bone on such a way that has no joint is at rest, and *)
(* the way comes to what it came to.                                       *)
Settled(r, from, F, p) ==
  /\ IsPose(F)
  /\ Total(r.rest, from, Len(Vocabulary), HeldBy(F)) = Total(r.rest, from, Len(Vocabulary), HeldBy(p))
  /\ \A b \in Range(SourceChain(r.rest, from)) : Bound(r, b) \/ Held(F, b) = SourceRest(b)

LEMMA FoldsSettle ==
  ASSUME NEW r, DOMAIN r.rest = Bones, PlanStands(r, r.folds), NEW p, IsPose(p),
         NEW from, NEW n, Ends(r.rest, from, n),
         \A b \in Range(SourceChain(r.rest, from)) :
           Bound(r, b) \/ b \in Range(r.folds) \/ Held(p, b) = SourceRest(b),
         \A b \in Range(r.folds) :
           Receiver(r, b) \in Range(SourceChain(r.rest, from)) => b \in Range(SourceChain(r.rest, from))
  PROVE  Settled(r, from, FoldedPose(r, p), p)
<1> DEFINE rest == r.rest
           folds == r.folds
           L == Len(folds)
           N == Len(Vocabulary)
           C == SourceChain(rest, from)
<1>1. /\ L \in Nat /\ DOMAIN folds = 1 .. L
      /\ \A i \in 1 .. L : folds[i] \in Bones /\ FoldStands(r, folds[i], Range(folds))
      /\ \A i, k \in 1 .. L : folds[k] = rest[folds[i]] => i < k
  BY DEF PlanStands
<1>2. PICK f : FoldsBy(f, r, p)
  BY <1>1, FoldedPoseIs
<1>3. /\ f[0] = Start(p) /\ f[L] = FoldedPose(r, p)
      /\ \A i \in Nat : i + 1 <= L => f[i + 1] = FoldOne(r, f[i], folds[i + 1])
  BY <1>2 DEF FoldsBy
<1>4. IsPose(Start(p)) /\ HeldBy(Start(p)) = HeldBy(p) /\ \A b \in Bones : Held(Start(p), b) = Held(p, b)
  BY DEF IsPose, HeldBy, Held, Start
<1>5. /\ N \in Nat /\ n \in Nat /\ n <= N /\ ClimbsOut(rest, from, n) /\ DOMAIN rest = Bones
      /\ Ends(rest, from, n)
  BY VocabularyIsAList DEF Ends, ClimbsOut
<1>6. ChainIs(rest, from, C, n)
  BY <1>5, EndingChain
<1>7. Range(C) \subseteq Bones
  BY <1>6 DEF ChainIs, Range
<1>8. \A b \in Range(C) : Bound(r, b) \/ b \in Range(folds) \/ Held(p, b) = SourceRest(b)
  OBVIOUS
<1>9. \A b \in Range(folds) : Receiver(r, b) \in Range(C) => b \in Range(C)
  OBVIOUS
<1> DEFINE later(i) == {folds[k] : k \in i + 1 .. L}
           Good(i) == /\ IsPose(f[i])
                      /\ Total(rest, from, N, HeldBy(f[i])) = Total(rest, from, N, HeldBy(p))
                      /\ \A b \in Range(C) : Bound(r, b) \/ b \in later(i) \/ Held(f[i], b) = SourceRest(b)
           Bad == {i \in 0 .. L : ~Good(i)}
<1>10. Good(0)
  <2>1. Range(folds) = later(0)
    BY <1>1 DEF Range
  <2>2. \A b \in Range(C) : Bound(r, b) \/ b \in later(0) \/ Held(f[0], b) = SourceRest(b)
    <3> HIDE DEF later, C
    <3> QED
      BY <1>3, <1>4, <1>7, <1>8, <2>1
  <2> HIDE DEF later, C
  <2> QED
    BY <1>3, <1>4, <2>2
<1>11. ASSUME NEW i \in Nat, i + 1 <= L, Good(i) PROVE Good(i + 1)
  <2> DEFINE bone == folds[i + 1]
             q == f[i]
             above == rest[bone]
             next == FoldOne(r, q, bone)
  <2>1. i + 1 \in 1 .. L
    BY <1>1, <1>11
  <2>2. bone \in Bones /\ FoldStands(r, bone, Range(folds)) /\ bone \in Range(folds)
    BY <1>1, <2>1 DEF Range
  <2>3. above \in Bones /\ (Bound(r, above) \/ above \in Range(folds))
    BY <2>2 DEF FoldStands
  <2>4. above # bone
    BY <1>1, <2>1
  <2>5. f[i + 1] = next /\ IsPose(q)
    BY <1>3, <1>11
  <2> HIDE DEF bone, q
  <2>6. GivesItsTurn(q, bone, above, next)
    BY <2>2, <2>3, <2>4, <2>5, FoldOneIs
  <2>7. MeetsBelow(rest, from, n, bone)
    <3>1. Receiver(r, bone) \in Range(SourceChain(rest, from)) => bone \in Range(SourceChain(rest, from))
      BY <1>9, <2>2
    <3> HIDE DEF folds, N
    <3> QED
      BY <1>5, <2>2, <3>1, FoldIsOnTheWay
  <2>8. Total(rest, from, N, HeldBy(next)) = Total(rest, from, N, HeldBy(q))
    <3> HIDE DEF N, C, folds
    <3> QED
      BY <1>5, <2>2, <2>3, <2>4, <2>5, <2>7, FoldKeepsTotal
  <2>9. ASSUME NEW b \in Range(C), ~Bound(r, b), b \notin later(i + 1)
        PROVE  Held(next, b) = SourceRest(b)
    <3>1. CASE b = bone
      BY <2>6, <3>1 DEF GivesItsTurn
    <3>2. CASE b = above
      <4>1. above \in Range(folds)
        BY <2>3, <2>9, <3>2
      <4>2. PICK k \in 1 .. L : folds[k] = above
        BY <1>1, <4>1 DEF Range
      <4>3. i + 1 < k
        BY <1>1, <2>1, <4>2 DEF bone
      <4>4. k \in (i + 1) + 1 .. L
        BY <1>1, <4>2, <4>3
      <4> QED
        BY <2>9, <3>2, <4>2, <4>4
    <3>3. CASE b # bone /\ b # above
      <4>1. Held(next, b) = Held(q, b)
        BY <1>7, <2>6, <3>3 DEF GivesItsTurn
      <4>2. b \notin later(i)
        <5>1. \A k \in i + 1 .. L : k = i + 1 \/ k \in (i + 1) + 1 .. L
          BY <1>1
        <5> QED
          BY <2>9, <3>3, <5>1 DEF bone
      <4>3. Held(q, b) = SourceRest(b)
        BY <1>11, <2>9, <4>2 DEF q
      <4> QED
        BY <4>1, <4>3
    <3> QED
      BY <3>1, <3>2, <3>3
  <2>10. IsPose(next)
    BY <2>6 DEF GivesItsTurn
  <2>11. Total(rest, from, N, HeldBy(q)) = Total(rest, from, N, HeldBy(p))
    BY <1>11 DEF q
  <2> HIDE DEF next, later, C, N, folds, rest
  <2> QED
    BY <2>5, <2>8, <2>9, <2>10, <2>11
<1> HIDE DEF Good
<1>12. Bad = {}
  <2> SUFFICES ASSUME Bad # {} PROVE FALSE
    OBVIOUS
  <2>1. PICK i \in Bad : \A k \in Bad : i <= k
    <3>1. Bad \subseteq Nat
      OBVIOUS
    <3> HIDE DEF Bad
    <3> QED
      BY <3>1, SmallestIndex
  <2>2. i # 0 /\ i \in 0 .. L
    BY <1>10, <2>1
  <2>3. PICK j \in Nat : i = j + 1
    <3>1. i - 1 \in Nat /\ i = (i - 1) + 1
      BY <1>1, <2>2
    <3> QED
      BY <3>1
  <2>4. j \in 0 .. L /\ ~(i <= j) /\ j + 1 <= L
    BY <1>1, <2>2, <2>3
  <2>5. Good(j)
    BY <2>1, <2>4
  <2>6. Good(j + 1)
    BY <1>11, <2>4, <2>5
  <2> QED
    BY <2>1, <2>3, <2>6
<1>13. Good(L)
  <2>1. L \in 0 .. L
    BY <1>1
  <2> QED
    BY <1>12, <2>1
<1>14. later(L) = {}
  BY <1>1
<1> HIDE DEF later
<1>15. /\ IsPose(f[L])
       /\ Total(rest, from, N, HeldBy(f[L])) = Total(rest, from, N, HeldBy(p))
       /\ \A b \in Range(C) : Bound(r, b) \/ Held(f[L], b) = SourceRest(b)
  BY <1>13, <1>14 DEF Good
<1> QED
  BY <1>3, <1>15 DEF Settled

-----------------------------------------------------------------------------
(* Two ways up with the same rungs.                                        *)

(* From place 1 to place n + 1 only the rungs p turn, the i-th by e[i].    *)
IsLadder(A, n, p, L, e) ==
  /\ n \in Nat /\ L \in Nat
  /\ \A i \in 1 .. L : p[i] \in 1 .. n /\ A[p[i]] = Times(A[p[i] + 1], e[i])
  /\ \A i, k \in 1 .. L : i < k => p[i] < p[k]
  /\ \A k \in 1 .. n : (\A i \in 1 .. L : p[i] # k) => A[k] = A[k + 1]

LEMMA BetweenRungs ==
  ASSUME NEW A, NEW n, NEW p, NEW L, NEW e, IsLadder(A, n, p, L, e),
         NEW a \in 1 .. n + 1, NEW b \in a .. n + 1,
         \A i \in 1 .. L : ~(a <= p[i] /\ p[i] < b)
  PROVE  A[a] = A[b]
<1> DEFINE Off == {h \in 0 .. b - a : A[b - h] # A[b]}
<1>1. n \in Nat /\ L \in Nat /\ a \in Nat /\ b \in Nat /\ a <= b
      /\ \A k \in 1 .. n : (\A i \in 1 .. L : p[i] # k) => A[k] = A[k + 1]
      /\ \A i \in 1 .. L : p[i] \in 1 .. n
  BY DEF IsLadder
<1>2. Off = {}
  <2> SUFFICES ASSUME Off # {} PROVE FALSE
    OBVIOUS
  <2>1. PICK h \in Off : \A k \in Off : h <= k
    <3>1. Off \subseteq Nat
      OBVIOUS
    <3> HIDE DEF Off
    <3> QED
      BY <3>1, SmallestIndex
  <2>2. h \in 0 .. b - a /\ A[b - h] # A[b]
    BY <2>1
  <2>3. h # 0
    <3>1. b - 0 = b
      BY <1>1
    <3> QED
      BY <2>2, <3>1
  <2>4. h - 1 \in 0 .. b - a /\ ~(h <= h - 1)
    BY <1>1, <2>2, <2>3
  <2>5. A[b - (h - 1)] = A[b]
    <3>1. h - 1 \notin Off
      BY <2>1, <2>4
    <3> QED
      BY <2>4, <3>1
  <2> DEFINE k == b - h
  <2>6. k \in 1 .. n /\ k + 1 = b - (h - 1) /\ a <= k /\ k < b
    BY <1>1, <2>2, <2>3
  <2> HIDE DEF k
  <2>7. A[k] = A[k + 1]
    BY <1>1, <2>6
  <2> QED
    BY <2>2, <2>5, <2>6, <2>7 DEF k
<1>3. b - a \in 0 .. b - a /\ b - (b - a) = a
  BY <1>1
<1>4. b - a \notin Off
  BY <1>2
<1> QED
  BY <1>3, <1>4

Rung(p, n, L, i) == IF i <= L THEN p[i] ELSE n + 1

LEMMA RungToRung ==
  ASSUME NEW A, NEW n, NEW p, NEW L, NEW e, IsLadder(A, n, p, L, e)
  PROVE  /\ A[Rung(p, n, L, 1)] = A[1] /\ Rung(p, n, L, L + 1) = n + 1
         /\ \A i \in 1 .. L : A[Rung(p, n, L, i)] = Times(A[Rung(p, n, L, i + 1)], e[i])
<1>1. /\ n \in Nat /\ L \in Nat
      /\ \A i \in 1 .. L : p[i] \in 1 .. n /\ A[p[i]] = Times(A[p[i] + 1], e[i])
      /\ \A i, k \in 1 .. L : i < k => p[i] < p[k]
  BY DEF IsLadder
<1>2. Rung(p, n, L, L + 1) = n + 1
  BY <1>1 DEF Rung
<1>3. \A i \in 1 .. L + 1 : Rung(p, n, L, i) \in 1 .. n + 1
  BY <1>1 DEF Rung
<1>4. \A i \in 1 .. L, k \in 1 .. L + 1 : i < k => p[i] < Rung(p, n, L, k)
  BY <1>1 DEF Rung
<1>5. \A i \in 1 .. L, k \in 1 .. L + 1 : k <= i => Rung(p, n, L, k) <= p[i]
  <2> SUFFICES ASSUME NEW i \in 1 .. L, NEW k \in 1 .. L + 1, k <= i PROVE Rung(p, n, L, k) <= p[i]
    OBVIOUS
  <2>1. k \in 1 .. L /\ Rung(p, n, L, k) = p[k] /\ p[k] \in Nat /\ p[i] \in Nat
    BY <1>1 DEF Rung
  <2>2. k = i \/ k < i
    BY <2>1
  <2> QED
    BY <1>1, <2>1, <2>2
<1>6. A[Rung(p, n, L, 1)] = A[1]
  <2> DEFINE b == Rung(p, n, L, 1)
  <2>1. 1 \in 1 .. L + 1 /\ 1 \in 1 .. n + 1 /\ b \in 1 .. n + 1
    BY <1>1, <1>3
  <2>2. \A i \in 1 .. L : ~(p[i] < b)
    <3> SUFFICES ASSUME NEW i \in 1 .. L PROVE ~(p[i] < b)
      OBVIOUS
    <3>1. b <= p[i] /\ p[i] \in Nat
      BY <1>1, <1>5, <2>1
    <3> HIDE DEF b
    <3> QED
      BY <2>1, <3>1
  <2> HIDE DEF b
  <2>3. A[1] = A[b]
    BY <2>1, <2>2, BetweenRungs
  <2> QED
    BY <2>3 DEF b
<1>7. ASSUME NEW i \in 1 .. L
      PROVE  A[Rung(p, n, L, i)] = Times(A[Rung(p, n, L, i + 1)], e[i])
  <2> DEFINE a == p[i] + 1
             b == Rung(p, n, L, i + 1)
  <2>1. i + 1 \in 1 .. L + 1 /\ i < i + 1 /\ b \in 1 .. n + 1 /\ p[i] < b /\ p[i] \in 1 .. n
    BY <1>1, <1>3, <1>4
  <2>2. ASSUME NEW k \in 1 .. L, a <= p[k], p[k] < b PROVE FALSE
    <3>1. p[k] \in Nat
      BY <1>1
    <3>2. CASE k <= i
      <4>1. p[k] <= p[i]
        <5>1. k = i \/ k < i
          BY <1>1, <3>2
        <5> QED
          BY <1>1, <5>1, <2>1
      <4> QED
        BY <2>1, <2>2, <3>1, <4>1
    <3>3. CASE i + 1 <= k
      <4>1. b <= p[k]
        BY <1>5, <2>1, <3>3
      <4> HIDE DEF b
      <4> QED
        BY <2>1, <2>2, <3>1, <4>1
    <3> QED
      BY <1>1, <3>2, <3>3
  <2>3. A[p[i]] = Times(A[a], e[i]) /\ Rung(p, n, L, i) = p[i]
    BY <1>1 DEF Rung
  <2>4. a \in 1 .. n + 1 /\ b \in a .. n + 1
    BY <1>1, <2>1
  <2> HIDE DEF a, b
  <2>5. A[a] = A[b]
    BY <2>2, <2>4, BetweenRungs
  <2> QED
    BY <2>3, <2>5 DEF b
<1> QED
  BY <1>2, <1>6, <1>7

LEMMA LaddersAgree ==
  ASSUME NEW A, NEW n, NEW p, NEW L, NEW e, IsLadder(A, n, p, L, e),
         NEW B, NEW m, NEW q, IsLadder(B, m, q, L, e), A[n + 1] = B[m + 1]
  PROVE  A[1] = B[1]
<1> DEFINE a(i) == A[Rung(p, n, L, i)]
           b(i) == B[Rung(q, m, L, i)]
           Apart == {h \in 0 .. L : a((L + 1) - h) # b((L + 1) - h)}
<1>1. L \in Nat
  BY DEF IsLadder
<1>2. a(1) = A[1] /\ b(1) = B[1]
  BY RungToRung
<1>3. a(L + 1) = b(L + 1)
  BY RungToRung
<1>4. \A i \in 1 .. L : a(i) = Times(a(i + 1), e[i]) /\ b(i) = Times(b(i + 1), e[i])
  BY RungToRung
<1> HIDE DEF a, b
<1>5. Apart = {}
  <2> SUFFICES ASSUME Apart # {} PROVE FALSE
    OBVIOUS
  <2>1. PICK h \in Apart : \A k \in Apart : h <= k
    <3>1. Apart \subseteq Nat
      OBVIOUS
    <3> HIDE DEF Apart
    <3> QED
      BY <3>1, SmallestIndex
  <2> DEFINE i == (L + 1) - h
  <2>2. h \in 0 .. L /\ a(i) # b(i)
    BY <2>1
  <2>3. h # 0
    <3>1. (L + 1) - 0 = L + 1
      BY <1>1
    <3> QED
      BY <1>3, <2>2, <3>1
  <2>4. h - 1 \in 0 .. L /\ ~(h <= h - 1) /\ (L + 1) - (h - 1) = i + 1 /\ i \in 1 .. L
    BY <1>1, <2>2, <2>3
  <2>5. a((L + 1) - (h - 1)) = b((L + 1) - (h - 1))
    <3>1. h - 1 \notin Apart
      <4> HIDE DEF Apart
      <4> QED
        BY <2>1, <2>4
    <3> QED
      BY <2>4, <3>1
  <2> HIDE DEF i
  <2> QED
    BY <1>4, <2>2, <2>4, <2>5
<1>6. L \in 0 .. L /\ (L + 1) - L = 1
  BY <1>1
<1>7. L \notin Apart
  BY <1>5
<1> QED
  BY <1>2, <1>6, <1>7

-----------------------------------------------------------------------------
(* A sound rig and a sound map.                                            *)

Sound(r) == IsBuilt(r) /\ DuplicateJoints(r.map) = {} /\ IsTopologicallyOrdered(r.skeleton)

LEMMA OneBoneEach ==
  ASSUME NEW r, Sound(r), NEW a \in Bones, NEW b \in Bones, r.map[a] = r.map[b], r.map[a] # 0
  PROVE  a = b
<1> DEFINE index == r.map[a]
           S == {bone \in Bones : r.map[bone] = index}
<1>1. r.map \in [Bones -> Nat] /\ DuplicateJoints(r.map) = {}
  BY DEF Sound, IsBuilt
<1>2. index \in Range(r.map) \ {0}
  BY <1>1 DEF Range
<1>3. ~(Cardinality(S) > 1)
  <2>1. index \notin DuplicateJoints(r.map)
    BY <1>1
  <2> HIDE DEF index
  <2> QED
    BY <1>2, <2>1 DEF DuplicateJoints
<1>4. IsFiniteSet(S)
  <2>1. S \subseteq Bones
    OBVIOUS
  <2> HIDE DEF S
  <2> QED
    BY <2>1, BonesAreFinite, FS_Subset
<1>5. a \in S /\ b \in S
  OBVIOUS
<1> HIDE DEF S
<1>6. SUFFICES ASSUME a # b PROVE FALSE
  OBVIOUS
<1>7. IsFiniteSet({a}) /\ Cardinality({a}) = 1
  BY FS_Singleton
<1>8. IsFiniteSet({a} \cup {b}) /\ Cardinality({a} \cup {b}) = 2
  <2> DEFINE T == {a}
  <2>1. b \notin T /\ IsFiniteSet(T) /\ Cardinality(T) = 1
    BY <1>6, <1>7
  <2> HIDE DEF T
  <2>2. IsFiniteSet(T \cup {b}) /\ Cardinality(T \cup {b}) = Cardinality(T) + 1
    BY <2>1, FS_AddElement
  <2> QED
    BY <2>1, <2>2 DEF T
<1>9. {a} \cup {b} \subseteq S
  BY <1>5
<1>10. 2 <= Cardinality(S)
  BY <1>4, <1>8, <1>9, FS_Subset
<1>11. Cardinality(S) \in Nat
  BY <1>4, FS_CardinalityType
<1> QED
  BY <1>3, <1>10, <1>11

LEMMA ClimbsDown ==
  ASSUME NEW parents, NEW from \in DOMAIN parents, NEW n, ClimbsOut(parents, parents[from], n)
  PROVE  ClimbsOut(parents, from, n + 1)
<1>1. At(parents, from, 0) = from /\ At(parents, from, 0 + 1) = Up(parents, At(parents, from, 0))
  BY AtSteps
<1>2. At(parents, from, 1) = parents[from]
  BY <1>1 DEF Up
<1>3. ASSUME NEW k \in Nat PROVE At(parents, from, k + 1) = At(parents, parents[from], k)
  <2>1. At(parents, At(parents, from, 1), k) = At(parents, from, 1 + k)
    BY AtGoesOn
  <2>2. 1 + k = k + 1
    OBVIOUS
  <2> QED
    BY <1>2, <2>1, <2>2
<1>4. n \in Nat /\ At(parents, parents[from], n) \notin DOMAIN parents
      /\ \A k \in 0 .. n - 1 : At(parents, parents[from], k) \in DOMAIN parents
  BY DEF ClimbsOut
<1>5. ASSUME NEW k \in 0 .. (n + 1) - 1 PROVE At(parents, from, k) \in DOMAIN parents
  <2>1. CASE k = 0
    BY <1>1, <2>1
  <2>2. CASE k # 0
    <3>1. k - 1 \in 0 .. n - 1 /\ k - 1 \in Nat /\ (k - 1) + 1 = k
      BY <1>4, <2>2
    <3>2. At(parents, from, (k - 1) + 1) = At(parents, parents[from], k - 1)
      BY <1>3, <3>1
    <3> QED
      BY <1>4, <3>1, <3>2
  <2> QED
    BY <2>1, <2>2
<1> QED
  BY <1>3, <1>4, <1>5 DEF ClimbsOut

LEMMA RigClimbsOut ==
  ASSUME NEW skeleton, IsSequence(skeleton), IsTopologicallyOrdered(skeleton), NEW j \in DOMAIN skeleton
  PROVE  \E n \in 1 .. j : ClimbsOut(skeleton, j, n)
<1> DEFINE Stuck == {i \in DOMAIN skeleton : ~ \E n \in 1 .. i : ClimbsOut(skeleton, i, n)}
<1>1. Len(skeleton) \in Nat /\ DOMAIN skeleton = 1 .. Len(skeleton)
      /\ \A i \in DOMAIN skeleton : skeleton[i] \in 0 .. i - 1
  BY SequenceOver DEF IsTopologicallyOrdered
<1>2. SUFFICES ASSUME Stuck # {} PROVE FALSE
  OBVIOUS
<1>3. PICK i \in Stuck : \A k \in Stuck : i <= k
  <2>1. Stuck \subseteq Nat
    BY <1>1
  <2> HIDE DEF Stuck
  <2> QED
    BY <1>2, <2>1, SmallestIndex
<1>4. i \in DOMAIN skeleton /\ i \in Nat \ {0} /\ skeleton[i] \in 0 .. i - 1
  BY <1>1, <1>3
<1>5. CASE skeleton[i] = 0
  <2>1. ClimbsOut(skeleton, 0, 0)
    <3>1. 0 \notin DOMAIN skeleton /\ At(skeleton, 0, 0) = 0
      BY <1>1, AtSteps
    <3> QED
      BY <3>1 DEF ClimbsOut
  <2>2. ClimbsOut(skeleton, i, 0 + 1)
    BY <1>4, <1>5, <2>1, ClimbsDown
  <2>3. 1 \in 1 .. i /\ 0 + 1 = 1
    BY <1>4
  <2> QED
    BY <1>3, <2>2, <2>3
<1>6. CASE skeleton[i] # 0
  <2> DEFINE k == skeleton[i]
  <2>1. k \in DOMAIN skeleton /\ ~(i <= k) /\ k \in Nat
    BY <1>1, <1>4, <1>6
  <2>2. PICK n \in 1 .. k : ClimbsOut(skeleton, k, n)
    <3>1. k \notin Stuck
      <4> HIDE DEF k, Stuck
      <4> QED
        BY <1>3, <2>1
    <3> QED
      BY <2>1, <3>1
  <2>3. ClimbsOut(skeleton, i, n + 1)
    BY <1>4, <2>2, ClimbsDown
  <2>4. n + 1 \in 1 .. i
    BY <1>4, <2>1, <2>2
  <2> QED
    BY <1>3, <2>3, <2>4
<1> QED
  BY <1>5, <1>6

(* What rests come to along any way up are words.                          *)
LEMMA SourceWorldRestIsAWord ==
  ASSUME NEW rest, DOMAIN rest = Bones, NEW x
  PROVE  /\ IsWord(SourceWorldRest(rest, x))
         /\ SourceWorldRest(rest, x) = Total(rest, x, Len(Vocabulary), [b \in Bones |-> SourceRest(b)])
<1> DEFINE rests == [b \in Bones |-> SourceRest(b)]
<1>1. \A b \in Bones : rests[b] = SourceRest(b) /\ IsWord(rests[b])
  BY TurnIsAWord DEF SourceRest
<1>2. SourceWorldRest(rest, x) = Composed(Reverse(SourceChain(rest, x)), rests)
  BY DEF SourceWorldRest
<1>3. SourceWorldRest(rest, x) = Total(rest, x, Len(Vocabulary), rests)
  BY <1>2 DEF Total, SourceChain
<1> HIDE DEF rests
<1>4. CASE x \in Bones
  <2> DEFINE C == SourceChain(rest, x)
             R == Reverse(C)
  <2>1. PICK m \in 1 .. Len(Vocabulary) : ChainIs(rest, x, C, m)
    BY <1>4, ChainLists
  <2>2. m \in Nat /\ Len(C) = m /\ \A k \in 1 .. m : C[k] \in Bones
    BY <2>1, VocabularyIsAList DEF ChainIs
  <2> HIDE DEF C
  <2>3. R = [i \in 1 .. m |-> C[(m - i) + 1]]
    BY <2>2 DEF Reverse
  <2> HIDE DEF R
  <2>4. R = [i \in 1 .. m |-> R[i]] /\ \A i \in 1 .. m : R[i] = C[(m - i) + 1]
    BY <2>3
  <2>5. Len(R) = m
    BY <2>2, <2>4, ListIsASequence
  <2>6. \A i \in 1 .. m : (m - i) + 1 \in 1 .. m
    BY <2>2
  <2>7. \A i \in 1 .. m : IsWord(rests[R[i]])
    BY <1>1, <2>2, <2>4, <2>6
  <2>8. Turns(R, rests)
    BY <2>2, <2>5, <2>7 DEF Turns
  <2> QED
    BY <1>2, <1>3, <2>8, ComposedIsAWord DEF R, C, rests
<1>5. CASE x \notin Bones
  <2>1. ClimbsOut(rest, x, 0)
    <3>1. At(rest, x, 0) = x
      BY AtSteps
    <3> QED
      BY <1>5, <3>1 DEF ClimbsOut
  <2>2. Len(Vocabulary) \in Nat /\ 0 <= Len(Vocabulary)
    BY VocabularyIsAList
  <2>3. \A b \in DOMAIN rest : IsWord(rests[b])
    BY <1>1
  <2>4. IsWord(Total(rest, x, Len(Vocabulary), rests))
    BY <2>1, <2>2, <2>3, TotalSteps
  <2> QED
    BY <1>3, <2>4 DEF rests
<1> QED
  BY <1>4, <1>5

(* Every joint and the place above a root climbs out.                      *)
LEMMA RigWay ==
  ASSUME NEW r, Sound(r), NEW j \in DOMAIN r.skeleton
  PROVE  /\ Len(r.skeleton) \in Nat /\ 0 \notin DOMAIN r.skeleton
         /\ \E n \in Nat : n <= Len(r.skeleton) /\ ClimbsOut(r.skeleton, j, n)
         /\ \E n \in Nat : n <= Len(r.skeleton) /\ ClimbsOut(r.skeleton, r.skeleton[j], n)
<1>1. IsSequence(r.skeleton) /\ IsTopologicallyOrdered(r.skeleton)
  BY DEF Sound, IsBuilt
<1>2. Len(r.skeleton) \in Nat /\ DOMAIN r.skeleton = 1 .. Len(r.skeleton)
  BY <1>1, SequenceOver
<1>3. PICK n \in 1 .. j : ClimbsOut(r.skeleton, j, n)
  BY <1>1, RigClimbsOut
<1>4. n \in Nat \ {0} /\ n <= Len(r.skeleton) /\ n - 1 <= Len(r.skeleton) /\ n - 1 \in Nat
  BY <1>2, <1>3
<1>5. ClimbsOut(r.skeleton, r.skeleton[j], n - 1)
  BY <1>3, ClimbsUp
<1> QED
  BY <1>2, <1>3, <1>4, <1>5

-----------------------------------------------------------------------------
(* What joints are given.                                                  *)

LEMMA MaxIsAmong ==
  ASSUME NEW n \in Nat, NEW S, S \subseteq 1 .. n, S # {}
  PROVE  Max(S) \in S
<1> DEFINE T == {n - x : x \in S}
<1>1. PICK t \in T : \A u \in T : t <= u
  <2>1. T \subseteq Nat
    OBVIOUS
  <2>2. PICK y \in S : TRUE
    OBVIOUS
  <2>3. n - y \in T
    OBVIOUS
  <2> HIDE DEF T
  <2> QED
    BY <2>1, <2>3, SmallestIndex
<1>2. PICK x \in S : t = n - x
  BY <1>1
<1>3. \A y \in S : x >= y
  <2> SUFFICES ASSUME NEW y \in S PROVE x >= y
    OBVIOUS
  <2>1. n - y \in T
    OBVIOUS
  <2>2. n - x <= n - y
    BY <1>1, <1>2, <2>1
  <2>3. x \in Nat /\ y \in Nat
    BY <1>2
  <2> QED
    BY <2>2, <2>3
<1>4. Max(S) = CHOOSE z \in S : \A y \in S : z >= y
  BY DEF Max
<1> DEFINE most == CHOOSE z \in S : \A y \in S : z >= y
<1>5. most \in S
  BY <1>2, <1>3
<1> QED
  BY <1>4, <1>5

LEMMA TargetWorldRestIs ==
  ASSUME NEW r, Sound(r), NEW j \in DOMAIN r.skeleton
  PROVE  /\ IsWord(TargetWorldRest(r, j)) /\ IsWord(TargetWorldRest(r, r.skeleton[j]))
         /\ TargetWorldRest(r, j) = Times(TargetWorldRest(r, r.skeleton[j]), ReferenceRest(r, j))
         /\ IsWord(ReferenceRest(r, j)) /\ IsWord(TargetRest(j))
<1> DEFINE rests == [i \in DOMAIN r.skeleton |-> ReferenceRest(r, i)]
           count == Len(r.skeleton)
<1>1. \A i \in DOMAIN r.skeleton : /\ rests[i] = ReferenceRest(r, i) /\ IsWord(rests[i])
                                   /\ IsWord(TargetRest(i))
  BY TurnIsAWord DEF ReferenceRest, TargetRest
<1>2. \A x : TargetWorldRest(r, x) = Total(r.skeleton, x, count, rests)
  BY DEF TargetWorldRest, Total, RigChain
<1>3. PICK n \in Nat : n <= count /\ ClimbsOut(r.skeleton, j, n)
  BY RigWay
<1>4. PICK m \in Nat : m <= count /\ ClimbsOut(r.skeleton, r.skeleton[j], m)
  BY RigWay
<1>5. count \in Nat
  BY RigWay
<1> HIDE DEF rests, count
<1>6. /\ IsWord(Total(r.skeleton, j, count, rests))
      /\ Total(r.skeleton, j, count, rests) = Times(Total(r.skeleton, r.skeleton[j], count, rests), rests[j])
  BY <1>1, <1>3, <1>5, TotalSteps
<1>7. IsWord(Total(r.skeleton, r.skeleton[j], count, rests))
  BY <1>1, <1>4, <1>5, TotalSteps
<1> QED
  BY <1>1, <1>2, <1>6, <1>7

(* What a bone turns beyond its rest, in the world its parent's rest is in.*)
SourceStep(r, bone, f) == Beyond(SourceWorldRest(r.rest, r.rest[bone]), f, SourceRest(bone))

LEMMA CorrectedTurns ==
  ASSUME NEW r, Sound(r), NEW bone \in Bones, r.map[bone] \in DOMAIN r.skeleton,
         NEW f, IsWord(f), NEW U, IsWord(U)
  PROVE  /\ IsWord(Corrected(r, bone, f))
         /\ Times(Times(U, Corrected(r, bone, f)), Inverted(TargetWorldRest(r, r.map[bone])))
              = Times(Times(U, Inverted(TargetWorldRest(r, r.skeleton[r.map[bone]]))), SourceStep(r, bone, f))
<1> DEFINE j == r.map[bone]
           A == TargetWorldRest(r, r.skeleton[j])
           R == ReferenceRest(r, j)
           S == SourceWorldRest(r.rest, r.rest[bone])
           s == SourceRest(bone)
           turn == Times(Times(Times(Inverted(A), S), f), Times(Times(Inverted(s), Inverted(S)), Times(A, R)))
<1>1. IsWord(A) /\ IsWord(R) /\ TargetWorldRest(r, j) = Times(A, R)
  BY TargetWorldRestIs
<1>2. IsWord(S)
  <2>1. DOMAIN r.rest = Bones
    BY DEF Sound, IsBuilt
  <2> QED
    BY <2>1, SourceWorldRestIsAWord
<1>3. IsWord(s)
  BY TurnIsAWord DEF SourceRest
<1>4. Corrected(r, bone, f) = turn
  BY Zenon DEF Corrected
<1>5. SourceStep(r, bone, f) = Beyond(S, f, s)
  BY DEF SourceStep
<1> HIDE DEF A, R, S, s, j
<1>6. /\ IsWord(turn)
      /\ Times(Times(U, turn), Inverted(Times(A, R))) = Times(Times(U, Inverted(A)), Beyond(S, f, s))
  BY <1>1, <1>2, <1>3, TargetTurnsOn
<1> HIDE DEF turn
<1> QED
  BY <1>1, <1>4, <1>5, <1>6 DEF A, j

LEMMA RestTurnsNothing ==
  ASSUME NEW r, Sound(r), NEW j \in DOMAIN r.skeleton, ReferenceRest(r, j) = TargetRest(j), NEW U, IsWord(U)
  PROVE  Times(Times(U, TargetRest(j)), Inverted(TargetWorldRest(r, j)))
           = Times(U, Inverted(TargetWorldRest(r, r.skeleton[j])))
<1> DEFINE A == TargetWorldRest(r, r.skeleton[j])
           R == ReferenceRest(r, j)
           I == Identity
<1>1. IsWord(A) /\ IsWord(R) /\ TargetWorldRest(r, j) = Times(A, R)
  BY TargetWorldRestIs
<1>2. IsWord(I)
  BY IdentityIsAWord
<1> HIDE DEF A, R, I
<1>3. Times(Times(U, R), Inverted(Times(A, R))) = Times(U, Inverted(A))
  BY <1>1, <1>2, TargetTurnsOn
<1> QED
  BY <1>1, <1>3 DEF A, R

(* A joint has what the bone that drives it asks for, or the rig's rest.   *)
LEMMA RotationsAre ==
  ASSUME NEW r, Sound(r), NEW F, IsPose(F), NEW j \in DOMAIN r.skeleton
  PROVE  /\ \A b \in F.valid : r.map[b] = j => Rotations(r, F)[j] = Corrected(r, b, Held(F, b))
         /\ (\A b \in F.valid : r.map[b] # j) => Rotations(r, F)[j] = TargetRest(j)
         /\ IsWord(Rotations(r, F)[j])
<1> DEFINE driving == {i \in DOMAIN Vocabulary : Vocabulary[i] \in F.valid /\ r.map[Vocabulary[i]] = j}
           driver == Vocabulary[Max(driving)]
<1>1. Rotations(r, F)[j] = IF driving = {} THEN TargetRest(j) ELSE Corrected(r, driver, F.rotations[driver])
  BY DEF Rotations
<1>2. /\ F.valid \subseteq Bones /\ \A b \in Bones : IsWord(F.rotations[b])
      /\ \A b \in F.valid : Held(F, b) = F.rotations[b]
  BY DEF IsPose, Held
<1>3. DOMAIN Vocabulary = 1 .. Len(Vocabulary) /\ Len(Vocabulary) \in Nat
  BY VocabularyIsAList, SequenceOver
<1>4. \A b \in F.valid : r.map[b] = j => driving # {}
  <2> SUFFICES ASSUME NEW b \in F.valid, r.map[b] = j PROVE driving # {}
    OBVIOUS
  <2>1. PICK i \in DOMAIN Vocabulary : Vocabulary[i] = b
    BY <1>2 DEF Bones, Range
  <2>2. i \in driving
    BY <2>1
  <2> QED
    BY <2>2
<1>5. driving # {} => driver \in F.valid /\ r.map[driver] = j
  <2> SUFFICES ASSUME driving # {} PROVE Max(driving) \in driving
    OBVIOUS
  <2>1. driving \subseteq 1 .. Len(Vocabulary)
    BY <1>3
  <2> HIDE DEF driving
  <2> QED
    BY <1>3, <2>1, MaxIsAmong
<1> HIDE DEF driver, driving
<1>6. CASE driving = {}
  <2>1. \A b \in F.valid : r.map[b] # j
    BY <1>4, <1>6
  <2>2. Rotations(r, F)[j] = TargetRest(j) /\ IsWord(TargetRest(j))
    BY <1>1, <1>6, TurnIsAWord DEF TargetRest
  <2> QED
    BY <2>1, <2>2
<1>7. CASE driving # {}
  <2>1. driver \in F.valid /\ driver \in Bones /\ r.map[driver] = j
    BY <1>2, <1>5, <1>7
  <2>2. Rotations(r, F)[j] = Corrected(r, driver, Held(F, driver)) /\ IsWord(Held(F, driver))
    BY <1>1, <1>2, <1>7, <2>1
  <2>3. IsWord(Rotations(r, F)[j])
    BY <2>1, <2>2, CorrectedTurns, IdentityIsAWord
  <2>4. ASSUME NEW b \in F.valid, r.map[b] = j PROVE b = driver
    <3>1. b \in Bones /\ r.map[b] # 0
      BY <1>2, <2>4, RigWay
    <3> QED
      BY <2>1, <2>4, <3>1, OneBoneEach
  <2>5. \A b \in F.valid : r.map[b] = j => Rotations(r, F)[j] = Corrected(r, b, Held(F, b))
    BY <2>2, <2>4
  <2> QED
    BY <2>1, <2>3, <2>5
<1> QED
  BY <1>6, <1>7

-----------------------------------------------------------------------------
(* What orientations have turned from rest, up the two ways.               *)

Turned(parents, from, count, now, rests) ==
  Times(Total(parents, from, count, now), Inverted(Total(parents, from, count, rests)))

LEMMA TurnedIs ==
  ASSUME NEW parents, NEW from, NEW n, ClimbsOut(parents, from, n), NEW count \in Nat, n <= count,
         NEW now, \A x \in DOMAIN parents : IsWord(now[x]),
         NEW rests, \A x \in DOMAIN parents : IsWord(rests[x])
  PROVE  /\ IsWord(Turned(parents, from, count, now, rests))
         /\ from \notin DOMAIN parents => Turned(parents, from, count, now, rests) = Identity
<1>1. /\ IsWord(Total(parents, from, count, now)) /\ IsWord(Total(parents, from, count, rests))
      /\ from \notin DOMAIN parents => /\ Total(parents, from, count, now) = Identity
                                       /\ Total(parents, from, count, rests) = Identity
  BY TotalSteps
<1>2. IsWord(Inverted(Total(parents, from, count, rests)))
  BY <1>1, InvertedUndoes
<1>3. IsWord(Identity) /\ Times(Identity, Inverted(Identity)) = Identity
  BY IdentityIsAWord, InvertedUndoes
<1> QED
  BY <1>1, <1>2, <1>3, TimesIsAWord DEF Turned

SourceRests == [b \in Bones |-> SourceRest(b)]

SourceTurned(r, F, x) == Turned(r.rest, x, Len(Vocabulary), HeldBy(F), SourceRests)

LEMMA SourceTurnsUp ==
  ASSUME NEW r, DOMAIN r.rest = Bones, NEW F, IsPose(F), NEW x, NEW n \in Nat, Ends(r.rest, x, n)
  PROVE  /\ IsWord(SourceTurned(r, F, x))
         /\ x \notin Bones => SourceTurned(r, F, x) = Identity
         /\ x \in Bones =>
              SourceTurned(r, F, x) = Times(SourceTurned(r, F, r.rest[x]), SourceStep(r, x, Held(F, x)))
<1> DEFINE rest == r.rest
           N == Len(Vocabulary)
           now == HeldBy(F)
           rests == SourceRests
<1>1. /\ N \in Nat /\ n <= N /\ ClimbsOut(rest, x, n) /\ DOMAIN rest = Bones
  BY VocabularyIsAList DEF Ends
<1>2. \A b \in Bones : now[b] = Held(F, b) /\ IsWord(now[b]) /\ rests[b] = SourceRest(b) /\ IsWord(rests[b])
  BY HeldIsAWord DEF HeldBy, SourceRests
<1> HIDE DEF now, rests, N, rest
<1>3. /\ IsWord(Turned(rest, x, N, now, rests))
      /\ x \notin Bones => Turned(rest, x, N, now, rests) = Identity
  BY <1>1, <1>2, TurnedIs
<1>4. ASSUME x \in Bones
      PROVE  Turned(rest, x, N, now, rests)
               = Times(Turned(rest, rest[x], N, now, rests),
                       Beyond(Total(rest, rest[x], N, rests), Held(F, x), SourceRest(x)))
  <2> DEFINE T == Total(rest, rest[x], N, now)
             S == Total(rest, rest[x], N, rests)
  <2>1. /\ Total(rest, x, N, now) = Times(T, now[x])
        /\ Total(rest, x, N, rests) = Times(S, rests[x])
    BY <1>1, <1>2, <1>4, TotalSteps
  <2>2. ClimbsOut(rest, rest[x], n - 1) /\ n - 1 <= N
    BY <1>1, <1>4, ClimbsUp
  <2>3. IsWord(T) /\ IsWord(S)
    BY <1>1, <1>2, <2>2, TotalSteps
  <2>4. Turned(rest, rest[x], N, now, rests) = Times(T, Inverted(S))
    BY DEF Turned
  <2>5. Turned(rest, x, N, now, rests) = Times(Times(T, now[x]), Inverted(Times(S, rests[x])))
    BY <2>1 DEF Turned
  <2> HIDE DEF T, S
  <2>6. Times(Times(T, now[x]), Inverted(Times(S, rests[x])))
          = Times(Times(T, Inverted(S)), Beyond(S, now[x], rests[x]))
    BY <1>2, <1>4, <2>3, SourceTurnsOn
  <2> QED
    BY <1>2, <1>4, <2>4, <2>5, <2>6 DEF S
<1>5. SourceStep(r, x, Held(F, x)) = Beyond(Total(rest, rest[x], N, rests), Held(F, x), SourceRest(x))
  <2>1. SourceWorldRest(rest, rest[x]) = Total(rest, rest[x], N, rests)
    BY <1>1, SourceWorldRestIsAWord DEF SourceRests, rests, N
  <2> QED
    BY <2>1 DEF SourceStep, rest
<1> QED
  BY <1>3, <1>4, <1>5 DEF SourceTurned, rest, N, now, rests

ReferenceRests(r) == [j \in DOMAIN r.skeleton |-> ReferenceRest(r, j)]

TargetTurned(r, F, j) == Turned(r.skeleton, j, Len(r.skeleton), Rotations(r, F), ReferenceRests(r))

TargetTurnsFrom(r, F, x) ==
  /\ IsWord(TargetTurned(r, F, x))
  /\ x \notin DOMAIN r.skeleton => TargetTurned(r, F, x) = Identity
  /\ x \in DOMAIN r.skeleton =>
       /\ \A b \in F.valid : r.map[b] = x =>
            TargetTurned(r, F, x) = Times(TargetTurned(r, F, r.skeleton[x]), SourceStep(r, b, Held(F, b)))
       /\ (\A b \in F.valid : r.map[b] # x) /\ ReferenceRest(r, x) = TargetRest(x) =>
            TargetTurned(r, F, x) = TargetTurned(r, F, r.skeleton[x])

LEMMA TargetTurnsUp ==
  ASSUME NEW r, Sound(r), NEW F, IsPose(F),
         NEW x, NEW n \in Nat, n <= Len(r.skeleton), ClimbsOut(r.skeleton, x, n)
  PROVE  TargetTurnsFrom(r, F, x)
<1> DEFINE skeleton == r.skeleton
           N == Len(skeleton)
           now == Rotations(r, F)
           rests == ReferenceRests(r)
<1>1. N \in Nat /\ n <= N /\ ClimbsOut(skeleton, x, n)
  <2>1. IsSequence(skeleton)
    BY DEF Sound, IsBuilt
  <2> QED
    BY <2>1, SequenceOver
<1>2. \A j \in DOMAIN skeleton : IsWord(now[j]) /\ IsWord(rests[j])
  <2> SUFFICES ASSUME NEW j \in DOMAIN skeleton PROVE IsWord(now[j]) /\ IsWord(rests[j])
    OBVIOUS
  <2>1. IsWord(now[j])
    BY RotationsAre
  <2>2. IsWord(rests[j])
    BY TargetWorldRestIs DEF ReferenceRests
  <2> QED
    BY <2>1, <2>2
<1>3. \A j : TargetWorldRest(r, j) = Total(skeleton, j, N, rests)
  BY DEF TargetWorldRest, Total, RigChain, ReferenceRests
<1> HIDE DEF now, rests, N, skeleton
<1>4. /\ IsWord(Turned(skeleton, x, N, now, rests))
      /\ x \notin DOMAIN skeleton => Turned(skeleton, x, N, now, rests) = Identity
  BY <1>1, <1>2, TurnedIs
<1>5. ASSUME x \in DOMAIN skeleton
      PROVE  /\ \A b \in F.valid : r.map[b] = x =>
                  Turned(skeleton, x, N, now, rests)
                    = Times(Turned(skeleton, skeleton[x], N, now, rests), SourceStep(r, b, Held(F, b)))
             /\ (\A b \in F.valid : r.map[b] # x) /\ ReferenceRest(r, x) = TargetRest(x) =>
                  Turned(skeleton, x, N, now, rests) = Turned(skeleton, skeleton[x], N, now, rests)
  <2> DEFINE U == Total(skeleton, skeleton[x], N, now)
  <2>1. Total(skeleton, x, N, now) = Times(U, now[x])
    BY <1>1, <1>2, <1>5, TotalSteps
  <2>2. ClimbsOut(skeleton, skeleton[x], n - 1) /\ n - 1 <= N
    BY <1>1, <1>5, ClimbsUp
  <2>3. IsWord(U)
    BY <1>1, <1>2, <2>2, TotalSteps
  <2>4. Turned(skeleton, x, N, now, rests) = Times(Times(U, now[x]), Inverted(TargetWorldRest(r, x)))
    BY <1>3, <2>1 DEF Turned
  <2>5. Turned(skeleton, skeleton[x], N, now, rests) = Times(U, Inverted(TargetWorldRest(r, skeleton[x])))
    BY <1>3 DEF Turned
  <2> HIDE DEF U
  <2>6. /\ \A b \in F.valid : r.map[b] = x => now[x] = Corrected(r, b, Held(F, b))
        /\ (\A b \in F.valid : r.map[b] # x) => now[x] = TargetRest(x)
    BY <1>5, RotationsAre DEF now, skeleton
  <2>7. ASSUME NEW b \in F.valid, r.map[b] = x
        PROVE  Turned(skeleton, x, N, now, rests)
                 = Times(Turned(skeleton, skeleton[x], N, now, rests), SourceStep(r, b, Held(F, b)))
    <3>1. b \in Bones /\ IsWord(Held(F, b))
      <4>1. b \in Bones
        BY DEF IsPose
      <4> QED
        BY <4>1, HeldIsAWord
    <3> DEFINE f == Held(F, b)
    <3> HIDE DEF f
    <3>2. r.map[b] \in DOMAIN r.skeleton /\ IsWord(f) /\ b \in Bones
      BY <1>5, <2>7, <3>1 DEF skeleton, f
    <3>3. Times(Times(U, Corrected(r, b, f)), Inverted(TargetWorldRest(r, r.map[b])))
            = Times(Times(U, Inverted(TargetWorldRest(r, r.skeleton[r.map[b]]))), SourceStep(r, b, f))
      BY <2>3, <3>2, CorrectedTurns
    <3> QED
      BY <2>4, <2>5, <2>6, <2>7, <3>3 DEF f, skeleton
  <2>8. ASSUME \A b \in F.valid : r.map[b] # x, ReferenceRest(r, x) = TargetRest(x)
        PROVE  Turned(skeleton, x, N, now, rests) = Turned(skeleton, skeleton[x], N, now, rests)
    <3>1. Times(Times(U, TargetRest(x)), Inverted(TargetWorldRest(r, x)))
            = Times(U, Inverted(TargetWorldRest(r, r.skeleton[x])))
      BY <1>5, <2>3, <2>8, RestTurnsNothing DEF skeleton
    <3> QED
      BY <2>4, <2>5, <2>6, <2>8, <3>1 DEF skeleton
  <2> QED
    BY <2>7, <2>8
<1> QED
  BY <1>4, <1>5 DEF TargetTurnsFrom, TargetTurned, skeleton, N, now, rests

LEMMA SourceStepIs ==
  ASSUME NEW r, DOMAIN r.rest = Bones, NEW F, IsPose(F), NEW b \in Bones
  PROVE  Held(F, b) = SourceRest(b) => SourceStep(r, b, Held(F, b)) = Identity
<1>1. IsWord(Held(F, b)) /\ IsWord(SourceRest(b)) /\ IsWord(SourceWorldRest(r.rest, r.rest[b]))
  BY HeldIsAWord, SourceWorldRestIsAWord
<1> QED
  BY <1>1, BeyondIsAWord DEF SourceStep

(* The kept places of a list, in order.                                    *)
KeepsAt(seq, kept, L, p) ==
  /\ L \in Nat /\ p \in [1 .. L -> DOMAIN seq] /\ DOMAIN Only(seq, kept) = 1 .. L
  /\ \A i \in 1 .. L : Only(seq, kept)[i] = seq[p[i]] /\ seq[p[i]] \in kept
  /\ \A i, k \in 1 .. L : i < k => p[i] < p[k]
  /\ \A k \in DOMAIN seq : (\A i \in 1 .. L : p[i] # k) => seq[k] \notin kept

LEMMA KeepsSomewhere ==
  ASSUME NEW seq, IsSequence(seq), NEW kept
  PROVE  \E L, p : KeepsAt(seq, kept, L, p)
<1>1. PICK L \in Nat, p \in [1 .. Len(Only(seq, kept)) -> Kept(seq, kept)] :
        /\ L = Len(Only(seq, kept)) /\ DOMAIN Only(seq, kept) = 1 .. L
        /\ \A k \in 1 .. L : Only(seq, kept)[k] = seq[p[k]]
        /\ \A i \in Kept(seq, kept) : \E k \in 1 .. L : p[k] = i
        /\ \A k, l \in 1 .. L : k < l => p[k] < p[l]
  BY OnlyKeeps
<1>2. p \in [1 .. L -> Kept(seq, kept)]
  BY <1>1
<1>3. p \in [1 .. L -> DOMAIN seq] /\ \A i \in 1 .. L : seq[p[i]] \in kept
  BY <1>2 DEF Kept
<1>4. \A k \in DOMAIN seq : (\A i \in 1 .. L : p[i] # k) => seq[k] \notin kept
  BY <1>1 DEF Kept
<1>5. KeepsAt(seq, kept, L, p)
  BY <1>1, <1>3, <1>4 DEF KeepsAt
<1> QED
  BY <1>5

SourceWay(r, F, bone, n) == [k \in 1 .. n + 1 |-> SourceTurned(r, F, At(r.rest, bone, k - 1))]

SourceTurns(r, F, bone, L, p) ==
  [i \in 1 .. L |-> SourceStep(r, SourceChain(r.rest, bone)[p[i]], Held(F, SourceChain(r.rest, bone)[p[i]]))]

TargetWay(r, F, joint, m) == [k \in 1 .. m + 1 |-> TargetTurned(r, F, At(r.skeleton, joint, k - 1))]

RestsWithoutAJoint(r, F, bone) ==
  \A b \in Range(SourceChain(r.rest, bone)) : Bound(r, b) \/ Held(F, b) = SourceRest(b)

(* A joint with a rest of its own to be corrected to is driven.            *)
ReferencesAreDriven(r, F, joint) ==
  \A j \in Range(RigChain(r.skeleton, joint)) :
    j \in r.options.reference => \E b \in Bones : r.map[b] = j /\ b \in F.valid

(* Bones that answer to the joints at these places of a rig's chain.       *)
Answers(r, joint, L, q, drives) ==
  \A i \in 1 .. L : drives[i] \in Bones /\ r.map[drives[i]] = RigChain(r.skeleton, joint)[q[i]]

(* The way up the source, its turns the steps of the bones with a joint.   *)
LEMMA SourceLadder ==
  ASSUME NEW r, DOMAIN r.rest = Bones, NEW F, IsPose(F), NEW bone, NEW n, Ends(r.rest, bone, n),
         RestsWithoutAJoint(r, F, bone), NEW L, NEW p, KeepsAt(SourceChain(r.rest, bone), BoundBones(r), L, p)
  PROVE  /\ IsLadder(SourceWay(r, F, bone, n), n, p, L, SourceTurns(r, F, bone, L, p))
         /\ SourceWay(r, F, bone, n)[1] = SourceTurned(r, F, bone)
         /\ SourceWay(r, F, bone, n)[n + 1] = Identity
<1> DEFINE rest == r.rest
           C == SourceChain(rest, bone)
           x(k) == At(rest, bone, k)
           A == [k \in 1 .. n + 1 |-> SourceTurned(r, F, x(k - 1))]
           e == [i \in 1 .. L |-> SourceStep(r, C[p[i]], Held(F, C[p[i]]))]
<1>1. n \in Nat /\ ClimbsOut(rest, bone, n) /\ DOMAIN rest = Bones /\ Ends(rest, bone, n)
  BY DEF Ends, ClimbsOut
<1>2. IsSequence(C) /\ DOMAIN C = 1 .. n /\ \A k \in 1 .. n : C[k] = x(k - 1) /\ C[k] \in Bones
  <2>1. ChainIs(rest, bone, C, n)
    BY <1>1, EndingChain
  <2> QED
    BY <2>1 DEF ChainIs
<1>3. \A b \in Range(C) : Bound(r, b) \/ Held(F, b) = SourceRest(b)
  BY DEF RestsWithoutAJoint
<1>4. /\ L \in Nat /\ p \in [1 .. L -> 1 .. n] /\ \A i \in 1 .. L : C[p[i]] \in BoundBones(r)
      /\ \A i, k \in 1 .. L : i < k => p[i] < p[k]
      /\ \A k \in 1 .. n : (\A i \in 1 .. L : p[i] # k) => C[k] \notin BoundBones(r)
  <2> HIDE DEF C
  <2> QED
    BY <1>2 DEF KeepsAt, C
<1>5. ASSUME NEW k \in 0 .. n
      PROVE  IsWord(SourceTurned(r, F, x(k))) /\ (x(k) \notin Bones => SourceTurned(r, F, x(k)) = Identity)
             /\ (x(k) \in Bones => SourceTurned(r, F, x(k)) = Times(SourceTurned(r, F, rest[x(k)]),
                                                                   SourceStep(r, x(k), Held(F, x(k)))))
  <2>1. n - k \in Nat /\ Ends(rest, x(k), n - k)
    BY <1>1, EndsAbove
  <2> HIDE DEF x
  <2> QED
    BY <1>1, <2>1, SourceTurnsUp DEF rest
<1>6. ASSUME NEW k \in 1 .. n
      PROVE  /\ A[k] = Times(A[k + 1], SourceStep(r, C[k], Held(F, C[k]))) /\ IsWord(A[k + 1])
  <2>1. /\ k - 1 \in 0 .. n /\ k - 1 \in Nat /\ k \in 0 .. n
        /\ (k - 1) + 1 = k /\ (k + 1) - 1 = k /\ k + 1 \in 1 .. n + 1 /\ k \in 1 .. n + 1
    BY <1>1
  <2>2. x((k - 1) + 1) = Up(rest, x(k - 1))
    BY <2>1, AtSteps
  <2>3. rest[C[k]] = x(k) /\ C[k] = x(k - 1) /\ C[k] \in Bones
    BY <1>1, <1>2, <2>1, <2>2 DEF Up
  <2>4. A[k] = SourceTurned(r, F, x(k - 1)) /\ A[k + 1] = SourceTurned(r, F, x(k))
    BY <2>1
  <2> HIDE DEF A, x, C, rest
  <2>5. SourceTurned(r, F, x(k - 1))
          = Times(SourceTurned(r, F, rest[x(k - 1)]), SourceStep(r, x(k - 1), Held(F, x(k - 1))))
    BY <1>5, <2>1, <2>3
  <2>6. IsWord(SourceTurned(r, F, x(k)))
    BY <1>5, <2>1
  <2> QED
    BY <2>3, <2>4, <2>5, <2>6
<1>7. A[1] = SourceTurned(r, F, bone) /\ A[n + 1] = Identity
  <2>1. 1 \in 1 .. n + 1 /\ n + 1 \in 1 .. n + 1 /\ 1 - 1 = 0 /\ (n + 1) - 1 = n /\ n \in 0 .. n
    BY <1>1
  <2>2. x(0) = bone /\ x(n) \notin Bones
    BY <1>1, AtSteps DEF ClimbsOut
  <2>3. A[1] = SourceTurned(r, F, x(0)) /\ A[n + 1] = SourceTurned(r, F, x(n))
    BY <2>1
  <2> HIDE DEF A, x
  <2> QED
    BY <1>5, <2>1, <2>2, <2>3
<1>8. \A i \in 1 .. L : e[i] = SourceStep(r, C[p[i]], Held(F, C[p[i]]))
  OBVIOUS
<1> HIDE DEF A, e, C, x, rest
<1>9. ASSUME NEW k \in 1 .. n, \A i \in 1 .. L : p[i] # k PROVE A[k] = A[k + 1]
  <2>1. C[k] \in Bones /\ ~Bound(r, C[k])
    BY <1>2, <1>4, <1>9 DEF BoundBones
  <2>2. C[k] \in Range(C)
    BY <1>2 DEF Range
  <2>3. Held(F, C[k]) = SourceRest(C[k])
    BY <1>3, <2>1, <2>2
  <2>4. SourceStep(r, C[k], Held(F, C[k])) = Identity
    BY <1>1, <2>1, <2>3, SourceStepIs DEF rest
  <2> QED
    BY <1>6, <2>4, JoinedToIdentity
<1>10. \A i \in 1 .. L : p[i] \in 1 .. n /\ A[p[i]] = Times(A[p[i] + 1], e[i])
  <2> SUFFICES ASSUME NEW i \in 1 .. L PROVE p[i] \in 1 .. n /\ A[p[i]] = Times(A[p[i] + 1], e[i])
    OBVIOUS
  <2>1. p[i] \in 1 .. n
    BY <1>4
  <2> QED
    BY <1>6, <1>8, <2>1
<1>11. IsLadder(A, n, p, L, e)
  BY <1>1, <1>4, <1>9, <1>10 DEF IsLadder
<1> QED
  BY <1>7, <1>11 DEF A, e, C, x, rest, SourceWay, SourceTurns

(* The way up the rig, its turns the steps of the bones its joints answer  *)
(* to.                                                                     *)
LEMMA TargetLadder ==
  ASSUME NEW r, Sound(r), NEW F, IsPose(F), NEW joint \in DOMAIN r.skeleton,
         NEW m, ClimbsOut(r.skeleton, joint, m), m <= Len(r.skeleton),
         ReferencesAreDriven(r, F, joint),
         NEW L, NEW q, KeepsAt(RigChain(r.skeleton, joint), Range(r.map), L, q),
         NEW drives, Answers(r, joint, L, q, drives),
         NEW e, \A i \in 1 .. L : e[i] = SourceStep(r, drives[i], Held(F, drives[i]))
  PROVE  /\ IsLadder(TargetWay(r, F, joint, m), m, q, L, e)
         /\ TargetWay(r, F, joint, m)[1] = TargetTurned(r, F, joint)
         /\ TargetWay(r, F, joint, m)[m + 1] = Identity
<1> DEFINE skeleton == r.skeleton
           D == RigChain(skeleton, joint)
           y(k) == At(skeleton, joint, k)
           B == [k \in 1 .. m + 1 |-> TargetTurned(r, F, y(k - 1))]
<1>1. /\ m \in Nat /\ ClimbsOut(skeleton, joint, m) /\ m <= Len(skeleton) /\ Len(skeleton) \in Nat
      /\ 0 \notin DOMAIN skeleton /\ r.map \in [Bones -> Nat] /\ DOMAIN r.rest = Bones /\ F.valid \subseteq Bones
  BY RigWay DEF ClimbsOut, Sound, IsBuilt, IsPose
<1>2. IsSequence(D) /\ DOMAIN D = 1 .. m /\ \A k \in 1 .. m : D[k] = y(k - 1) /\ D[k] \in DOMAIN skeleton
  <2>1. IsSequence(D) /\ DOMAIN D = 1 .. m /\ \A k \in 1 .. m : D[k] = At(skeleton, joint, k - 1)
    BY <1>1, ClimbIs DEF RigChain
  <2>2. \A k \in 1 .. m : k - 1 \in 0 .. m - 1
    BY <1>1
  <2> QED
    BY <1>1, <2>1, <2>2 DEF ClimbsOut
<1>3. \A j \in Range(D) : j \in r.options.reference => \E b \in Bones : r.map[b] = j /\ b \in F.valid
  BY DEF ReferencesAreDriven
<1>4. /\ L \in Nat /\ q \in [1 .. L -> 1 .. m]
      /\ \A i, k \in 1 .. L : i < k => q[i] < q[k]
      /\ \A k \in 1 .. m : (\A i \in 1 .. L : q[i] # k) => D[k] \notin Range(r.map)
  <2> HIDE DEF D
  <2> QED
    BY <1>2 DEF KeepsAt, D
<1>5. ASSUME NEW k \in 0 .. m
      PROVE  \E n \in Nat : n <= Len(skeleton) /\ ClimbsOut(skeleton, y(k), n)
  <2>1. m - k \in Nat /\ m - k <= Len(skeleton)
    BY <1>1
  <2>2. ClimbsOut(skeleton, y(k), m - k)
    <3> HIDE DEF skeleton
    <3> QED
      BY <1>1, ClimbsOn
  <2> QED
    BY <2>1, <2>2
<1>6. ASSUME NEW k \in 1 .. m
      PROVE  /\ IsWord(B[k + 1])
             /\ \A b \in F.valid : r.map[b] = D[k] => B[k] = Times(B[k + 1], SourceStep(r, b, Held(F, b)))
             /\ (\A b \in F.valid : r.map[b] # D[k]) => B[k] = B[k + 1]
  <2>1. /\ k - 1 \in 0 .. m /\ k - 1 \in Nat /\ k \in 0 .. m
        /\ (k - 1) + 1 = k /\ (k + 1) - 1 = k /\ k + 1 \in 1 .. m + 1 /\ k \in 1 .. m + 1
    BY <1>1
  <2>2. y((k - 1) + 1) = Up(skeleton, y(k - 1))
    BY <2>1, AtSteps
  <2>3. skeleton[D[k]] = y(k) /\ D[k] = y(k - 1) /\ D[k] \in DOMAIN skeleton
    BY <1>1, <1>2, <2>1, <2>2 DEF Up
  <2>4. B[k] = TargetTurned(r, F, y(k - 1)) /\ B[k + 1] = TargetTurned(r, F, y(k))
    BY <2>1
  <2>5. PICK a \in Nat : a <= Len(skeleton) /\ ClimbsOut(skeleton, y(k - 1), a)
    BY <1>5, <2>1
  <2>6. PICK c \in Nat : c <= Len(skeleton) /\ ClimbsOut(skeleton, y(k), c)
    BY <1>5, <2>1
  <2> HIDE DEF B, y, D
  <2>7. IsWord(TargetTurned(r, F, y(k)))
    <3>1. TargetTurnsFrom(r, F, y(k))
      BY <2>6, TargetTurnsUp
    <3> QED
      BY <3>1 DEF TargetTurnsFrom
  <2>8. /\ \A b \in F.valid : r.map[b] = y(k - 1) =>
             TargetTurned(r, F, y(k - 1))
               = Times(TargetTurned(r, F, skeleton[y(k - 1)]), SourceStep(r, b, Held(F, b)))
        /\ (\A b \in F.valid : r.map[b] # y(k - 1)) /\ ReferenceRest(r, y(k - 1)) = TargetRest(y(k - 1)) =>
             TargetTurned(r, F, y(k - 1)) = TargetTurned(r, F, skeleton[y(k - 1)])
    <3>1. TargetTurnsFrom(r, F, y(k - 1))
      BY <2>5, TargetTurnsUp
    <3> QED
      BY <2>3, <3>1 DEF TargetTurnsFrom
  <2>9. ASSUME \A b \in F.valid : r.map[b] # D[k] PROVE ReferenceRest(r, D[k]) = TargetRest(D[k])
    <3>1. D[k] \in Range(D)
      BY <1>2 DEF Range
    <3>2. D[k] \notin r.options.reference
      BY <1>3, <2>9, <3>1
    <3> QED
      BY <3>2 DEF ReferenceRest
  <2> HIDE DEF skeleton
  <2> QED
    BY <2>3, <2>4, <2>7, <2>8, <2>9
<1>7. B[1] = TargetTurned(r, F, joint) /\ B[m + 1] = Identity
  <2>1. 1 \in 1 .. m + 1 /\ m + 1 \in 1 .. m + 1 /\ 1 - 1 = 0 /\ (m + 1) - 1 = m /\ m \in 0 .. m
    BY <1>1
  <2>2. y(0) = joint /\ y(m) \notin DOMAIN skeleton
    BY <1>1, AtSteps DEF ClimbsOut
  <2>3. B[1] = TargetTurned(r, F, y(0)) /\ B[m + 1] = TargetTurned(r, F, y(m))
    BY <2>1
  <2>4. PICK c \in Nat : c <= Len(skeleton) /\ ClimbsOut(skeleton, y(m), c)
    BY <1>5, <2>1
  <2> HIDE DEF B, y
  <2>5. TargetTurned(r, F, y(m)) = Identity
    <3>1. TargetTurnsFrom(r, F, y(m))
      BY <2>4, TargetTurnsUp
    <3> QED
      BY <2>2, <3>1 DEF TargetTurnsFrom
  <2> QED
    BY <2>2, <2>3, <2>5
<1>8. \A i \in 1 .. L : /\ drives[i] \in Bones /\ r.map[drives[i]] = D[q[i]]
                        /\ e[i] = SourceStep(r, drives[i], Held(F, drives[i]))
  BY DEF Answers
<1> HIDE DEF B, D, y
<1>9. ASSUME NEW k \in 1 .. m, \A i \in 1 .. L : q[i] # k PROVE B[k] = B[k + 1]
  <2>1. D[k] \notin Range(r.map)
    BY <1>4, <1>9
  <2>2. \A b \in F.valid : r.map[b] # D[k]
    BY <1>1, <2>1 DEF Range
  <2> QED
    BY <1>6, <2>2
<1>10. ASSUME NEW i \in 1 .. L PROVE q[i] \in 1 .. m /\ B[q[i]] = Times(B[q[i] + 1], e[i])
  <2> DEFINE b == drives[i]
             k == q[i]
  <2>1. k \in 1 .. m /\ b \in Bones /\ r.map[b] = D[k] /\ e[i] = SourceStep(r, b, Held(F, b))
    BY <1>4, <1>8
  <2> HIDE DEF b, k
  <2>2. CASE b \in F.valid
    BY <1>6, <2>1, <2>2 DEF k
  <2>3. CASE b \notin F.valid
    <3>1. D[k] # 0
      BY <1>1, <1>2, <2>1
    <3>2. ASSUME NEW c \in F.valid, r.map[c] = D[k] PROVE FALSE
      <4>1. c \in Bones /\ r.map[c] = r.map[b] /\ r.map[c] # 0
        BY <1>1, <2>1, <3>1, <3>2
      <4>2. c = b
        BY <2>1, <4>1, OneBoneEach
      <4> QED
        BY <2>3, <3>2, <4>2
    <3>3. B[k] = B[k + 1] /\ IsWord(B[k + 1])
      BY <1>6, <2>1, <3>2
    <3>4. Held(F, b) = SourceRest(b)
      BY <2>3 DEF Held
    <3>5. e[i] = Identity
      BY <1>1, <2>1, <3>4, SourceStepIs
    <3> QED
      BY <2>1, <3>3, <3>5, JoinedToIdentity DEF k
  <2> QED
    BY <2>2, <2>3
<1>11. IsLadder(B, m, q, L, e)
  BY <1>1, <1>4, <1>9, <1>10 DEF IsLadder
<1> QED
  BY <1>7, <1>11 DEF B, y, skeleton, TargetWay

(* What the property asks of a bone's two chains, for any rig and pose.    *)
ChainsAnswer(r, bone) ==
  LET bound  == Only(SourceChain(r.rest, bone), BoundBones(r))
      mapped == Only(RigChain(r.skeleton, r.map[bone]), Range(r.map))
  IN  mapped = [i \in DOMAIN bound |-> r.map[bound[i]]]

LEMMA WaysAgree ==
  ASSUME NEW r, Sound(r), NEW F, IsPose(F), NEW bone \in Bones, Bound(r, bone),
         NEW n, Ends(r.rest, bone, n), ChainsAnswer(r, bone),
         RestsWithoutAJoint(r, F, bone), ReferencesAreDriven(r, F, r.map[bone])
  PROVE  SourceTurned(r, F, bone) = TargetTurned(r, F, r.map[bone])
<1> DEFINE C == SourceChain(r.rest, bone)
           joint == r.map[bone]
           D == RigChain(r.skeleton, joint)
<1>1. joint \in DOMAIN r.skeleton /\ DOMAIN r.rest = Bones
  BY DEF Bound, Sound, IsBuilt
<1>2. PICK m \in Nat : m <= Len(r.skeleton) /\ ClimbsOut(r.skeleton, joint, m)
  BY <1>1, RigWay
<1>3. IsSequence(C) /\ \A k \in DOMAIN C : C[k] \in Bones
  <2>1. ChainIs(r.rest, bone, C, n)
    BY <1>1, EndingChain
  <2> QED
    BY <2>1 DEF ChainIs
<1>4. IsSequence(D)
  <2>1. Len(r.skeleton) \in Nat
    BY <1>1, RigWay
  <2> QED
    BY <1>2, <2>1, ClimbIs DEF RigChain
<1>5. PICK L, p : KeepsAt(C, BoundBones(r), L, p)
  <2> HIDE DEF C
  <2> QED
    BY <1>3, KeepsSomewhere
<1>6. PICK M, q : KeepsAt(D, Range(r.map), M, q)
  <2> HIDE DEF D
  <2> QED
    BY <1>4, KeepsSomewhere
<1> DEFINE drives == [i \in 1 .. L |-> C[p[i]]]
           e == SourceTurns(r, F, bone, L, p)
           A == SourceWay(r, F, bone, n)
           B == TargetWay(r, F, joint, m)
           bound == Only(C, BoundBones(r))
           mapped == Only(D, Range(r.map))
<1>7. L = M /\ \A i \in 1 .. L : drives[i] \in Bones /\ r.map[drives[i]] = D[q[i]]
  <2>1. mapped = [i \in DOMAIN bound |-> r.map[bound[i]]]
    BY DEF ChainsAnswer
  <2> HIDE DEF bound, mapped, C, D, joint
  <2>2. /\ L \in Nat /\ M \in Nat /\ DOMAIN bound = 1 .. L /\ DOMAIN mapped = 1 .. M
        /\ \A i \in 1 .. L : bound[i] = C[p[i]] /\ p[i] \in DOMAIN C
        /\ \A i \in 1 .. M : mapped[i] = D[q[i]]
    BY <1>5, <1>6 DEF KeepsAt, bound, mapped
  <2>3. 1 .. M = 1 .. L
    BY <2>1, <2>2
  <2>4. L = M
    BY <2>2, <2>3
  <2> QED
    BY <1>3, <2>1, <2>2, <2>4
<1>8. IsLadder(A, n, p, L, e) /\ A[1] = SourceTurned(r, F, bone) /\ A[n + 1] = Identity
  BY <1>1, <1>5, SourceLadder
<1>9. \A i \in 1 .. L : e[i] = SourceStep(r, drives[i], Held(F, drives[i]))
  BY DEF SourceTurns
<1>10. KeepsAt(D, Range(r.map), L, q)
  BY <1>6, <1>7
<1>11. IsLadder(B, m, q, L, e) /\ B[1] = TargetTurned(r, F, joint) /\ B[m + 1] = Identity
  <2>1. Answers(r, joint, L, q, drives) /\ ReferencesAreDriven(r, F, joint)
    BY <1>7 DEF Answers
  <2>2. /\ joint \in DOMAIN r.skeleton /\ ClimbsOut(r.skeleton, joint, m) /\ m <= Len(r.skeleton)
        /\ KeepsAt(RigChain(r.skeleton, joint), Range(r.map), L, q)
        /\ \A i \in 1 .. L : e[i] = SourceStep(r, drives[i], Held(F, drives[i]))
    BY <1>1, <1>2, <1>9, <1>10
  <2> HIDE DEF drives, e, joint, D, A, B, C
  <2>3. Sound(r) /\ IsPose(F)
    OBVIOUS
  <2>4. /\ IsLadder(TargetWay(r, F, joint, m), m, q, L, e)
        /\ TargetWay(r, F, joint, m)[1] = TargetTurned(r, F, joint)
        /\ TargetWay(r, F, joint, m)[m + 1] = Identity
    BY ONLY <2>1, <2>2, <2>3, TargetLadder
  <2> QED
    BY <2>4 DEF B
<1> HIDE DEF A, B, e
<1>12. A[1] = B[1]
  BY <1>8, <1>11, LaddersAgree
<1> QED
  BY <1>8, <1>11, <1>12

-----------------------------------------------------------------------------
(* What a retarget leaves of its rotations.                                *)

CarriedInv ==
  /\ RetargetInv
  /\ rig # Absent => PlanStands(rig, rig.folds)
  /\ result # Absent => pose \in Poses /\ result.rotations = Rotations(rig, FoldedPose(rig, pose))

LEMMA SamePlanStands ==
  ASSUME NEW c, NEW r, r.rest = c.rest, r.map = c.map, r.skeleton = c.skeleton, NEW plan, PlanStands(c, plan)
  PROVE  PlanStands(r, plan)
<1>1. \A b : Bound(r, b) <=> Bound(c, b)
  BY DEF Bound
<1>2. BoundBones(r) = BoundBones(c)
  BY <1>1 DEF BoundBones
<1>3. \A b : Receiver(r, b) = Receiver(c, b) /\ Depth(r, b) = Depth(c, b)
  BY <1>2 DEF Receiver, Depth
<1>4. \A b, folds : FoldStands(c, b, folds) => FoldStands(r, b, folds)
  BY <1>1, <1>3 DEF FoldStands
<1> QED
  BY <1>4 DEF PlanStands

LEMMA CarriedInvIsInductive == CarriedInv /\ [RetargetNext]_retargetVars => CarriedInv'
<1> SUFFICES ASSUME CarriedInv, [RetargetNext]_retargetVars PROVE CarriedInv'
  OBVIOUS
<1>1. RetargetInv' /\ RetargetInv
  BY RetargetInvIsInductive DEF CarriedInv
<1>2. ASSUME NEW c \in Configurations, Build(c) PROVE CarriedInv'
  <2>1. /\ rig' = [skeleton |-> c.skeleton, map |-> c.map, rest |-> c.rest,
                   options |-> c.options, folds |-> FoldPlan(c)]
        /\ rig = Absent /\ result' = result
    BY <1>2, Zenon DEF Build
  <2>2. PlanStands(c, FoldPlan(c))
    BY RetargetAssumption, FoldPlanStands
  <2>3. rig'.rest = c.rest /\ rig'.map = c.map /\ rig'.skeleton = c.skeleton /\ rig'.folds = FoldPlan(c)
    BY <2>1
  <2>4. PlanStands(rig', rig'.folds)
    <3> DEFINE r == rig'
               plan == FoldPlan(c)
    <3>1. r.rest = c.rest /\ r.map = c.map /\ r.skeleton = c.skeleton /\ PlanStands(c, plan) /\ r.folds = plan
      BY <2>2, <2>3
    <3> HIDE DEF r, plan
    <3>2. PlanStands(r, plan)
      BY <3>1, SamePlanStands
    <3> QED
      BY <3>1, <3>2 DEF r
  <2>5. result' = Absent
    BY <1>1, <2>1 DEF RetargetInv
  <2> QED
    BY <1>1, <2>4, <2>5 DEF CarriedInv
<1>3. CASE Diagnose
  <2>1. rig' = rig /\ result' = result /\ pose' = pose
    BY <1>3 DEF Diagnose
  <2> QED
    BY <1>1, <2>1 DEF CarriedInv
<1>4. ASSUME NEW p \in Poses, Retarget(p) PROVE CarriedInv'
  <2>1. /\ rig' = rig /\ pose' = p
        /\ result' = [rotations |-> Rotations(rig, FoldedPose(rig, p)), moved |-> Moved(rig, p)]
    BY <1>4, Zenon DEF Retarget
  <2>2. result'.rotations = Rotations(rig, FoldedPose(rig, p))
    BY <2>1
  <2> QED
    BY <1>1, <2>1, <2>2 DEF CarriedInv
<1>5. CASE UNCHANGED retargetVars
  BY <1>1, <1>5 DEF retargetVars, CarriedInv
<1> QED
  BY <1>2, <1>3, <1>4, <1>5 DEF RetargetNext

LEMMA WorldMotionFollows == CarriedInv => WorldMotionIsTransferred
<1> SUFFICES ASSUME CarriedInv, result # Absent,
                    DuplicateJoints(rig.map) = {}, IsTopologicallyOrdered(rig.skeleton),
                    NEW bone \in Bones, Bound(rig, bone), ChainEnds(rig.rest, bone),
                    ChainsAgree(bone), MotionIsCarried(bone), RestsAgree(bone)
             PROVE  Times(SourceWorld(bone), Inverted(SourceWorldRest(rig.rest, bone)))
                      = Times(TargetWorld(rig.map[bone]), Inverted(TargetWorldRest(rig, rig.map[bone])))
  BY DEF WorldMotionIsTransferred
<1> DEFINE F == FoldedPose(rig, pose)
           N == Len(Vocabulary)
           joint == rig.map[bone]
<1>1. /\ Sound(rig) /\ DOMAIN rig.rest = Bones /\ PlanStands(rig, rig.folds)
      /\ pose \in Poses /\ result.rotations = Rotations(rig, F)
  BY DEF CarriedInv, RetargetInv, Sound, IsBuilt
<1>2. IsPose(pose)
  BY <1>1, RetargetAssumption DEF IsPose
<1>3. PICK n \in Nat \ {0} : Ends(rig.rest, bone, n)
  BY <1>1, EndsIs
<1>4. \A b : SourceRotation(b) = Held(pose, b)
  BY DEF SourceRotation, Held
<1>5. Settled(rig, bone, F, pose)
  <2>1. /\ \A b \in Range(SourceChain(rig.rest, bone)) :
             Bound(rig, b) \/ b \in Range(rig.folds) \/ Held(pose, b) = SourceRest(b)
        /\ \A b \in Range(rig.folds) :
             Receiver(rig, b) \in Range(SourceChain(rig.rest, bone)) => b \in Range(SourceChain(rig.rest, bone))
    BY <1>4 DEF MotionIsCarried
  <2> DEFINE r == rig
             p == pose
  <2>2. /\ DOMAIN r.rest = Bones /\ PlanStands(r, r.folds) /\ IsPose(p) /\ Ends(r.rest, bone, n)
        /\ \A b \in Range(SourceChain(r.rest, bone)) :
             Bound(r, b) \/ b \in Range(r.folds) \/ Held(p, b) = SourceRest(b)
        /\ \A b \in Range(r.folds) :
             Receiver(r, b) \in Range(SourceChain(r.rest, bone)) => b \in Range(SourceChain(r.rest, bone))
    BY <1>1, <1>2, <1>3, <2>1
  <2> HIDE DEF r, p
  <2>3. Settled(r, bone, FoldedPose(r, p), p)
    BY ONLY <2>2, FoldsSettle
  <2> QED
    BY <2>3 DEF r, p
<1>6. /\ IsPose(F) /\ RestsWithoutAJoint(rig, F, bone)
      /\ Total(rig.rest, bone, N, HeldBy(F)) = Total(rig.rest, bone, N, HeldBy(pose))
  BY <1>5 DEF Settled, RestsWithoutAJoint
<1>7. ReferencesAreDriven(rig, F, joint) /\ ChainsAnswer(rig, bone)
  BY DEF RestsAgree, ReferencesAreDriven, ChainsAgree, ChainsAnswer
<1>8. SourceTurned(rig, F, bone) = TargetTurned(rig, F, joint)
  BY <1>1, <1>3, <1>6, <1>7, WaysAgree
<1>9. SourceTurned(rig, F, bone) = Times(SourceWorld(bone), Inverted(SourceWorldRest(rig.rest, bone)))
  <2>1. HeldBy(pose) = [b \in Bones |-> SourceRotation(b)]
    BY <1>4 DEF HeldBy
  <2>2. SourceWorld(bone) = Total(rig.rest, bone, N, HeldBy(pose))
    BY <2>1 DEF SourceWorld, Total, SourceChain
  <2>3. SourceWorldRest(rig.rest, bone) = Total(rig.rest, bone, N, SourceRests)
    BY <1>1, SourceWorldRestIsAWord DEF SourceRests
  <2> QED
    BY <1>6, <2>2, <2>3 DEF SourceTurned, Turned
<1>10. TargetTurned(rig, F, joint) = Times(TargetWorld(joint), Inverted(TargetWorldRest(rig, joint)))
  <2>1. TargetWorld(joint) = Total(rig.skeleton, joint, Len(rig.skeleton), Rotations(rig, F))
    BY <1>1 DEF TargetWorld, Total, RigChain
  <2>2. TargetWorldRest(rig, joint) = Total(rig.skeleton, joint, Len(rig.skeleton), ReferenceRests(rig))
    BY DEF TargetWorldRest, Total, RigChain, ReferenceRests
  <2> QED
    BY <2>1, <2>2 DEF TargetTurned, Turned
<1> QED
  BY <1>8, <1>9, <1>10

(* For every rig, map, rest and pose: what a bone's orientation has turned *)
(* from its rest in the source's world, its joint's has turned in the      *)
(* target's, through different rests, joints only one side has and folded  *)
(* chains (RestPose.cpp:183, PoseRetargeter.cpp:147).                      *)
THEOREM WorldMotionIsCarriedOver == RetargetSpec => []WorldMotionIsTransferred
<1>1. RetargetInit => CarriedInv
  BY NothingIsASequence DEF RetargetInit, CarriedInv, RetargetInv
<1> QED
  BY <1>1, CarriedInvIsInductive, WorldMotionFollows, PTL DEF RetargetSpec
=============================================================================
