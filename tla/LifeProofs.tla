----------------------------- MODULE LifeProofs -----------------------------
(***************************************************************************)
(* The grid of cells of module LifeGrid plays the game of life, for every  *)
(* size of the grid from two by two.  First what the connections are: the  *)
(* target of a cell on one side is the cell that Conway's grid has there,  *)
(* in the nine cases that GameOfLife::Build distinguishes.  Then a cell    *)
(* hears as many siblings as its place has neighbours alive, and a ninth   *)
(* cycle makes a generation of what has been counted in eight.             *)
(***************************************************************************)
EXTENDS LifeGrid, FiniteSetTheorems, TLAPS

LEMMA InlandValues ==
  ASSUME NEW m, NEW id
  PROVE  /\ DOMAIN Inland(m, id) = 0 .. 7
         /\ Inland(m, id)[0] = id - m /\ Inland(m, id)[1] = id - m + 1
         /\ Inland(m, id)[2] = id + 1 /\ Inland(m, id)[3] = id + m + 1
         /\ Inland(m, id)[4] = id + m /\ Inland(m, id)[5] = id + m - 1
         /\ Inland(m, id)[6] = id - 1 /\ Inland(m, id)[7] = id - m - 1
BY DEF Inland

-----------------------------------------------------------------------------
(* The connections.                                                        *)

Rows == 0 .. Side - 1
IdAt(r, k) == r * Side + k
Up(x) == IF x = 0 THEN Side - 1 ELSE x - 1
Down(x) == IF x = Side - 1 THEN 0 ELSE x + 1

\* The targets of the cell in row r and column k, in each of the nine cases.
LEMMA TargetValues ==
  ASSUME NEW r \in Rows, NEW k \in Rows
  PROVE  /\ Target(Side, IdAt(r, k))[0] = IdAt(Up(r), k)
         /\ Target(Side, IdAt(r, k))[1] = IdAt(Up(r), Down(k))
         /\ Target(Side, IdAt(r, k))[2] = IdAt(r, Down(k))
         /\ Target(Side, IdAt(r, k))[3] = IdAt(Down(r), Down(k))
         /\ Target(Side, IdAt(r, k))[4] = IdAt(Down(r), k)
         /\ Target(Side, IdAt(r, k))[5] = IdAt(Down(r), Up(k))
         /\ Target(Side, IdAt(r, k))[6] = IdAt(r, Up(k))
         /\ Target(Side, IdAt(r, k))[7] = IdAt(Up(r), Up(k))
<1>1. /\ Side \in Nat \ {0, 1} /\ Side \in Int
      /\ k \in Int /\ r \in Int /\ k \in 0 .. Side - 1 /\ r \in 0 .. Side - 1
  BY GridAssumption DEF Rows
<1>2. PICK id : id = IdAt(r, k)
  OBVIOUS
<1>3. id = r * Side + k /\ id \div Side = r /\ id % Side = k
  BY <1>2, <1>1 DEF IdAt, Rows
<1>4. PICK f : f = Inland(Side, id)
  OBVIOUS
<1>5. /\ DOMAIN f = 0 .. 7
      /\ f[0] = id - Side /\ f[1] = id - Side + 1 /\ f[2] = id + 1 /\ f[3] = id + Side + 1
      /\ f[4] = id + Side /\ f[5] = id + Side - 1 /\ f[6] = id - 1 /\ f[7] = id - Side - 1
  BY <1>4, InlandValues
<1>6. {0, 1, 2, 3, 4, 5, 6, 7} \subseteq 0 .. 7
  OBVIOUS
<1>7. PICK t : t = Target(Side, id)
  OBVIOUS
<1>8. PICK q \in Int, w \in Int : q = r * Side /\ w = Side * Side
  BY <1>1
<1>9. /\ id = q + k /\ (r - 1) * Side = q - Side /\ (r + 1) * Side = q + Side /\ (Side - 1) * Side = w - Side
      /\ Side * (Side - 1) = w - Side /\ Side * (Side - 2) = w - 2 * Side
      /\ r = 0 => q = 0
      /\ r = Side - 1 => q = w - Side
  BY <1>3, <1>8, <1>1
<1>10. CASE k = 0 /\ Inner(Side, r)
  <2>1. k # Side - 1 /\ r # 0 /\ r # Side - 1
    BY <1>1, <1>10 DEF Inner
  <2>2. t = [f EXCEPT ![5] = id + 2 * Side - 1, ![6] = id + Side - 1, ![7] = id - 1]
    BY <1>3, <1>4, <1>7, <1>10, <2>1 DEF Target, Inner
  <2>3. Up(r) = r - 1 /\ Down(r) = r + 1 /\ Up(k) = Side - 1 /\ Down(k) = k + 1
    BY <1>10, <2>1 DEF Up, Down
  <2>4. /\ t[0] = id - Side /\ t[1] = id - Side + 1 /\ t[2] = id + 1 /\ t[3] = id + Side + 1
        /\ t[4] = id + Side /\ t[5] = id + 2 * Side - 1 /\ t[6] = id + Side - 1 /\ t[7] = id - 1
    BY <2>2, <1>5, <1>6
  <2>. QED BY <2>3, <2>4, <1>2, <1>7, <1>8, <1>9, <1>1, <1>10 DEF IdAt
<1>11. CASE k = Side - 1 /\ Inner(Side, r)
  <2>1. k # 0 /\ r # 0 /\ r # Side - 1
    BY <1>1, <1>11 DEF Inner
  <2>2. t = [f EXCEPT ![1] = id - 2 * Side + 1, ![2] = id - Side + 1, ![3] = id + 1]
    BY <1>3, <1>4, <1>7, <1>11, <2>1 DEF Target, Inner
  <2>3. Up(r) = r - 1 /\ Down(r) = r + 1 /\ Up(k) = k - 1 /\ Down(k) = 0
    BY <1>11, <2>1 DEF Up, Down
  <2>4. /\ t[0] = id - Side /\ t[1] = id - 2 * Side + 1 /\ t[2] = id - Side + 1 /\ t[3] = id + 1
        /\ t[4] = id + Side /\ t[5] = id + Side - 1 /\ t[6] = id - 1 /\ t[7] = id - Side - 1
    BY <2>2, <1>5, <1>6
  <2>. QED BY <2>3, <2>4, <1>2, <1>7, <1>8, <1>9, <1>1, <1>11 DEF IdAt
<1>12. CASE r = 0 /\ Inner(Side, k)
  <2>1. r # Side - 1 /\ k # 0 /\ k # Side - 1
    BY <1>1, <1>12 DEF Inner
  <2>2. t = [f EXCEPT ![0] = id + Side * (Side - 1), ![1] = id + Side * (Side - 1) + 1,
                        ![7] = id + Side * (Side - 1) - 1]
    BY <1>3, <1>4, <1>7, <1>12, <2>1 DEF Target, Inner
  <2>3. Up(r) = Side - 1 /\ Down(r) = r + 1 /\ Up(k) = k - 1 /\ Down(k) = k + 1
    BY <1>12, <2>1 DEF Up, Down
  <2>4. /\ t[0] = id + Side * (Side - 1) /\ t[1] = id + Side * (Side - 1) + 1 /\ t[2] = id + 1 /\ t[3] = id + Side + 1
        /\ t[4] = id + Side /\ t[5] = id + Side - 1 /\ t[6] = id - 1 /\ t[7] = id + Side * (Side - 1) - 1
    BY <2>2, <1>5, <1>6
  <2>. QED BY <2>3, <2>4, <1>2, <1>7, <1>8, <1>9, <1>1, <1>12 DEF IdAt
<1>13. CASE r = Side - 1 /\ Inner(Side, k)
  <2>1. r # 0 /\ k # 0 /\ k # Side - 1
    BY <1>1, <1>13 DEF Inner
  <2>2. t = [f EXCEPT ![3] = id - Side * (Side - 1) + 1, ![4] = id - Side * (Side - 1),
                        ![5] = id - Side * (Side - 1) - 1]
    BY <1>3, <1>4, <1>7, <1>13, <2>1 DEF Target, Inner
  <2>3. Up(r) = r - 1 /\ Down(r) = 0 /\ Up(k) = k - 1 /\ Down(k) = k + 1
    BY <1>13, <2>1 DEF Up, Down
  <2>4. /\ t[0] = id - Side /\ t[1] = id - Side + 1 /\ t[2] = id + 1 /\ t[3] = id - Side * (Side - 1) + 1
        /\ t[4] = id - Side * (Side - 1) /\ t[5] = id - Side * (Side - 1) - 1 /\ t[6] = id - 1 /\ t[7] = id - Side - 1
    BY <2>2, <1>5, <1>6
  <2>. QED BY <2>3, <2>4, <1>2, <1>7, <1>8, <1>9, <1>1, <1>13 DEF IdAt
<1>14. CASE r = 0 /\ k = 0
  <2>1. r # Side - 1 /\ k # Side - 1
    BY <1>1, <1>14 DEF Inner
  <2>2. t = [f EXCEPT ![0] = id + Side * (Side - 1), ![1] = id + Side * (Side - 1) + 1, ![5] = id + 2 * Side - 1,
                        ![6] = id + Side - 1, ![7] = id + Side * Side - 1]
    BY <1>3, <1>4, <1>7, <1>14, <2>1 DEF Target, Inner
  <2>3. Up(r) = Side - 1 /\ Down(r) = r + 1 /\ Up(k) = Side - 1 /\ Down(k) = k + 1
    BY <1>14, <2>1 DEF Up, Down
  <2>4. /\ t[0] = id + Side * (Side - 1) /\ t[1] = id + Side * (Side - 1) + 1 /\ t[2] = id + 1 /\ t[3] = id + Side + 1
        /\ t[4] = id + Side /\ t[5] = id + 2 * Side - 1 /\ t[6] = id + Side - 1 /\ t[7] = id + Side * Side - 1
    BY <2>2, <1>5, <1>6
  <2>. QED BY <2>3, <2>4, <1>2, <1>7, <1>8, <1>9, <1>1, <1>14 DEF IdAt
<1>15. CASE r = 0 /\ k = Side - 1
  <2>1. r # Side - 1 /\ k # 0
    BY <1>1, <1>15 DEF Inner
  <2>2. t = [f EXCEPT ![0] = id + Side * (Side - 1), ![1] = id + Side * (Side - 2) + 1, ![2] = id - Side + 1,
                        ![3] = id + 1, ![7] = id + Side * (Side - 1) - 1]
    BY <1>3, <1>4, <1>7, <1>15, <2>1 DEF Target, Inner
  <2>3. Up(r) = Side - 1 /\ Down(r) = r + 1 /\ Up(k) = k - 1 /\ Down(k) = 0
    BY <1>15, <2>1 DEF Up, Down
  <2>4. /\ t[0] = id + Side * (Side - 1) /\ t[1] = id + Side * (Side - 2) + 1 /\ t[2] = id - Side + 1 /\ t[3] = id + 1
        /\ t[4] = id + Side /\ t[5] = id + Side - 1 /\ t[6] = id - 1 /\ t[7] = id + Side * (Side - 1) - 1
    BY <2>2, <1>5, <1>6
  <2>. QED BY <2>3, <2>4, <1>2, <1>7, <1>8, <1>9, <1>1, <1>15 DEF IdAt
<1>16. CASE r = Side - 1 /\ k = 0
  <2>1. r # 0 /\ k # Side - 1
    BY <1>1, <1>16 DEF Inner
  <2>2. t = [f EXCEPT ![3] = id - Side * (Side - 1) + 1, ![4] = id - Side * (Side - 1), ![5] = id - Side * (Side - 2) - 1,
                        ![6] = id + Side - 1, ![7] = id - 1]
    BY <1>3, <1>4, <1>7, <1>16, <2>1 DEF Target, Inner
  <2>3. Up(r) = r - 1 /\ Down(r) = 0 /\ Up(k) = Side - 1 /\ Down(k) = k + 1
    BY <1>16, <2>1 DEF Up, Down
  <2>4. /\ t[0] = id - Side /\ t[1] = id - Side + 1 /\ t[2] = id + 1 /\ t[3] = id - Side * (Side - 1) + 1
        /\ t[4] = id - Side * (Side - 1) /\ t[5] = id - Side * (Side - 2) - 1 /\ t[6] = id + Side - 1 /\ t[7] = id - 1
    BY <2>2, <1>5, <1>6
  <2>. QED BY <2>3, <2>4, <1>2, <1>7, <1>8, <1>9, <1>1, <1>16 DEF IdAt
<1>17. CASE r = Side - 1 /\ k = Side - 1
  <2>1. r # 0 /\ k # 0
    BY <1>1, <1>17 DEF Inner
  <2>2. t = [f EXCEPT ![1] = id - 2 * Side + 1, ![2] = id - Side + 1, ![3] = id - Side * Side + 1,
                        ![4] = id - Side * (Side - 1), ![5] = id - Side * (Side - 1) - 1]
    BY <1>3, <1>4, <1>7, <1>17, <2>1 DEF Target, Inner
  <2>3. Up(r) = r - 1 /\ Down(r) = 0 /\ Up(k) = k - 1 /\ Down(k) = 0
    BY <1>17, <2>1 DEF Up, Down
  <2>4. /\ t[0] = id - Side /\ t[1] = id - 2 * Side + 1 /\ t[2] = id - Side + 1 /\ t[3] = id - Side * Side + 1
        /\ t[4] = id - Side * (Side - 1) /\ t[5] = id - Side * (Side - 1) - 1 /\ t[6] = id - 1 /\ t[7] = id - Side - 1
    BY <2>2, <1>5, <1>6
  <2>. QED BY <2>3, <2>4, <1>2, <1>7, <1>8, <1>9, <1>1, <1>17 DEF IdAt
<1>18. CASE Inner(Side, r) /\ Inner(Side, k)
  <2>1. r # 0 /\ r # Side - 1 /\ k # 0 /\ k # Side - 1
    BY <1>1, <1>18 DEF Inner
  <2>2. t = f
    BY <1>3, <1>4, <1>7, <1>18, <2>1 DEF Target, Inner
  <2>3. Up(r) = r - 1 /\ Down(r) = r + 1 /\ Up(k) = k - 1 /\ Down(k) = k + 1
    BY <1>18, <2>1 DEF Up, Down
  <2>4. /\ t[0] = id - Side /\ t[1] = id - Side + 1 /\ t[2] = id + 1 /\ t[3] = id + Side + 1
        /\ t[4] = id + Side /\ t[5] = id + Side - 1 /\ t[6] = id - 1 /\ t[7] = id - Side - 1
    BY <2>2, <1>5, <1>6
  <2>. QED BY <2>3, <2>4, <1>2, <1>7, <1>8, <1>9, <1>1, <1>18 DEF IdAt
<1>. QED BY <1>1, <1>10, <1>11, <1>12, <1>13, <1>14, <1>15, <1>16, <1>17, <1>18 DEF Inner

\* The same directions in Conway's grid.
LEMMA TowardValues ==
  ASSUME NEW r \in Rows, NEW k \in Rows
  PROVE  /\ Conway!Toward(<<r, k>>, 1) = <<Up(r), k>>
         /\ Conway!Toward(<<r, k>>, 2) = <<Up(r), Down(k)>>
         /\ Conway!Toward(<<r, k>>, 3) = <<r, Down(k)>>
         /\ Conway!Toward(<<r, k>>, 4) = <<Down(r), Down(k)>>
         /\ Conway!Toward(<<r, k>>, 5) = <<Down(r), k>>
         /\ Conway!Toward(<<r, k>>, 6) = <<Down(r), Up(k)>>
         /\ Conway!Toward(<<r, k>>, 7) = <<r, Up(k)>>
         /\ Conway!Toward(<<r, k>>, 8) = <<Up(r), Up(k)>>
<1>1. ASSUME NEW x \in Rows
      PROVE  /\ (x + Side + (-1)) % Side = Up(x)
             /\ (x + Side + 0) % Side = x
             /\ (x + Side + 1) % Side = Down(x)
  BY GridAssumption DEF Rows, Up, Down
<1>2. PICK d : d = Conway!Direction
  OBVIOUS
<1>3. /\ d[1][1] = -1 /\ d[1][2] = 0 /\ d[2][1] = -1 /\ d[2][2] = 1
      /\ d[3][1] = 0 /\ d[3][2] = 1 /\ d[4][1] = 1 /\ d[4][2] = 1
      /\ d[5][1] = 1 /\ d[5][2] = 0 /\ d[6][1] = 1 /\ d[6][2] = -1
      /\ d[7][1] = 0 /\ d[7][2] = -1 /\ d[8][1] = -1 /\ d[8][2] = -1
  BY <1>2 DEF Conway!Direction
<1>4. ASSUME NEW i
      PROVE  Conway!Toward(<<r, k>>, i) = <<(r + Side + d[i][1]) % Side, (k + Side + d[i][2]) % Side>>
  BY <1>2 DEF Conway!Toward
<1>. QED BY <1>1, <1>3, <1>4

LEMMA RowTypes ==
  ASSUME NEW x \in Rows
  PROVE  /\ Up(x) \in Rows /\ Down(x) \in Rows
         /\ Up(Down(x)) = x /\ Down(Up(x)) = x
BY GridAssumption DEF Rows, Up, Down

\* Cells are numbered row by row: a number is a place, and a place has one number.
LEMMA Division ==
  ASSUME NEW m \in Nat \ {0}, NEW a \in Nat
  PROVE  a = (a \div m) * m + (a % m)
OBVIOUS

LEMMA PlaceOf ==
  ASSUME NEW r \in Rows, NEW k \in Rows
  PROVE  IdAt(r, k) \in Ids /\ Place(IdAt(r, k)) = <<r, k>>
<1>1. r * Side + k \in Ids
  BY GridAssumption DEF Rows, Ids
<1>2. (r * Side + k) \div Side = r /\ (r * Side + k) % Side = k
  BY GridAssumption DEF Rows
<1>. QED BY <1>1, <1>2 DEF Place, IdAt

LEMMA IdOf ==
  ASSUME NEW id \in Ids
  PROVE  \E r, k \in Rows : id = IdAt(r, k) /\ Place(id) = <<r, k>>
<1>1. id \div Side \in Rows
  BY GridAssumption DEF Rows, Ids
<1>2. id % Side \in Rows
  BY GridAssumption DEF Rows, Ids
<1>3. id \in Nat /\ Side \in Nat \ {0}
  BY GridAssumption DEF Ids
<1>4. PICK r \in Rows, k \in Rows : r = id \div Side /\ k = id % Side
  BY <1>1, <1>2
<1>5. id = r * Side + k
  BY <1>3, <1>4, Division
<1>6. Place(id) = <<r, k>>
  BY <1>4 DEF Place
<1>. QED BY <1>5, <1>6 DEF IdAt

LEMMA PlaceInjective ==
  ASSUME NEW a \in Ids, NEW b \in Ids, Place(a) = Place(b)
  PROVE  a = b
<1>1. PICK r \in Rows, k \in Rows : a = IdAt(r, k) /\ Place(a) = <<r, k>>
  BY IdOf
<1>2. PICK r1 \in Rows, k1 \in Rows : b = IdAt(r1, k1) /\ Place(b) = <<r1, k1>>
  BY IdOf
<1>. QED BY <1>1, <1>2

\* target_cell_s is the cell that the direction s leads to.
LEMMA TargetPlace ==
  ASSUME NEW id \in Ids, NEW s \in 0 .. 7
  PROVE  Target(Side, id)[s] \in Ids /\ Place(Target(Side, id)[s]) = Conway!Toward(Place(id), s + 1)
<1>1. PICK r \in Rows, k \in Rows : id = IdAt(r, k) /\ Place(id) = <<r, k>>
  BY IdOf
<1>2. PICK t : t = Target(Side, id)
  OBVIOUS
<1>3. PICK ru, rd, ku, kd : ru = Up(r) /\ rd = Down(r) /\ ku = Up(k) /\ kd = Down(k)
  OBVIOUS
<1>4. ru \in Rows /\ rd \in Rows /\ ku \in Rows /\ kd \in Rows
  BY <1>3, RowTypes
<1>5. /\ t[0] = IdAt(ru, k) /\ t[1] = IdAt(ru, kd) /\ t[2] = IdAt(r, kd) /\ t[3] = IdAt(rd, kd)
      /\ t[4] = IdAt(rd, k) /\ t[5] = IdAt(rd, ku) /\ t[6] = IdAt(r, ku) /\ t[7] = IdAt(ru, ku)
  BY <1>1, <1>2, <1>3, TargetValues
<1>6. /\ Conway!Toward(<<r, k>>, 1) = <<ru, k>> /\ Conway!Toward(<<r, k>>, 2) = <<ru, kd>>
      /\ Conway!Toward(<<r, k>>, 3) = <<r, kd>> /\ Conway!Toward(<<r, k>>, 4) = <<rd, kd>>
      /\ Conway!Toward(<<r, k>>, 5) = <<rd, k>> /\ Conway!Toward(<<r, k>>, 6) = <<rd, ku>>
      /\ Conway!Toward(<<r, k>>, 7) = <<r, ku>> /\ Conway!Toward(<<r, k>>, 8) = <<ru, ku>>
  BY <1>3, TowardValues
<1>7. t[s] \in Ids /\ Place(t[s]) = Conway!Toward(<<r, k>>, s + 1)
  <2>1. CASE s = 0
    BY <1>4, <1>5, <1>6, <2>1, PlaceOf
  <2>2. CASE s = 1
    BY <1>4, <1>5, <1>6, <2>2, PlaceOf
  <2>3. CASE s = 2
    BY <1>4, <1>5, <1>6, <2>3, PlaceOf
  <2>4. CASE s = 3
    BY <1>4, <1>5, <1>6, <2>4, PlaceOf
  <2>5. CASE s = 4
    BY <1>4, <1>5, <1>6, <2>5, PlaceOf
  <2>6. CASE s = 5
    BY <1>4, <1>5, <1>6, <2>6, PlaceOf
  <2>7. CASE s = 6
    BY <1>4, <1>5, <1>6, <2>7, PlaceOf
  <2>8. CASE s = 7
    BY <1>4, <1>5, <1>6, <2>8, PlaceOf
  <2>. QED BY <2>1, <2>2, <2>3, <2>4, <2>5, <2>6, <2>7, <2>8
<1>. QED BY <1>1, <1>2, <1>7

\* A step and the opposite one lead home.
LEMMA ThereAndBack ==
  ASSUME NEW p \in Rows \X Rows, NEW s \in 0 .. 7
  PROVE  /\ Conway!Toward(p, s + 1) \in Rows \X Rows
         /\ Conway!Toward(Conway!Toward(p, s + 1), Opposite(s) + 1) = p
<1>1. PICK r \in Rows, k \in Rows : p = <<r, k>>
  OBVIOUS
<1>2. PICK ru \in Rows, rd \in Rows, ku \in Rows, kd \in Rows :
        ru = Up(r) /\ rd = Down(r) /\ ku = Up(k) /\ kd = Down(k)
  BY RowTypes
<1>3. Down(ru) = r /\ Up(rd) = r /\ Down(ku) = k /\ Up(kd) = k
  BY <1>2, RowTypes
<1>4. CASE s = 0
  <2>1. s + 1 = 1 /\ Opposite(s) + 1 = 5
    BY <1>4 DEF Opposite
  <2>2. Conway!Toward(p, 1) = <<ru, k>>
    BY <1>1, <1>2, TowardValues
  <2>3. Conway!Toward(<<ru, k>>, 5) = p
    BY <1>1, <1>2, <1>3, TowardValues
  <2>. QED BY <1>2, <2>1, <2>2, <2>3
<1>5. CASE s = 1
  <2>1. s + 1 = 2 /\ Opposite(s) + 1 = 6
    BY <1>5 DEF Opposite
  <2>2. Conway!Toward(p, 2) = <<ru, kd>>
    BY <1>1, <1>2, TowardValues
  <2>3. Conway!Toward(<<ru, kd>>, 6) = p
    BY <1>1, <1>2, <1>3, TowardValues
  <2>. QED BY <1>2, <2>1, <2>2, <2>3
<1>6. CASE s = 2
  <2>1. s + 1 = 3 /\ Opposite(s) + 1 = 7
    BY <1>6 DEF Opposite
  <2>2. Conway!Toward(p, 3) = <<r, kd>>
    BY <1>1, <1>2, TowardValues
  <2>3. Conway!Toward(<<r, kd>>, 7) = p
    BY <1>1, <1>2, <1>3, TowardValues
  <2>. QED BY <1>2, <2>1, <2>2, <2>3
<1>7. CASE s = 3
  <2>1. s + 1 = 4 /\ Opposite(s) + 1 = 8
    BY <1>7 DEF Opposite
  <2>2. Conway!Toward(p, 4) = <<rd, kd>>
    BY <1>1, <1>2, TowardValues
  <2>3. Conway!Toward(<<rd, kd>>, 8) = p
    BY <1>1, <1>2, <1>3, TowardValues
  <2>. QED BY <1>2, <2>1, <2>2, <2>3
<1>8. CASE s = 4
  <2>1. s + 1 = 5 /\ Opposite(s) + 1 = 1
    BY <1>8 DEF Opposite
  <2>2. Conway!Toward(p, 5) = <<rd, k>>
    BY <1>1, <1>2, TowardValues
  <2>3. Conway!Toward(<<rd, k>>, 1) = p
    BY <1>1, <1>2, <1>3, TowardValues
  <2>. QED BY <1>2, <2>1, <2>2, <2>3
<1>9. CASE s = 5
  <2>1. s + 1 = 6 /\ Opposite(s) + 1 = 2
    BY <1>9 DEF Opposite
  <2>2. Conway!Toward(p, 6) = <<rd, ku>>
    BY <1>1, <1>2, TowardValues
  <2>3. Conway!Toward(<<rd, ku>>, 2) = p
    BY <1>1, <1>2, <1>3, TowardValues
  <2>. QED BY <1>2, <2>1, <2>2, <2>3
<1>10. CASE s = 6
  <2>1. s + 1 = 7 /\ Opposite(s) + 1 = 3
    BY <1>10 DEF Opposite
  <2>2. Conway!Toward(p, 7) = <<r, ku>>
    BY <1>1, <1>2, TowardValues
  <2>3. Conway!Toward(<<r, ku>>, 3) = p
    BY <1>1, <1>2, <1>3, TowardValues
  <2>. QED BY <1>2, <2>1, <2>2, <2>3
<1>11. CASE s = 7
  <2>1. s + 1 = 8 /\ Opposite(s) + 1 = 4
    BY <1>11 DEF Opposite
  <2>2. Conway!Toward(p, 8) = <<ru, ku>>
    BY <1>1, <1>2, TowardValues
  <2>3. Conway!Toward(<<ru, ku>>, 4) = p
    BY <1>1, <1>2, <1>3, TowardValues
  <2>. QED BY <1>2, <2>1, <2>2, <2>3
<1>. QED BY <1>4, <1>5, <1>6, <1>7, <1>8, <1>9, <1>10, <1>11

-----------------------------------------------------------------------------
(* A cell hears what its place in Conway's grid is next to.                *)

CellTypes ==
  cells \in [Ids -> [step : 0 .. 8, count : 0 .. 7, heard : BOOLEAN, alive : BOOLEAN]]

LEMMA AliveAt ==
  ASSUME NEW id \in Ids
  PROVE  Place(id) \in Alive <=> cells[id].alive
BY PlaceInjective DEF Alive

\* The input i of a cell is alive when the cell in direction i is.
LEMMA SeenAlive ==
  ASSUME NEW id \in Ids
  PROVE  SiblingsAlive(id) = {i \in 0 .. 7 : Conway!Toward(Place(id), i + 1) \in Alive}
<1>1. PICK r \in Rows, k \in Rows : id = IdAt(r, k) /\ Place(id) = <<r, k>>
  BY IdOf
<1>2. Place(id) \in Rows \X Rows
  BY <1>1
<1>3. ASSUME NEW i \in SiblingsAlive(id)
      PROVE  i \in 0 .. 7 /\ Conway!Toward(Place(id), i + 1) \in Alive
  <2>1. PICK w \in Wires : w[2] = id /\ cells[w[1]].alive /\ i = w[3]
    BY DEF SiblingsAlive
  <2>2. PICK c \in Ids, s \in 0 .. 7 : w = <<c, Target(Side, c)[s], Opposite(s)>>
    BY DEF Wires
  <2>3. id = Target(Side, c)[s] /\ i = Opposite(s) /\ cells[c].alive
    BY <2>1, <2>2
  <2>4. Place(id) = Conway!Toward(Place(c), s + 1)
    BY <2>3, TargetPlace
  <2>5. Place(c) \in Rows \X Rows
    BY IdOf
  <2>6. Conway!Toward(Place(id), i + 1) = Place(c)
    BY <2>3, <2>4, <2>5, ThereAndBack
  <2>7. i \in 0 .. 7
    BY <2>3 DEF Opposite
  <2>. QED BY <2>3, <2>6, <2>7, AliveAt
<1>4. ASSUME NEW i \in 0 .. 7, Conway!Toward(Place(id), i + 1) \in Alive
      PROVE  i \in SiblingsAlive(id)
  <2>1. PICK c \in Ids : cells[c].alive /\ Place(c) = Conway!Toward(Place(id), i + 1)
    BY <1>4 DEF Alive
  <2>2. PICK s \in 0 .. 7 : s = Opposite(i) /\ Opposite(s) = i
    BY DEF Opposite
  <2>3. Conway!Toward(Place(c), s + 1) = Place(id)
    BY <1>2, <2>1, <2>2, ThereAndBack
  <2>4. Target(Side, c)[s] \in Ids /\ Place(Target(Side, c)[s]) = Place(id)
    BY <2>3, TargetPlace
  <2>5. Target(Side, c)[s] = id
    BY <2>4, PlaceInjective
  <2>6. <<c, id, i>> \in Wires
    BY <2>2, <2>5 DEF Wires
  <2>. QED BY <2>1, <2>6 DEF SiblingsAlive
<1>. QED BY <1>3, <1>4

\* As many inputs are alive as Conway counts neighbours.
LEMMA SameNumber ==
  ASSUME NEW id \in Ids
  PROVE  /\ IsFiniteSet(SiblingsAlive(id)) /\ Cardinality(SiblingsAlive(id)) \in 0 .. 8
         /\ SiblingsAlive(id) \subseteq 0 .. 7
         /\ Cardinality(SiblingsAlive(id)) = Conway!Siblings(Place(id))
<1>. DEFINE S == SiblingsAlive(id)
            T == {d \in 1 .. 8 : Conway!Toward(Place(id), d) \in Alive}
<1>1. S \subseteq 0 .. 7
  BY SeenAlive
<1>2. IsFiniteSet(0 .. 7) /\ Cardinality(0 .. 7) = 8
  <2>1. PICK a \in Int, b \in Int : a = 0 /\ b = 7
    OBVIOUS
  <2>2. IsFiniteSet(a .. b) /\ Cardinality(a .. b) = IF a > b THEN 0 ELSE b - a + 1
    BY FS_Interval
  <2>. QED BY <2>1, <2>2
<1>3. IsFiniteSet(S) /\ Cardinality(S) <= 8
  BY <1>1, <1>2, FS_Subset
<1>4. Cardinality(S) \in 0 .. 8
  BY <1>3, FS_CardinalityType
<1>5. \A i : i \in S <=> i \in 0 .. 7 /\ Conway!Toward(Place(id), i + 1) \in Alive
  BY SeenAlive
<1>6. \A d \in T : d \in 1 .. 8 /\ d - 1 \in S
  <2>. TAKE d \in T
  <2>1. d - 1 \in 0 .. 7 /\ (d - 1) + 1 = d
    OBVIOUS
  <2>. QED BY <1>5, <2>1
<1>7. \A i \in S : i + 1 \in T
  BY <1>5
<1>8. [i \in S |-> i + 1] \in Bijection(S, T)
  <2>. HIDE DEF S, T
  <2>1. [i \in S |-> i + 1] \in [S -> T]
    BY <1>7
  <2>2. \A i, j \in S : i + 1 = j + 1 => i = j
    BY <1>1
  <2>3. \A d \in T : \E i \in S : i + 1 = d
    BY <1>6
  <2>. QED BY <2>1, <2>2, <2>3 DEF Bijection, Injection, Surjection, IsInjective
<1>9. ExistsBijection(S, T)
  BY <1>8 DEF ExistsBijection
<1>10. Cardinality(T) = Cardinality(S)
  BY <1>3, <1>9, FS_Bijection
<1>11. Conway!Cardinality(T) = Cardinality(T)
  BY DEF Conway!Cardinality, Cardinality
<1>. QED BY <1>1, <1>3, <1>4, <1>10, <1>11 DEF Conway!Siblings

-----------------------------------------------------------------------------
(* The invariant: the cells are in the same cycle, and each has counted    *)
(* those of its siblings alive whose cycle is over.                        *)

InStep == \A c, d \in Ids : cells[c].step = cells[d].step
Before(S, step) == {i \in S : i < step}
Counted ==
  \A id \in Ids : cells[id].count = Cardinality(Before(SiblingsAlive(id), cells[id].step)) % 8
Hears == \A id \in Ids : cells[id].heard <=> clk /\ Listens(cells[id], SiblingsAlive(id))

LifeInv == clk \in BOOLEAN /\ CellTypes /\ InStep /\ Counted /\ Hears

LEMMA BeforeFirst ==
  ASSUME NEW S, S \subseteq 0 .. 7
  PROVE  Cardinality(Before(S, 0)) = 0
<1>1. \A i \in S : ~(i < 0)
  OBVIOUS
<1>2. Before(S, 0) = {}
  BY <1>1 DEF Before
<1>. QED BY <1>2, FS_EmptySet

LEMMA BeforeLast ==
  ASSUME NEW S, S \subseteq 0 .. 7
  PROVE  Before(S, 8) = S
<1>1. \A i \in S : i < 8
  OBVIOUS
<1>. QED BY <1>1 DEF Before

LEMMA BeforeNext ==
  ASSUME NEW S, S \subseteq 0 .. 7, IsFiniteSet(S), NEW t \in 0 .. 7
  PROVE  /\ Cardinality(Before(S, t)) \in Nat
         /\ Cardinality(Before(S, t + 1)) =
              IF t \in S THEN Cardinality(Before(S, t)) + 1 ELSE Cardinality(Before(S, t))
<1>1. Before(S, t) \subseteq S /\ t \notin Before(S, t)
  BY DEF Before
<1>2. IsFiniteSet(Before(S, t))
  BY <1>1, FS_Subset
<1>3. \A i \in S : i < t + 1 <=> i < t \/ i = t
  OBVIOUS
<1>4. \A i : i \in Before(S, t + 1) <=> i \in Before(S, t) \/ (i = t /\ t \in S)
  BY <1>3 DEF Before
<1>5. CASE t \in S
  <2>1. Before(S, t + 1) = Before(S, t) \cup {t}
    BY <1>4, <1>5
  <2>. QED BY <1>1, <1>2, <1>5, <2>1, FS_AddElement, FS_CardinalityType
<1>6. CASE t \notin S
  <2>1. Before(S, t + 1) = Before(S, t)
    BY <1>4, <1>6
  <2>. QED BY <1>2, <1>6, <2>1, FS_CardinalityType
<1>. QED BY <1>5, <1>6

\* Counting in three bits is enough for the rule.
LEMMA EightIsNone ==
  ASSUME NEW a \in BOOLEAN, NEW n \in 0 .. 8
  PROVE  Lives(a, n % 8) <=> Conway!Lives(a, n)
<1>1. n % 8 = IF n = 8 THEN 0 ELSE n
  OBVIOUS
<1>. QED BY <1>1 DEF Lives, Conway!Lives

LEMMA SameSiblings ==
  ASSUME \A c \in Ids : cells'[c].alive = cells[c].alive
  PROVE  /\ \A id \in Ids : SiblingsAlive(id)' = SiblingsAlive(id)
         /\ Alive' = Alive
<1>1. \A w \in Wires : w[1] \in Ids
  BY DEF Wires
<1>. QED BY <1>1 DEF SiblingsAlive, Alive

LEMMA CellFields ==
  ASSUME CellTypes, NEW id \in Ids
  PROVE  /\ cells[id] \in [step : 0 .. 8, count : 0 .. 7, heard : BOOLEAN, alive : BOOLEAN]
         /\ cells[id].step \in 0 .. 8 /\ cells[id].count \in 0 .. 7
         /\ cells[id].heard \in BOOLEAN /\ cells[id].alive \in BOOLEAN
BY DEF CellTypes

-----------------------------------------------------------------------------
LEMMA InitHolds ==
  ASSUME Init
  PROVE  LifeInv /\ Alive \subseteq Conway!Ring \X Conway!Ring
<1>1. PICK pattern \in Patterns :
        cells = [id \in Ids |-> [step |-> 0, count |-> 0, heard |-> FALSE, alive |-> id \in pattern]]
  BY DEF Init
<1>2. \A id \in Ids : /\ cells[id].step = 0 /\ cells[id].count = 0
                      /\ cells[id].heard = FALSE /\ cells[id].alive \in BOOLEAN
  <2>. TAKE id \in Ids
  <2>1. cells[id] = [step |-> 0, count |-> 0, heard |-> FALSE, alive |-> id \in pattern]
    BY <1>1
  <2>. QED BY <2>1
<1>3. CellTypes
  BY <1>1 DEF CellTypes
<1>4. Counted
  <2>. SUFFICES ASSUME NEW id \in Ids
                PROVE  cells[id].count = Cardinality(Before(SiblingsAlive(id), cells[id].step)) % 8
    BY DEF Counted
  <2>1. Cardinality(Before(SiblingsAlive(id), 0)) = 0
    BY SameNumber, BeforeFirst
  <2>. QED BY <1>2, <2>1
<1>5. Hears
  BY <1>2 DEF Hears, Init
<1>6. \A id \in Ids : Place(id) \in Rows \X Rows
  BY IdOf
<1>. QED BY <1>2, <1>3, <1>4, <1>5, <1>6 DEF LifeInv, InStep, Init, Alive, Conway!Ring, Rows

LEMMA RiseStep ==
  ASSUME LifeInv, Rise
  PROVE  LifeInv' /\ \A id \in Ids : cells'[id].alive = cells[id].alive
<1>0. clk \in BOOLEAN /\ CellTypes /\ InStep /\ Counted /\ Hears
  BY DEF LifeInv
<1>1. ~clk /\ clk' = TRUE /\ cells' = [id \in Ids |-> OnRise(cells[id], SiblingsAlive(id))]
  BY DEF Rise
<1>2. \A id \in Ids :
        /\ cells'[id] = [cells[id] EXCEPT !.heard = Listens(cells[id], SiblingsAlive(id))]
        /\ Listens(cells[id], SiblingsAlive(id)) \in BOOLEAN
  BY <1>1 DEF OnRise, Listens
<1>3. \A id \in Ids : /\ cells'[id].step = cells[id].step /\ cells'[id].count = cells[id].count
                      /\ cells'[id].heard = Listens(cells[id], SiblingsAlive(id))
                      /\ cells'[id].alive = cells[id].alive
  BY <1>0, <1>2, CellFields
<1>4. \A id \in Ids : SiblingsAlive(id)' = SiblingsAlive(id)
  BY <1>3, SameSiblings
<1>5. CellTypes'
  BY <1>0, <1>1, <1>2, CellFields DEF CellTypes
<1>6. InStep'
  BY <1>0, <1>3 DEF InStep
<1>7. Counted'
  BY <1>0, <1>3, <1>4 DEF Counted
<1>8. Hears'
  BY <1>1, <1>3, <1>4 DEF Hears, Listens
<1>. QED BY <1>1, <1>3, <1>5, <1>6, <1>7, <1>8 DEF LifeInv

\* In cycles 0 .. 7 the count goes on and no cell changes.
LEMMA CountStep ==
  ASSUME LifeInv, Fall, NEW c \in Ids, cells[c].step < 8
  PROVE  LifeInv' /\ \A id \in Ids : cells'[id].alive = cells[id].alive
<1>0. clk \in BOOLEAN /\ CellTypes /\ InStep /\ Counted /\ Hears
  BY DEF LifeInv
<1>1. clk /\ clk' = FALSE /\ cells' = [id \in Ids |-> OnFall(cells[id])]
  BY DEF Fall
<1>2. PICK t \in 0 .. 7 : \A id \in Ids : cells[id].step = t
  BY <1>0, CellFields DEF InStep
<1>3. \A id \in Ids :
        cells'[id] = [cells[id] EXCEPT !.step = t + 1,
                        !.count = IF cells[id].heard THEN (cells[id].count + 1) % 8 ELSE cells[id].count,
                        !.heard = FALSE]
  <2>. TAKE id \in Ids
  <2>1. cells'[id] = OnFall(cells[id])
    BY <1>1
  <2>2. cells[id].step = t /\ t # 8
    BY <1>2
  <2>. QED BY <2>1, <2>2 DEF OnFall
<1>4. \A id \in Ids :
        /\ cells'[id].step = t + 1 /\ cells'[id].heard = FALSE /\ cells'[id].alive = cells[id].alive
        /\ cells'[id].count = IF cells[id].heard THEN (cells[id].count + 1) % 8 ELSE cells[id].count
  <2>. TAKE id \in Ids
  <2>1. PICK n : n = IF cells[id].heard THEN (cells[id].count + 1) % 8 ELSE cells[id].count
    OBVIOUS
  <2>2. cells'[id] = [cells[id] EXCEPT !.step = t + 1, !.count = n, !.heard = FALSE]
    BY <1>3, <2>1
  <2>3. cells[id] \in [step : 0 .. 8, count : 0 .. 7, heard : BOOLEAN, alive : BOOLEAN]
    BY <1>0, CellFields
  <2>4. /\ cells'[id].step = t + 1 /\ cells'[id].heard = FALSE /\ cells'[id].alive = cells[id].alive
        /\ cells'[id].count = n
    BY <2>2, <2>3
  <2>. QED BY <2>1, <2>4
<1>5. \A id \in Ids : SiblingsAlive(id)' = SiblingsAlive(id)
  BY <1>4, SameSiblings
<1>6. CellTypes'
  <2>. SUFFICES ASSUME NEW id \in Ids
                PROVE  cells'[id] \in [step : 0 .. 8, count : 0 .. 7, heard : BOOLEAN, alive : BOOLEAN]
    BY <1>1 DEF CellTypes
  <2>1. t + 1 \in 0 .. 8
    OBVIOUS
  <2>2. (IF cells[id].heard THEN (cells[id].count + 1) % 8 ELSE cells[id].count) \in 0 .. 7
    BY <1>0, CellFields
  <2>3. PICK n \in 0 .. 7 : cells'[id] = [cells[id] EXCEPT !.step = t + 1, !.count = n, !.heard = FALSE]
    BY <1>3, <2>2
  <2>4. cells[id] \in [step : 0 .. 8, count : 0 .. 7, heard : BOOLEAN, alive : BOOLEAN]
    BY <1>0, CellFields
  <2>. QED BY <2>1, <2>3, <2>4
<1>7. InStep'
  BY <1>4 DEF InStep
<1>8. Counted'
  <2>. SUFFICES ASSUME NEW id \in Ids
                PROVE  cells'[id].count = Cardinality(Before(SiblingsAlive(id), t + 1)) % 8
    BY <1>4, <1>5 DEF Counted
  <2>1. PICK n \in Nat : n = Cardinality(Before(SiblingsAlive(id), t))
    BY SameNumber, BeforeNext
  <2>2. Cardinality(Before(SiblingsAlive(id), t + 1)) = IF t \in SiblingsAlive(id) THEN n + 1 ELSE n
    BY <2>1, SameNumber, BeforeNext
  <2>3. cells[id].count = n % 8
    BY <1>0, <1>2, <2>1 DEF Counted
  <2>4. cells[id].heard <=> t \in SiblingsAlive(id)
    BY <1>0, <1>1, <1>2 DEF Hears, Listens
  <2>5. ((n % 8) + 1) % 8 = (n + 1) % 8
    BY <2>1
  <2>. QED BY <1>4, <2>2, <2>3, <2>4, <2>5
<1>9. Hears'
  BY <1>1, <1>4 DEF Hears
<1>. QED BY <1>1, <1>4, <1>6, <1>7, <1>8, <1>9 DEF LifeInv

\* The ninth cycle is a generation.
LEMMA UpdateStep ==
  ASSUME LifeInv, Fall, \A id \in Ids : cells[id].step = 8
  PROVE  LifeInv' /\ Conway!Generation
<1>0. clk \in BOOLEAN /\ CellTypes /\ InStep /\ Counted /\ Hears
  BY DEF LifeInv
<1>1. clk /\ clk' = FALSE /\ cells' = [id \in Ids |-> OnFall(cells[id])]
  BY DEF Fall
<1>2. \A id \in Ids : cells'[id] = [step |-> 0, count |-> 0, heard |-> FALSE,
                                    alive |-> Lives(cells[id].alive, cells[id].count)]
  BY <1>1 DEF OnFall
<1>3. \A id \in Ids : /\ cells'[id].step = 0 /\ cells'[id].count = 0 /\ cells'[id].heard = FALSE
                      /\ cells'[id].alive = Lives(cells[id].alive, cells[id].count)
  <2>. TAKE id \in Ids
  <2>1. cells'[id] = [step |-> 0, count |-> 0, heard |-> FALSE,
                      alive |-> Lives(cells[id].alive, cells[id].count)]
    BY <1>2
  <2>. QED BY <2>1
<1>4. CellTypes'
  <2>. SUFFICES ASSUME NEW id \in Ids
                PROVE  cells'[id] \in [step : 0 .. 8, count : 0 .. 7, heard : BOOLEAN, alive : BOOLEAN]
    BY <1>1 DEF CellTypes
  <2>1. PICK a \in BOOLEAN : a = Lives(cells[id].alive, cells[id].count)
    BY DEF Lives
  <2>2. cells'[id] = [step |-> 0, count |-> 0, heard |-> FALSE, alive |-> a]
    BY <1>2, <2>1
  <2>. QED BY <2>2
<1>5. InStep' /\ Hears'
  BY <1>1, <1>3 DEF InStep, Hears
<1>6. Counted'
  <2>. SUFFICES ASSUME NEW id \in Ids
                PROVE  0 = Cardinality(Before(SiblingsAlive(id)', 0)) % 8
    BY <1>3 DEF Counted
  <2>1. SiblingsAlive(id)' \subseteq 0 .. 7
    BY DEF SiblingsAlive, Wires, Opposite
  <2>. QED BY <2>1, BeforeFirst
<1>7. Conway!Generation
  <2>1. ASSUME NEW id \in Ids
        PROVE  Place(id) \in Alive' <=> Conway!Lives(Place(id) \in Alive, Conway!Siblings(Place(id)))
    <3>1. PICK n \in 0 .. 8 : n = Cardinality(SiblingsAlive(id))
      BY SameNumber
    <3>2. n = Conway!Siblings(Place(id))
      BY <3>1, SameNumber
    <3>3. cells[id].count = n % 8
      BY <1>0, <3>1, SameNumber, BeforeLast DEF Counted
    <3>4. cells'[id].alive <=> Conway!Lives(cells[id].alive, n)
      BY <1>0, <1>3, <3>3, EightIsNone, CellFields
    <3>5. Place(id) \in Alive' <=> cells'[id].alive
      BY PlaceInjective DEF Alive
    <3>6. (Place(id) \in Alive) = cells[id].alive
      BY <1>0, AliveAt, CellFields
    <3>. QED BY <3>2, <3>4, <3>5, <3>6
  <2>2. \A p \in Conway!Ring \X Conway!Ring : \E id \in Ids : p = Place(id)
    BY PlaceOf DEF Conway!Ring, Rows
  <2>3. \A id \in Ids : Place(id) \in Conway!Ring \X Conway!Ring
    BY IdOf DEF Conway!Ring, Rows
  <2>4. Alive' \subseteq Conway!Ring \X Conway!Ring
    BY <2>3 DEF Alive
  <2>. QED BY <2>1, <2>2, <2>4 DEF Conway!Generation
<1>. QED BY <1>1, <1>4, <1>5, <1>6, <1>7 DEF LifeInv

\* What a step of the grid does, by the cycle it is in.
LEMMA GridStep ==
  ASSUME LifeInv, [Next]_grid
  PROVE  /\ LifeInv'
         /\ \/ clk /\ (\A id \in Ids : cells[id].step = 8) /\ Conway!Generation
            \/ /\ ~(clk /\ \A id \in Ids : cells[id].step = 8) \/ UNCHANGED grid
               /\ \A id \in Ids : cells'[id].alive = cells[id].alive
<1>1. CASE Rise
  <2>1. ~clk
    BY <1>1 DEF Rise
  <2>. QED BY <1>1, <2>1, RiseStep
<1>2. CASE Fall /\ \A id \in Ids : cells[id].step = 8
  <2>1. clk
    BY <1>2 DEF Fall
  <2>. QED BY <1>2, <2>1, UpdateStep
<1>3. CASE Fall /\ ~\A id \in Ids : cells[id].step = 8
  <2>1. PICK c \in Ids : cells[c].step # 8
    BY <1>3
  <2>2. cells[c].step < 8
    BY <2>1, CellFields DEF LifeInv
  <2>. QED BY <1>3, <2>2, CountStep
<1>4. CASE UNCHANGED grid
  <2>1. clk' = clk /\ cells' = cells
    BY <1>4 DEF grid
  <2>2. \A id \in Ids : SiblingsAlive(id)' = SiblingsAlive(id)
    BY <2>1, SameSiblings
  <2>3. LifeInv'
    BY <2>1, <2>2 DEF LifeInv, CellTypes, InStep, Counted, Hears
  <2>. QED BY <1>4, <2>1, <2>3
<1>5. Rise \/ Fall \/ UNCHANGED grid
  BY DEF Next
<1>. QED BY <1>1, <1>2, <1>3, <1>4, <1>5

-----------------------------------------------------------------------------
(* The theorems.                                                           *)

\* In every reachable state all cells are in the same cycle, each has counted those of its
\* siblings alive that it has asked so far (modulo eight), and hears the sibling of this cycle
\* exactly when the clock is high and that sibling is alive (GameOfLife_Cell, GameOfLife::Build).
THEOREM LifeInvariant == Spec => []LifeInv
<1>1. Init => LifeInv
  BY InitHolds
<1>2. LifeInv /\ [Next]_grid => LifeInv'
  BY GridStep
<1>. QED BY <1>1, <1>2, PTL DEF Spec

\* The grid of every size from two by two implements the game of life: what GameOfLife::Build
\* connects, on the periphery too, is the torus of Conway's game, and a step of the clock
\* leaves every cell as it is or is one generation.
THEOREM GridPlaysLife == Spec => PlaysLife
<1>1. Init => Conway!Init
  BY InitHolds DEF Conway!Init
<1>2. LifeInv /\ [Next]_grid => [Conway!Generation]_Alive
  <2>. SUFFICES ASSUME LifeInv, [Next]_grid, ~Conway!Generation PROVE Alive' = Alive
    OBVIOUS
  <2>1. \A id \in Ids : cells'[id].alive = cells[id].alive
    BY GridStep
  <2>. QED BY <2>1, SameSiblings
<1>. QED BY <1>1, <1>2, LifeInvariant, PTL DEF Spec, PlaysLife, Conway!Spec

\* The fall of the clock at the end of the ninth cycle is a generation, of all cells at once,
\* and no other step changes a cell (the selector's update_flag, GameOfLife_Cell::Build).
THEOREM OnlyTheNinthCycle == Spec => NinthCycle
<1>1. LifeInv /\ [Next]_grid =>
        [IF clk /\ \A id \in Ids : cells[id].step = 8 THEN Conway!Generation
         ELSE \A id \in Ids : cells[id].alive' = cells[id].alive]_grid
  <2>. SUFFICES ASSUME LifeInv, [Next]_grid, ~UNCHANGED grid
                PROVE  IF clk /\ \A id \in Ids : cells[id].step = 8 THEN Conway!Generation
                       ELSE \A id \in Ids : cells[id].alive' = cells[id].alive
    OBVIOUS
  <2>1. \/ clk /\ (\A id \in Ids : cells[id].step = 8) /\ Conway!Generation
        \/ /\ ~(clk /\ \A id \in Ids : cells[id].step = 8)
           /\ \A id \in Ids : cells'[id].alive = cells[id].alive
    BY GridStep
  <2>. QED BY <2>1
<1>. QED BY <1>1, LifeInvariant, PTL DEF Spec, NinthCycle

\* A cell in the grid: nobody restarts, kills or gives birth while the grid plays.
InGrid(id) == INSTANCE LifeCell WITH
  cell <- cells[id], siblings <- SiblingsAlive(id), restart <- FALSE, kill <- FALSE, birth <- FALSE

\* Every cell of the grid does what a GameOfLife_Cell promises of its inputs (the promise that
\* the cell's circuit is checked against), with the siblings that the connections give it.
THEOREM CellsKeepTheirPromise ==
  ASSUME NEW id \in Ids
  PROVE  Spec => InGrid(id)!Spec
<1>1. Init => InGrid(id)!Init
  BY DEF Init, InGrid!Init
<1>2. LifeInv /\ [Next]_grid =>
        [InGrid(id)!Next]_<<clk, SiblingsAlive(id), FALSE, FALSE, FALSE, cells[id]>>
  <2>1. ASSUME LifeInv, Rise PROVE InGrid(id)!Rise
    <3>1. SiblingsAlive(id)' = SiblingsAlive(id)
      BY <2>1, RiseStep, SameSiblings
    <3>2. cells'[id] = OnRise(cells[id], SiblingsAlive(id))
      BY <2>1 DEF Rise
    <3>. QED BY <2>1, <3>1, <3>2 DEF Rise, InGrid!Rise, InGrid!Forced, OnRise, Listens, InGrid!OnRise, InGrid!Listens
  <2>2. ASSUME Fall PROVE InGrid(id)!Fall
    <3>1. cells'[id] = OnFall(cells[id])
      BY <2>2 DEF Fall
    <3>. QED BY <2>2, <3>1 DEF Fall, InGrid!Fall, InGrid!Forced, OnFall, InGrid!OnFall, Lives, InGrid!Lives
  <2>3. ASSUME UNCHANGED grid PROVE UNCHANGED <<clk, SiblingsAlive(id), FALSE, FALSE, FALSE, cells[id]>>
    BY <2>3, SameSiblings DEF grid
  <2>. QED BY <2>1, <2>2, <2>3 DEF Next, InGrid!Next
<1>. QED BY <1>1, <1>2, LifeInvariant, PTL DEF Spec, InGrid!Spec

=============================================================================
